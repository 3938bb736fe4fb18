----------------------------- MODULE DeviceProofs ------------------------------
(***************************************************************************)
(* Theorems about Device, and so about WifiMgr and ConnectionPull as they  *)
(* work together, for every set of networks, identities and answers and    *)
(* every bound.  One inductive invariant, IInv, carries them all.          *)
(***************************************************************************)
EXTENDS Device, SequenceTheorems, TLAPS

\* What the event task has not handled yet follows from where the driver is: two
\* events at most, and none once the station gave up.
QueueInv ==
    /\ sta \in {"off", "joining"} => events = <<>>
    /\ sta = "joined" => events = <<>> \/ events = <<"GOT_IP">>
    /\ sta = "idle" => \/ events = <<>>
                       \/ events = <<"START">>
                       \/ events = <<"DISCONNECTED">>
                       \/ events = <<"GOT_IP", "DISCONNECTED">>
    /\ "F" \in bits => sta = "idle" /\ events = <<>> /\ ~ever
    /\ refused => sta = "idle" /\ events = <<>> /\ boot # "load"
    /\ ever <=> "C" \in bits
    /\ boot = "load" => sta = "off" /\ bits = {}

\* What a boot would load was saved together, or does not fit.
Whole == \E n \in maybe : Wifi!Fits(n) => Wifi!Load = Wifi!Pair(n)

\* It is so between saves; a save under way has written the keys it
\* has come past.  A save that lost a key is excused until one mends it.
LoadInv ==
    ripped \/
        /\ saver \in {"idle", "ssid"} => Whole
        /\ saver = "pass" => wifiNvs.ssid = saved
        /\ saver = "file" => wifiNvs = Wifi!Pair(saved)

\* A save is under way only after the boot, and may have counted.
SaveInv == saver # "idle" => saved \in maybe /\ boot # "load"

WifiInv == Wifi!TypeOK /\ QueueInv /\ LoadInv /\ SaveInv

\* Nothing was reported while the lookup goes on, and what is about to be reported is
\* where it has to be.
PullInv ==
    /\ Pull!TypeOK
    /\ ~done => reports = 0 /\ told = NoId /\ ~cached
    /\ reports <= 1
    /\ pc \in {"azure", "tell"} => nvsConn = got.azure
    /\ pc = "tell" => config = got.azure
    /\ Pull!ToldIsStored

MainInv ==
    /\ {asking, missed} \subseteq BOOLEAN
    /\ asking => pc = "idle" /\ ~done
    /\ cloud \in {"start", "loaded", "end"}
    /\ {identity, session} \subseteq AzureIds \union {NoId}
    /\ (cloud = "loaded") = (identity # NoId)

IInv == WifiInv /\ PullInv /\ MainInv
-------------------------------------------------------------------------------
(* The Wi-Fi manager.                                                      *)

\* The queues there are.
Queues ==
    {<<>>, <<"START">>, <<"DISCONNECTED">>, <<"GOT_IP">>, <<"GOT_IP", "DISCONNECTED">>}

\* They are well typed, and taking an event or posting one leads from one to another.
LEMMA QueueOps ==
  /\ \A q \in Queues : q \in Seq({"START", "DISCONNECTED", "GOT_IP"}) /\ Len(q) <= 2
  /\ Append(<<>>, "GOT_IP") = <<"GOT_IP">>
  /\ Append(<<>>, "DISCONNECTED") = <<"DISCONNECTED">>
  /\ Append(<<"GOT_IP">>, "DISCONNECTED") = <<"GOT_IP", "DISCONNECTED">>
  /\ Head(<<"GOT_IP">>) = "GOT_IP" /\ Tail(<<"GOT_IP">>) = <<>>
  /\ Head(<<"START">>) = "START" /\ Tail(<<"START">>) = <<>>
  /\ Head(<<"DISCONNECTED">>) = "DISCONNECTED" /\ Tail(<<"DISCONNECTED">>) = <<>>
  /\ Head(<<"GOT_IP", "DISCONNECTED">>) = "GOT_IP"
  /\ Tail(<<"GOT_IP", "DISCONNECTED">>) = <<"DISCONNECTED">>
  <1>1. \A q \in Queues : q \in Seq({"START", "DISCONNECTED", "GOT_IP"}) /\ Len(q) <= 2
    <2> DEFINE E == {"START", "DISCONNECTED", "GOT_IP"}
    <2>1. <<>> \in Seq(E) /\ Len(<<>>) <= 2
      OBVIOUS
    <2>2. ASSUME NEW e \in E PROVE <<e>> \in Seq(E) /\ Len(<<e>>) <= 2
      OBVIOUS
    <2>3. <<"GOT_IP", "DISCONNECTED">> \in Seq(E) /\ Len(<<"GOT_IP", "DISCONNECTED">>) <= 2
      OBVIOUS
    <2>4. QED
      BY <2>1, <2>2, <2>3 DEF Queues
  <1>2. /\ Append(<<>>, "GOT_IP") = <<"GOT_IP">>
        /\ Append(<<>>, "DISCONNECTED") = <<"DISCONNECTED">>
        /\ Append(<<"GOT_IP">>, "DISCONNECTED") = <<"GOT_IP", "DISCONNECTED">>
    <2> DEFINE E == {"START", "DISCONNECTED", "GOT_IP"}
               q == <<"GOT_IP">>
               r == <<"GOT_IP", "DISCONNECTED">>
    <2>1. ASSUME NEW e \in E PROVE Append(<<>>, e) = <<e>>
      OBVIOUS
    <2>2. q \in Seq(E) /\ Len(q) = 1 /\ q[1] = "GOT_IP" /\ "DISCONNECTED" \in E
      OBVIOUS
    <2>3. /\ Append(q, "DISCONNECTED") \in Seq(E) /\ Len(Append(q, "DISCONNECTED")) = 2
          /\ Append(q, "DISCONNECTED")[1] = q[1] /\ Append(q, "DISCONNECTED")[2] = "DISCONNECTED"
      BY <2>2, AppendProperties
    <2>4. r \in Seq(E) /\ Len(r) = 2 /\ r[1] = "GOT_IP" /\ r[2] = "DISCONNECTED"
      OBVIOUS
    <2>5. \A i \in 1 .. 2 : Append(q, "DISCONNECTED")[i] = r[i]
      <3>1. Append(q, "DISCONNECTED")[1] = r[1] /\ Append(q, "DISCONNECTED")[2] = r[2]
        BY <2>2, <2>3, <2>4
      <3>2. \A i \in 1 .. 2 : i = 1 \/ i = 2
        OBVIOUS
      <3>3. QED
        BY <3>1, <3>2
    <2>6. Append(q, "DISCONNECTED") = r
      BY <2>3, <2>4, <2>5, SeqEqual
    <2>7. QED
      BY <2>1, <2>6
  <1>3. /\ Head(<<"GOT_IP">>) = "GOT_IP" /\ Tail(<<"GOT_IP">>) = <<>>
        /\ Head(<<"START">>) = "START" /\ Tail(<<"START">>) = <<>>
        /\ Head(<<"DISCONNECTED">>) = "DISCONNECTED" /\ Tail(<<"DISCONNECTED">>) = <<>>
    OBVIOUS
  <1>4. /\ Head(<<"GOT_IP", "DISCONNECTED">>) = "GOT_IP"
        /\ Tail(<<"GOT_IP", "DISCONNECTED">>) = <<"DISCONNECTED">>
    <2> DEFINE E == {"START", "DISCONNECTED", "GOT_IP"}
               q == <<"GOT_IP", "DISCONNECTED">>
    <2>1. q \in Seq(E) /\ q # <<>> /\ Len(q) = 2 /\ q[1] = "GOT_IP" /\ q[2] = "DISCONNECTED"
      OBVIOUS
    <2>2. /\ Tail(q) \in Seq(E) /\ Len(Tail(q)) = 1
          /\ \A i \in 1 .. Len(Tail(q)) : Tail(q)[i] = q[i + 1]
      BY <2>1, HeadTailProperties
    <2>3. Tail(q)[1] = "DISCONNECTED"
      BY <2>1, <2>2
    <2>4. <<"DISCONNECTED">> \in Seq(E) /\ Len(<<"DISCONNECTED">>) = 1
      OBVIOUS
    <2>5. Tail(q) = <<"DISCONNECTED">>
      BY <2>2, <2>3, <2>4, SeqEqual
    <2>6. QED
      BY <2>5
  <1>5. QED
    BY <1>1, <1>2, <1>3, <1>4

\* Where a call of esp_wifi_connect leaves the driver.
LEMMA Connecting ==
  ASSUME Wifi!ConstantsOK, faults \in 0 .. MaxFaults, refused \in BOOLEAN, ~refused,
         sta = "idle", Wifi!Connect
  PROVE  /\ sta' \in {"joining", "idle"} /\ refused' \in BOOLEAN /\ faults' \in 0 .. MaxFaults
         /\ refused' => sta' = "idle"
  <1>1. CASE sta' = "joining" /\ UNCHANGED <<refused, faults>>
    BY <1>1
  <1>2. CASE Wifi!Fault /\ refused' = TRUE /\ UNCHANGED sta
    <2>1. faults' \in 0 .. MaxFaults
      BY <1>2 DEF Wifi!Fault, Wifi!ConstantsOK
    <2>2. sta' = "idle" /\ refused' \in BOOLEAN
      BY <1>2
    <2>3. QED
      BY <2>1, <2>2
  <1>3. QED
    BY <1>1, <1>2 DEF Wifi!Connect

\* Every step of the station keeps its types and the order of its queue.
LEMMA StationKeepsQueue ==
  ASSUME Wifi!ConstantsOK, Wifi!TypeOK, QueueInv, Wifi!Station \/ Wifi!Drop
  PROVE  Wifi!TypeOK' /\ QueueInv'
  <1> USE DEF Wifi!ConstantsOK, Wifi!TypeOK, QueueInv, Wifi!stored, Wifi!saveVars
  <1>1. CASE Wifi!Start
    <2>1. Wifi!Load \in Wifi!Pairs(Wifi!Saved \union {Cut})
      BY DEF Wifi!Load, Wifi!ReadNvs, Wifi!Parse, Wifi!Pair, Wifi!Pairs, Wifi!Sources, Wifi!Saved
    <2>2. sta = "off" /\ bits = {} /\ events = <<>> /\ ~ever
      BY <1>1 DEF Wifi!Start
    <2>3. CASE Wifi!Load.ssid = NoNet
      BY <1>1, <2>1, <2>2, <2>3 DEF Wifi!Start
    <2>4. CASE Wifi!Load.ssid # NoNet
      <3>1. events' = <<"START">> /\ sta' = "idle" /\ boot' = "wait"
        BY <1>1, <2>4 DEF Wifi!Start
      <3>2. events' \in Seq({"START", "DISCONNECTED", "GOT_IP"}) /\ Len(events') <= 2
        BY <3>1
      <3>3. QED
        BY <1>1, <2>1, <2>2, <3>1, <3>2 DEF Wifi!Start
    <2>5. QED
      BY <2>3, <2>4
  <1>2. CASE Wifi!Return
    BY <1>2 DEF Wifi!Return
  <1>3. CASE Wifi!Handle
    <2>1. /\ events # <<>> /\ events' = Tail(events)
          /\ UNCHANGED <<boot, using, Wifi!stored, Wifi!saveVars>>
      BY <1>3 DEF Wifi!Handle
    <2>2. CASE Head(events) = "START" /\ Wifi!Started
      <3>1. sta = "idle" /\ events' = <<>> /\ bits \in {{}, {"C"}}
        BY <2>1, <2>2, QueueOps
      <3>2. UNCHANGED <<connected, ever, retries, bits>>
        BY <2>2 DEF Wifi!Started
      <3>3. /\ sta' \in {"joining", "idle"} /\ refused' \in BOOLEAN /\ faults' \in 0 .. MaxFaults
            /\ refused' => sta' = "idle"
        BY <2>1, <2>2, <3>1, Connecting DEF Wifi!Started
      <3>4. QED
        BY <2>1, <3>1, <3>2, <3>3
    <2>3. CASE Head(events) = "DISCONNECTED" /\ Wifi!Lost
      <3>1. sta = "idle" /\ events' = <<>> /\ ~("F" \in bits) /\ boot # "load" /\ ~refused
        BY <2>1, <2>3, QueueOps
      <3>2. connected' = FALSE /\ Wifi!Disconnected /\ UNCHANGED ever
        BY <2>3 DEF Wifi!Lost
      <3>3. /\ retries' \in 0 .. MaxRetry
            /\ bits' \in {bits, bits \union {"F"}} /\ ("F" \in bits' => sta' = "idle" /\ ~ever')
        BY <3>1, <3>2 DEF Wifi!Disconnected, Wifi!GivesUp
      <3>4. /\ sta' \in {"joining", "idle"} /\ refused' \in BOOLEAN /\ faults' \in 0 .. MaxFaults
            /\ refused' => sta' = "idle"
        <4>1. CASE Wifi!Connect
          BY <2>1, <3>1, <4>1, Connecting
        <4>2. CASE Wifi!GivesUp
          BY <3>1, <4>2 DEF Wifi!GivesUp
        <4>3. QED
          BY <3>2, <4>1, <4>2 DEF Wifi!Disconnected
      <3>5. bits' \in {{}, {"C"}, {"F"}} /\ (ever' <=> "C" \in bits')
        <4>1. CASE bits' = bits
          BY <3>2, <4>1
        <4>2. CASE bits' = bits \union {"F"}
          <5>1. ~ever'
            BY <3>3, <4>2
          <5>2. bits = {}
            BY <3>1, <3>2, <5>1
          <5>3. QED
            BY <4>2, <5>1, <5>2
        <4>3. QED
          BY <3>3, <4>1, <4>2
      <3>6. events' \in Seq({"START", "DISCONNECTED", "GOT_IP"}) /\ Len(events') <= 2
        BY <3>1
      <3>7. QED
        BY <2>1, <3>1, <3>2, <3>3, <3>4, <3>5, <3>6
    <2>4. CASE Head(events) = "GOT_IP" /\ Wifi!GotIp
      <3>1. \/ sta = "joined" /\ events' = <<>>
            \/ sta = "idle" /\ events' = <<"DISCONNECTED">>
        BY <2>1, <2>4, QueueOps
      <3>2. /\ connected' = TRUE /\ ever' = TRUE /\ retries' = 0
            /\ bits' = bits \union {"C"} /\ UNCHANGED <<sta, refused, faults>>
        BY <2>4 DEF Wifi!GotIp
      <3>3. bits' = {"C"} /\ ~refused
        BY <2>1, <3>2
      <3>4. events' \in Seq({"START", "DISCONNECTED", "GOT_IP"}) /\ Len(events') <= 2
        BY <3>1, QueueOps DEF Queues
      <3>5. QED
        BY <2>1, <3>1, <3>2, <3>3, <3>4
    <2>5. QED
      BY <1>3, <2>2, <2>3, <2>4 DEF Wifi!Handle
  <1>4. CASE Wifi!Join
    BY <1>4 DEF Wifi!Join, Wifi!Post
  <1>5. CASE Wifi!JoinFails
    BY <1>5 DEF Wifi!JoinFails, Wifi!Post, Wifi!Fault
  <1>6. CASE Wifi!Drop
    <2>1. sta = "joined" /\ sta' = "idle" /\ faults' \in 0 .. MaxFaults
      BY <1>6 DEF Wifi!Drop, Wifi!Fault
    <2>2. events' = <<"DISCONNECTED">> \/ events' = <<"GOT_IP", "DISCONNECTED">>
      <3>1. events' = Append(events, "DISCONNECTED")
        BY <1>6 DEF Wifi!Drop, Wifi!Post
      <3>2. events = <<>> \/ events = <<"GOT_IP">>
        BY <2>1
      <3>3. QED
        BY <3>1, <3>2, QueueOps
    <2>3. events' \in Seq({"START", "DISCONNECTED", "GOT_IP"}) /\ Len(events') <= 2
      BY <2>2, QueueOps DEF Queues
    <2>4. QED
      BY <1>6, <2>1, <2>2, <2>3 DEF Wifi!Drop
  <1>7. QED
    BY <1>1, <1>2, <1>3, <1>4, <1>5, <1>6 DEF Wifi!Station

\* What NVS holds whole, and fits, is what a boot loads.
LEMMA WholeLoads ==
  ASSUME Wifi!ConstantsOK, NEW n, Wifi!Fits(n), wifiNvs = Wifi!Pair(n)
  PROVE  Wifi!Load = Wifi!Pair(n)
  BY DEF Wifi!ConstantsOK, Wifi!Fits, Wifi!Pair, Wifi!Load, Wifi!ReadNvs, Wifi!Found

\* The same, of the state after a step.
LEMMA WholeLoadsNext ==
  ASSUME Wifi!ConstantsOK, NEW n, Wifi!Fits(n), wifiNvs' = Wifi!Pair(n)
  PROVE  Wifi!Load' = Wifi!Pair(n)
  BY DEF Wifi!ConstantsOK, Wifi!Fits, Wifi!Pair, Wifi!Load, Wifi!ReadNvs, Wifi!Found

\* A station step neither saves nor changes what a boot would load.
LEMMA StationKeepsLoad ==
  ASSUME Wifi!ConstantsOK, Wifi!TypeOK, QueueInv, LoadInv, SaveInv, Wifi!Station \/ Wifi!Drop
  PROVE  LoadInv' /\ SaveInv'
  <1>1. UNCHANGED <<Wifi!stored, Wifi!saveVars>>
    BY DEF Wifi!Station, Wifi!Start, Wifi!Return, Wifi!Handle, Wifi!Join, Wifi!JoinFails, Wifi!Drop
  <1>2. boot' = "load" => boot = "load"
    BY DEF Wifi!Station, Wifi!Start, Wifi!Return, Wifi!Handle, Wifi!Join, Wifi!JoinFails, Wifi!Drop
  <1>3. Wifi!Load' = Wifi!Load
    BY <1>1 DEF Wifi!stored, Wifi!Load, Wifi!ReadNvs, Wifi!Parse, Wifi!Found, Wifi!Pair
  <1>4. SaveInv'
    BY <1>1, <1>2 DEF SaveInv, Wifi!saveVars
  <1>5. LoadInv'
    BY <1>1, <1>3 DEF LoadInv, Whole, Wifi!Fits, Wifi!saveVars, Wifi!stored, Wifi!Pair
  <1>6. QED
    BY <1>4, <1>5

\* Saving keeps the types.
LEMMA SavingKeepsTypes ==
  ASSUME Wifi!ConstantsOK, Wifi!TypeOK, QueueInv,
         Wifi!Saving \/ \E n \in Wifi!Saved : Wifi!Save(n)
  PROVE  Wifi!TypeOK' /\ QueueInv'
  <1> USE DEF Wifi!ConstantsOK, Wifi!TypeOK, QueueInv, Wifi!station, Wifi!stored
  <1>1. CASE Wifi!SaveKey
    <2>1. wifiNvs' \in Wifi!Pairs(Wifi!Saved) /\ faults' \in 0 .. MaxFaults
      BY <1>1 DEF Wifi!SaveKey, Wifi!SetStr, Wifi!Fault, Wifi!Pairs
    <2>2. ripped' \in BOOLEAN
      BY <1>1 DEF Wifi!SaveKey
    <2>3. QED
      BY <1>1, <2>1, <2>2 DEF Wifi!SaveKey
  <1>2. CASE Wifi!SaveFile
    BY <1>2 DEF Wifi!SaveFile, Wifi!Fault, Wifi!Saved
  <1>3. ASSUME NEW n \in Wifi!Saved, Wifi!Save(n)
        PROVE  Wifi!TypeOK' /\ QueueInv'
    BY <1>3 DEF Wifi!Save
  <1>4. QED
    BY <1>1, <1>2, <1>3 DEF Wifi!Saving

\* Saving leaves what a boot would load whole, unless it loses a key.
LEMMA SavingKeepsLoad ==
  ASSUME Wifi!ConstantsOK, Wifi!TypeOK, LoadInv, SaveInv, Wifi!Saving
  PROVE  LoadInv' /\ SaveInv'
  <1> USE DEF Wifi!ConstantsOK, Wifi!TypeOK, Wifi!station, Wifi!Pair, Wifi!Pairs, Wifi!Saved
  <1>1. CASE Wifi!SaveKey /\ saver = "ssid"
    <2>1. saver' = "pass" /\ UNCHANGED <<boot, saved, maybe>>
      BY <1>1 DEF Wifi!SaveKey
    <2>2. ~ripped' => wifiNvs'.ssid = saved
      <3>1. ripped' = (faults' # faults \/ (ripped /\ wifiNvs' # Wifi!Pair(saved)))
        BY <1>1 DEF Wifi!SaveKey
      <3>2. CASE wifiNvs' = [wifiNvs EXCEPT !["ssid"] = saved]
        BY <3>2
      <3>3. CASE Wifi!Fault
        <4>1. faults' # faults
          BY <3>3 DEF Wifi!Fault
        <4>2. QED
          BY <3>1, <4>1
      <3>4. QED
        BY <1>1, <3>2, <3>3 DEF Wifi!SaveKey, Wifi!SetStr
    <2>3. QED
      BY <1>1, <2>1, <2>2 DEF LoadInv, SaveInv
  <1>2. CASE Wifi!SaveKey /\ saver = "pass"
    <2>1. saver' = "file" /\ UNCHANGED <<boot, saved, maybe>>
      BY <1>2 DEF Wifi!SaveKey
    <2>2. ~ripped' => wifiNvs' = Wifi!Pair(saved)
      <3>1. ripped' = (faults' # faults \/ (ripped /\ wifiNvs' # Wifi!Pair(saved)))
        BY <1>2 DEF Wifi!SaveKey
      <3>2. CASE wifiNvs' = [wifiNvs EXCEPT !["pass"] = saved]
        BY <1>2, <3>1, <3>2 DEF LoadInv
      <3>3. CASE Wifi!Fault
        <4>1. faults' # faults
          BY <3>3 DEF Wifi!Fault
        <4>2. QED
          BY <3>1, <4>1
      <3>4. QED
        BY <1>2, <3>2, <3>3 DEF Wifi!SaveKey, Wifi!SetStr
    <2>3. QED
      BY <1>2, <2>1, <2>2 DEF LoadInv, SaveInv
  <1>3. CASE Wifi!SaveFile
    <2>1. saver = "file" /\ saver' = "idle" /\ UNCHANGED <<boot, wifiNvs, older, ripped>>
      BY <1>3 DEF Wifi!SaveFile
    <2>2. saved \in maybe /\ saved \in maybe'
      BY <1>3, <2>1 DEF Wifi!SaveFile, SaveInv
    <2>3. ~ripped /\ Wifi!Fits(saved) => Wifi!Load' = Wifi!Pair(saved)
      BY <2>1, WholeLoadsNext DEF LoadInv
    <2>4. QED
      BY <2>1, <2>2, <2>3 DEF LoadInv, Whole, Wifi!Fits, SaveInv
  <1>4. QED
    BY <1>1, <1>2, <1>3 DEF Wifi!Saving, Wifi!SaveKey

\* So does the beginning of a save, which needs a session and so comes after the boot.
LEMMA SaveKeepsLoad ==
  ASSUME Wifi!ConstantsOK, Wifi!TypeOK, QueueInv, LoadInv, SaveInv, sta = "joined",
         NEW n \in Wifi!Saved, Wifi!Save(n)
  PROVE  LoadInv' /\ SaveInv'
  <1>1. /\ saver = "idle" /\ saver' = "ssid" /\ saved' = n /\ maybe' = maybe \union {n}
        /\ UNCHANGED <<boot, wifiNvs, wifiFile, older, ripped>>
    BY DEF Wifi!Save, Wifi!station, Wifi!stored
  <1>2. Wifi!Load' = Wifi!Load
    BY <1>1 DEF Wifi!Load, Wifi!ReadNvs, Wifi!Parse, Wifi!Found, Wifi!Pair
  <1>3. LoadInv'
    BY <1>1, <1>2 DEF LoadInv, Whole, Wifi!Fits, Wifi!Pair
  <1>4. SaveInv'
    BY <1>1 DEF SaveInv, QueueInv
  <1>5. QED
    BY <1>3, <1>4

\* A reset keeps what a boot would load whole, unless it comes between the two keys.
LEMMA RestartKeepsWifi ==
  ASSUME Wifi!ConstantsOK, WifiInv, Wifi!Restart, UNCHANGED faults
  PROVE  WifiInv'
  <1> USE DEF Wifi!ConstantsOK, WifiInv, Wifi!TypeOK
  <1>1. Wifi!TypeOK'
    <2>1. using' \in Wifi!Pairs(Wifi!Saved \union {Cut}) /\ wifiNvs' \in Wifi!Pairs(Wifi!Saved)
      BY DEF Wifi!Restart, Wifi!Pair, Wifi!Pairs, Wifi!Saved
    <2>2. {connected', ever', refused', ripped'} \subseteq BOOLEAN
      BY DEF Wifi!Restart
    <2>3. events' \in Seq({"START", "DISCONNECTED", "GOT_IP"}) /\ Len(events') <= 2
      BY DEF Wifi!Restart
    <2>4. QED
      BY <2>1, <2>2, <2>3 DEF Wifi!Restart, Wifi!Saved
  <1>2. QueueInv'
    BY DEF Wifi!Restart, QueueInv
  <1>3. SaveInv'
    BY DEF Wifi!Restart, SaveInv
  <1>4. LoadInv'
    <2> SUFFICES ASSUME ~ripped'
                 PROVE  Whole'
      BY DEF LoadInv, Wifi!Restart
    <2>1. ~ripped /\ saver # "pass" /\ UNCHANGED <<wifiNvs, older, maybe>>
      BY DEF Wifi!Restart
    <2>2. CASE saver = "file"
      <3>1. wifiNvs = Wifi!Pair(saved) /\ saved \in maybe
        BY <2>1, <2>2 DEF LoadInv, SaveInv
      <3>2. Wifi!Fits(saved) => Wifi!Load' = Wifi!Pair(saved)
        BY <2>1, <3>1, WholeLoadsNext
      <3>3. QED
        BY <2>1, <3>1, <3>2 DEF Whole, Wifi!Fits, Wifi!Pair
    <2>3. CASE saver # "file"
      <3>1. wifiFile' = wifiFile
        BY <2>3 DEF Wifi!Restart
      <3>2. Wifi!Load' = Wifi!Load
        BY <2>1, <3>1 DEF Wifi!Load, Wifi!ReadNvs, Wifi!Parse, Wifi!Found, Wifi!Pair
      <3>3. QED
        BY <2>1, <2>3, <3>2 DEF LoadInv, Whole, Wifi!Fits, Wifi!Pair
    <2>4. QED
      BY <2>2, <2>3
  <1>5. QED
    BY <1>1, <1>2, <1>3, <1>4
-------------------------------------------------------------------------------
(* The connection pull.                                                    *)

\* Every step of the pull keeps its invariant.
LEMMA PullStep ==
  ASSUME Pull!ConstantsOK, PullInv,
         Pull!Get \/ Pull!StoreId \/ Pull!StoreConn \/ Pull!SaveAzure \/ Pull!Tell
  PROVE  PullInv'
  <1> USE DEF Pull!ConstantsOK, PullInv, Pull!TypeOK, Pull!Ids, Pull!Nothing, Pull!ToldIsStored,
              Pull!ram, Pull!flash
  <1>1. CASE Pull!Get
    <2>1. PICK p \in Payloads : /\ faults' = IF Pull!Parsed(p).azure = NoId THEN faults + 1 ELSE faults
                                /\ Pull!Parsed(p).azure = NoId => faults < MaxFaults
                                /\ got' = Pull!Parsed(p)
                                /\ pc' = IF Pull!Parsed(p) = Pull!Nothing THEN "idle" ELSE "id"
      BY <1>1 DEF Pull!Get
    <2>2. p.conn \in AzureIds \union {NoId} /\ p.fields \in AzureIds \union {NoId}
          /\ p.id \in BackendIds \union {NoId}
      BY DEF Pull!Answers
    <2>3. got' \in [azure : AzureIds \union {NoId}, id : Pull!Ids]
      BY <2>1, <2>2 DEF Pull!Parsed
    <2>4. pc' # "idle" => got'.id # NoId
      BY <2>1, <2>2 DEF Pull!Parsed
    <2>5. faults' \in 0 .. MaxFaults
      BY <2>1
    <2>6. QED
      BY <1>1, <2>1, <2>3, <2>4, <2>5 DEF Pull!Get
  <1>2. CASE Pull!StoreId
    BY <1>2 DEF Pull!StoreId, Pull!Fault
  <1>3. CASE Pull!StoreConn
    BY <1>3 DEF Pull!StoreConn, Pull!Fault
  <1>4. CASE Pull!SaveAzure
    BY <1>4 DEF Pull!SaveAzure, Pull!Fault
  <1>5. CASE Pull!Tell
    <2>1. /\ pc = "tell" /\ ~done /\ told' = got.azure /\ got.azure # NoId
          /\ nvsConn' = got.azure /\ config' = got.azure
      BY <1>5 DEF Pull!Tell, Pull!Report
    <2>2. reports' = 1 /\ done' = TRUE /\ pc' = "idle"
      BY <1>5, <2>1 DEF Pull!Tell, Pull!Report
    <2>3. got' \in [azure : AzureIds \union {NoId}, id : Pull!Ids]
      BY <1>5 DEF Pull!Tell
    <2>4. /\ cached' = FALSE /\ told' \in AzureIds \union {NoId}
          /\ UNCHANGED <<deviceId, nvsId, nvsConn, config, faults, reboots>>
      BY <1>5, <2>1 DEF Pull!Tell
    <2>5. Pull!TypeOK'
      BY <2>1, <2>2, <2>3, <2>4
    <2>6. QED
      BY <2>1, <2>2, <2>4, <2>5
  <1>6. QED
    BY <1>1, <1>2, <1>3, <1>4, <1>5

\* So does a lookup that got no answer, whether for want of a link or by a fault.
LEMMA PullNoAnswer ==
  ASSUME PullInv, NEW ends \in BOOLEAN, Pull!NoAnswer(ends), faults' \in 0 .. MaxFaults
  PROVE  PullInv'
  <1> USE DEF PullInv, Pull!TypeOK, Pull!Ids, Pull!ToldIsStored
  <1>1. /\ pc = "idle" /\ ~done
        /\ UNCHANGED <<pc, got, nvsConn, config, reboots>>
    BY DEF Pull!NoAnswer
  <1>2. CASE ~cached /\ nvsConn # NoId
    <2>1. /\ deviceId' = nvsConn /\ nvsId' \in {nvsId, nvsConn} /\ told' = nvsConn
          /\ reports' = reports + 1 /\ cached' = TRUE /\ done' = TRUE
      BY <1>2 DEF Pull!NoAnswer, Pull!Report
    <2>2. reports' = 1
      BY <1>1, <2>1
    <2>3. QED
      BY <1>1, <2>1, <2>2
  <1>3. CASE ~(~cached /\ nvsConn # NoId)
    <2>1. done' \in BOOLEAN /\ UNCHANGED <<deviceId, nvsId, told, reports, cached>>
      BY <1>3 DEF Pull!NoAnswer
    <2>2. QED
      BY <1>1, <2>1
  <1>4. QED
    BY <1>2, <1>3

\* As HttpFails has it.
LEMMA PullFails ==
  ASSUME Pull!ConstantsOK, PullInv, HttpFails
  PROVE  PullInv'
  <1>1. CASE Pull!GetFails
    <2>1. faults' \in 0 .. MaxFaults
      BY <1>1 DEF Pull!GetFails, Pull!Fault, Pull!ConstantsOK, PullInv, Pull!TypeOK
    <2>2. QED
      BY <1>1, <2>1, PullNoAnswer DEF Pull!GetFails
  <1>2. CASE Pull!NoAnswer(FALSE) /\ UNCHANGED faults
    BY <1>2, PullNoAnswer DEF PullInv, Pull!TypeOK
  <1>3. QED
    BY <1>1, <1>2 DEF HttpFails

\* A reset keeps what is in flash, and begins a boot with nothing reported.
LEMMA RestartKeepsPull ==
  ASSUME PullInv, Pull!Restart, UNCHANGED faults, reboots' \in 0 .. MaxReboots
  PROVE  PullInv'
  <1> USE DEF PullInv, Pull!TypeOK, Pull!Restart, Pull!Nothing, Pull!flash, Pull!Ids
  <1>1. /\ pc' = "idle" /\ done' = FALSE /\ cached' = FALSE /\ told' = NoId /\ reports' = 0
        /\ deviceId' = nvsId /\ UNCHANGED <<nvsId, nvsConn, config, faults>>
    OBVIOUS
  <1>2. got' \in [azure : AzureIds \union {NoId}, id : Pull!Ids]
    OBVIOUS
  <1>3. Pull!TypeOK'
    <2>1. /\ {deviceId', nvsId'} \subseteq Pull!Ids
          /\ {told', nvsConn', config'} \subseteq AzureIds \union {NoId}
      BY <1>1
    <2>2. done' \in BOOLEAN /\ cached' \in BOOLEAN
      BY <1>1, Zenon
    <2>3. reports' \in Nat
      BY <1>1
    <2>4. QED
      BY <1>1, <1>2, <2>1, <2>2, <2>3
  <1>4. QED
    BY <1>1, <1>3 DEF Pull!ToldIsStored
-------------------------------------------------------------------------------
(* The device.                                                             *)

\* A step of another part leaves the Wi-Fi manager as it was.
LEMMA WifiFrame ==
  ASSUME WifiInv, UNCHANGED wifiVars, faults' \in 0 .. MaxFaults
  PROVE  WifiInv'
  <1> USE DEF wifiVars
  <1>1. Wifi!TypeOK' /\ QueueInv' /\ SaveInv'
    BY DEF WifiInv, Wifi!TypeOK, QueueInv, SaveInv
  <1>2. Wifi!Load' = Wifi!Load
    BY DEF Wifi!Load, Wifi!ReadNvs, Wifi!Parse, Wifi!Found, Wifi!Pair
  <1>3. LoadInv'
    BY <1>2 DEF WifiInv, LoadInv, Whole, Wifi!Fits, Wifi!Pair
  <1>4. QED
    BY <1>1, <1>3 DEF WifiInv

\* A step of another part leaves the connection pull as it was.
LEMMA PullFrame ==
  ASSUME PullInv, UNCHANGED pullVars, faults' \in 0 .. MaxFaults, reboots' \in 0 .. MaxReboots
  PROVE  PullInv'
  BY DEF PullInv, Pull!TypeOK, pullVars, Pull!ToldIsStored

\* A Wi-Fi step of the device keeps all invariants.
LEMMA WifiSteps ==
  ASSUME IInv, StationStep \/ LinkDrops \/ WifiSaved \/ MethodWifi
  PROVE  IInv'
  <1> USE ConstantsAssumption DEF IInv
  <1>1. WifiInv'
    <2>1. CASE StationStep \/ LinkDrops
      BY <2>1, StationKeepsQueue, StationKeepsLoad DEF WifiInv, StationStep, LinkDrops
    <2>2. CASE WifiSaved
      BY <2>2, SavingKeepsTypes, SavingKeepsLoad DEF WifiInv, WifiSaved
    <2>3. CASE MethodWifi
      BY <2>3, SavingKeepsTypes, SaveKeepsLoad DEF WifiInv, MethodWifi, Reached
    <2>4. QED
      BY <2>1, <2>2, <2>3
  <1>2. UNCHANGED <<pullVars, mainVars, reboots>>
    BY DEF StationStep, LinkDrops, WifiSaved, MethodWifi
  <1>3. faults' \in 0 .. MaxFaults /\ reboots' \in 0 .. MaxReboots
    BY <1>1, <1>2 DEF WifiInv, Wifi!TypeOK, PullInv, Pull!TypeOK
  <1>4. PullInv'
    BY <1>2, <1>3, PullFrame
  <1>5. MainInv'
    BY <1>2 DEF MainInv, mainVars, pullVars
  <1>6. QED
    BY <1>1, <1>4, <1>5

\* So does a step of cloud_init.
LEMMA CloudSteps ==
  ASSUME IInv, CloudStep
  PROVE  IInv'
  <1> USE ConstantsAssumption DEF IInv
  <1>1. UNCHANGED <<wifiVars, pullVars, asking, missed, reboots>>
    BY DEF CloudStep, CloudLoad, CloudConnect
  <1>2. faults' \in 0 .. MaxFaults /\ session' \in AzureIds \union {NoId}
    <2>1. CASE CloudLoad
      BY <2>1 DEF CloudLoad, WifiInv, Wifi!TypeOK, MainInv
    <2>2. CASE CloudConnect
      <3>1. faults \in 0 .. MaxFaults /\ {identity, session} \subseteq AzureIds \union {NoId}
        BY DEF WifiInv, Wifi!TypeOK, MainInv
      <3>2. Connect(identity)
        BY <2>2 DEF CloudConnect
      <3>3. CASE Wifi!Fault
        <4>1. faults' \in 0 .. MaxFaults
          BY <3>1, <3>3, ConstantsAssumption DEF Wifi!Fault, Wifi!ConstantsOK
        <4>2. session' \in {identity, session}
          BY <3>2 DEF Connect
        <4>3. QED
          BY <3>1, <4>1, <4>2
      <3>4. CASE ~Wifi!Fault
        BY <3>1, <3>2, <3>4 DEF Connect
      <3>5. QED
        BY <3>3, <3>4
    <2>3. QED
      BY <2>1, <2>2 DEF CloudStep
  <1>3. MainInv'
    <2>1. config \in AzureIds \union {NoId}
      BY DEF PullInv, Pull!TypeOK
    <2>2. CASE CloudLoad
      BY <1>1, <1>2, <2>1, <2>2 DEF CloudLoad, MainInv, pullVars
    <2>3. CASE CloudConnect
      BY <1>1, <1>2, <2>3 DEF CloudConnect, MainInv, pullVars
    <2>4. QED
      BY <2>2, <2>3 DEF CloudStep
  <1>4. reboots' \in 0 .. MaxReboots
    BY <1>1 DEF PullInv, Pull!TypeOK
  <1>5. WifiInv' /\ PullInv'
    BY <1>1, <1>2, <1>4, WifiFrame, PullFrame
  <1>6. QED
    BY <1>3, <1>5

\* So does a step of the HTTP task.
LEMMA HttpSteps ==
  ASSUME IInv, HttpStep
  PROVE  IInv'
  <1> USE ConstantsAssumption DEF IInv
  <1>1. CASE HttpAsk
    <2>1. /\ faults' \in 0 .. MaxFaults /\ reboots' \in 0 .. MaxReboots
          /\ UNCHANGED <<wifiVars, pullVars>>
      BY <1>1 DEF HttpAsk, PullInv, Pull!TypeOK
    <2>2. WifiInv' /\ PullInv'
      BY <2>1, WifiFrame, PullFrame
    <2>3. MainInv'
      BY <1>1 DEF HttpAsk, MainInv, pullVars
    <2>4. QED
      BY <2>2, <2>3
  <1>2. CASE ~HttpAsk
    <2>1. PullInv' /\ UNCHANGED wifiVars
      BY <1>2, PullStep, PullFails DEF HttpStep, HttpAnswer, HttpStore, HttpTell, HttpFails
    <2>2. WifiInv'
      BY <2>1, WifiFrame DEF PullInv, Pull!TypeOK
    <2>3. ASSUME HttpAnswer PROVE MainInv'
      <3>1. asking' = FALSE /\ UNCHANGED <<cloud, identity, session, missed>>
        BY <2>3 DEF HttpAnswer
      <3>2. QED
        BY <3>1 DEF MainInv
    <2>4. ASSUME HttpStore PROVE MainInv'
      <3>1. pc # "idle"
        BY <2>4 DEF HttpStore, Pull!StoreId, Pull!StoreConn, Pull!SaveAzure
      <3>2. QED
        <4>1. UNCHANGED mainVars
          BY <2>4 DEF HttpStore
        <4>2. QED
          BY <3>1, <4>1 DEF MainInv, mainVars
    <2>5. ASSUME HttpTell PROVE MainInv'
      <3>1. pc = "tell" /\ got.azure \in AzureIds \union {NoId}
        BY <2>5 DEF HttpTell, Pull!Tell, PullInv, Pull!TypeOK
      <3>2. session' \in AzureIds \union {NoId} /\ missed' \in BOOLEAN
        BY <2>5, <3>1 DEF HttpTell, Reported, MainInv
      <3>3. UNCHANGED <<asking, cloud, identity>>
        BY <2>5 DEF HttpTell
      <3>4. QED
        BY <3>1, <3>2, <3>3 DEF MainInv
    <2>6. ASSUME HttpFails PROVE MainInv'
      <3>1. told' \in AzureIds \union {NoId}
        BY <2>1 DEF PullInv, Pull!TypeOK
      <3>2. session' \in AzureIds \union {NoId} /\ missed' \in BOOLEAN
        BY <2>6, <3>1 DEF HttpFails, Reported, MainInv
      <3>3. asking' = FALSE /\ UNCHANGED <<cloud, identity>>
        BY <2>6 DEF HttpFails
      <3>4. QED
        BY <3>2, <3>3 DEF MainInv
    <2>7. MainInv'
      BY <1>2, <2>3, <2>4, <2>5, <2>6 DEF HttpStep
    <2>8. QED
      BY <2>1, <2>2, <2>7
  <1>3. QED
    BY <1>1, <1>2

\* So does a reset.
LEMMA RestartStep ==
  ASSUME IInv, Restart
  PROVE  IInv'
  <1> USE ConstantsAssumption DEF IInv
  <1>1. reboots' \in 0 .. MaxReboots
    BY DEF Restart, PullInv, Pull!TypeOK, Pull!ConstantsOK
  <1>2. WifiInv' /\ PullInv'
    BY <1>1, RestartKeepsWifi, RestartKeepsPull DEF Restart
  <1>3. MainInv'
    BY DEF Restart, MainInv
  <1>4. QED
    BY <1>2, <1>3

\* Every initial state satisfies the invariants: provisioned in one place or in none.
LEMMA InitIInv == Init => IInv
  <1> SUFFICES ASSUME Init PROVE IInv
    OBVIOUS
  <1> USE ConstantsAssumption DEF Wifi!ConstantsOK, Pull!ConstantsOK, Init
  <1>1. PICK where \in {"nvs", "legacy", "file", "other", "nowhere"} :
          /\ wifiNvs = Wifi!Pair(IF "nvs" = where THEN FirstNet ELSE NoNet)
          /\ wifiFile = IF "file" = where THEN FirstNet ELSE NoNet
          /\ older = [s \in Wifi!Sources |-> IF s = where THEN FirstNet ELSE NoNet]
          /\ maybe = IF where = "nowhere" THEN {NoNet} ELSE {FirstNet}
    BY DEF Wifi!Init
  <1>2. Wifi!TypeOK
    <2>1. using \in Wifi!Pairs(Wifi!Saved \union {Cut}) /\ wifiNvs \in Wifi!Pairs(Wifi!Saved)
      BY <1>1 DEF Wifi!Init, Wifi!Pair, Wifi!Pairs, Wifi!Saved
    <2>2. older \in [Wifi!Sources -> Wifi!Saved] /\ saved \in Wifi!Saved
      BY <1>1 DEF Wifi!Init, Wifi!Saved
    <2>3. events \in Seq({"START", "DISCONNECTED", "GOT_IP"}) /\ Len(events) <= 2
      BY DEF Wifi!Init
    <2>4. {connected, ever, refused, ripped} \subseteq BOOLEAN
      BY DEF Wifi!Init
    <2>5. wifiFile \in Wifi!Saved /\ maybe \subseteq Wifi!Saved
      BY <1>1 DEF Wifi!Saved
    <2>6. QED
      BY <2>1, <2>2, <2>3, <2>4, <2>5 DEF Wifi!Init, Wifi!TypeOK
  <1>3. QueueInv /\ SaveInv
    BY DEF Wifi!Init, QueueInv, SaveInv
  <1>4. LoadInv
    <2>1. CASE where = "nowhere"
      BY <1>1, <2>1 DEF LoadInv, Whole, Wifi!Fits, Wifi!Init
    <2>2. CASE where # "nowhere"
      <3>1. older["legacy"] = (IF where = "legacy" THEN FirstNet ELSE NoNet)
            /\ older["other"] = (IF where = "other" THEN FirstNet ELSE NoNet)
        BY <1>1 DEF Wifi!Sources
      <3>2. wifiNvs = Wifi!Pair(IF where = "nvs" THEN FirstNet ELSE NoNet)
        BY <1>1
      <3>3. NoNet \notin LongSsid /\ NoNet \notin LongPass
        OBVIOUS
      <3>4. Wifi!Fits(FirstNet) => Wifi!Load = Wifi!Pair(FirstNet)
        BY <1>1, <2>2, <3>1, <3>2, <3>3
        DEF Wifi!Fits, Wifi!Load, Wifi!ReadNvs, Wifi!Parse, Wifi!Found, Wifi!Pair
      <3>5. QED
        BY <1>1, <2>2, <3>4 DEF LoadInv, Whole, Wifi!Fits, Wifi!Init
    <2>3. QED
      BY <2>1, <2>2
  <1>5. PullInv
    <2>1. /\ pc = "idle" /\ done = FALSE /\ cached = FALSE /\ told = NoId /\ reports = 0
          /\ faults = 0 /\ reboots = 0 /\ deviceId = NoId /\ nvsId = NoId /\ nvsConn = NoId
          /\ config \in AzureIds \union {NoId}
      BY DEF Pull!Init
    <2>2. got \in [azure : AzureIds \union {NoId}, id : Pull!Ids]
      BY DEF Pull!Init, Pull!Nothing, Pull!Ids
    <2>3. Pull!TypeOK
      <3>1. /\ {deviceId, nvsId} \subseteq Pull!Ids
            /\ {told, nvsConn, config} \subseteq AzureIds \union {NoId}
        BY <2>1 DEF Pull!Ids
      <3>2. done \in BOOLEAN /\ cached \in BOOLEAN /\ reports \in Nat
        BY <2>1
      <3>3. QED
        BY <2>1, <2>2, <3>1, <3>2 DEF Pull!TypeOK
    <2>4. QED
      BY <2>1, <2>3 DEF PullInv, Pull!ToldIsStored
  <1>6. MainInv
    BY DEF MainInv
  <1>7. QED
    BY <1>2, <1>3, <1>4, <1>5, <1>6 DEF IInv, WifiInv

\* IInv is inductive.
LEMMA NextIInv == IInv /\ [Next]_vars => IInv'
  <1> SUFFICES ASSUME IInv, [Next]_vars PROVE IInv'
    OBVIOUS
  <1>1. CASE UNCHANGED vars
    <2>1. faults' \in 0 .. MaxFaults /\ reboots' \in 0 .. MaxReboots
      BY <1>1 DEF vars, IInv, PullInv, Pull!TypeOK
    <2>2. MainInv'
      BY <1>1 DEF vars, IInv, MainInv, mainVars, pullVars
    <2>3. QED
      BY <1>1, <2>1, <2>2, WifiFrame, PullFrame DEF vars, IInv
  <1>2. QED
    BY <1>1, WifiSteps, CloudSteps, HttpSteps, RestartStep DEF Next

\* IInv holds in every reachable state.
LEMMA Invariance == Spec => []IInv
  BY InitIInv, NextIInv, PTL DEF Spec

\* Every reachable state of the device is well typed; the event task never has more
\* than two events of the driver before it, and none once the station gave up.
THEOREM TypeCorrect == Spec => []TypeOK
  <1>1. IInv => TypeOK
    BY DEF IInv, WifiInv, PullInv, MainInv, TypeOK
  <1>2. QED
    BY <1>1, Invariance, PTL

\* An identity that main.c was told to connect with is in flash, so that the next boot
\* finds it again, wherever a write failed or the power was lost.
THEOREM ToldIsStoredHolds == Spec => []ToldIsStored
  <1>1. IInv => ToldIsStored
    BY DEF IInv, PullInv, ToldIsStored
  <1>2. QED
    BY <1>1, Invariance, PTL

\* main.c is told of one identity per boot at most.
THEOREM ToldOnceHolds == Spec => []ToldOnce
  <1>1. IInv => ToldOnce
    BY DEF IInv, PullInv, ToldOnce, Pull!ToldOnce
  <1>2. QED
    BY <1>1, Invariance, PTL

\* A boot comes up with the SSID and the password of one and the same save, unless a
\* save lost one of its two keys and none has mended it since.
THEOREM BootsWithSavedWifiHolds == Spec => BootsWithSavedWifi
  <1>1. IInv /\ [Next]_vars =>
          [boot = "load" /\ boot' # "load" =>
             ripped \/ \E n \in maybe : Wifi!Fits(n) => using' = Wifi!Pair(n)]_Wifi!wifiVars
    <2> SUFFICES ASSUME IInv, [Next]_vars, boot = "load", boot' # "load", ~ripped
                 PROVE  \E n \in maybe : Wifi!Fits(n) => using' = Wifi!Pair(n)
      OBVIOUS
    <2>1. Wifi!Start
      BY DEF Next, vars, wifiVars, StationStep, LinkDrops, CloudStep, CloudLoad, CloudConnect,
             HttpStep, HttpAsk, HttpAnswer, HttpStore, HttpTell, HttpFails, MethodWifi, WifiSaved,
             Restart, Wifi!Station, Wifi!Return, Wifi!Handle, Wifi!Join, Wifi!JoinFails,
             Wifi!Drop, Wifi!Save, Wifi!Saving, Wifi!SaveKey, Wifi!SaveFile, Wifi!Restart,
             Wifi!station
    <2>2. saver = "idle"
      BY <2>1 DEF IInv, WifiInv, SaveInv, Wifi!Start, Wifi!TypeOK
    <2>3. Whole
      BY <2>2 DEF IInv, WifiInv, LoadInv
    <2>4. QED
      BY <2>1, <2>3 DEF Wifi!Start, Whole
  <1>2. QED
    BY <1>1, Invariance, PTL DEF Spec, BootsWithSavedWifi, Wifi!BootsWithSavedWifi
===============================================================================
