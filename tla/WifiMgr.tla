------------------------------- MODULE WifiMgr ---------------------------------
(***************************************************************************)
(* wifi_mgr.c: the credentials it keeps, the connect at boot, and the      *)
(* handler that keeps the station connected afterwards.  The handler runs  *)
(* in the event task, behind a queue: what it knows of the driver may be   *)
(* old.  The wifi_credentials method saves new credentials, NVS key by NVS *)
(* key and then the file; they count from the next boot on.                *)
(***************************************************************************)
EXTENDS Naturals, Sequences

CONSTANTS Networks,    \* an SSID and the password that belongs to it
          LongSsid,    \* those whose SSID has 32 bytes, which ssid[32] does not hold
          LongPass,    \* those whose password has 64, which pass[64] does not hold
          NoNet,       \* an empty string, or a file without an SSID, missing or torn
          Cut,         \* a string that was cut to the size of its buffer
          FirstNet,    \* what the device was provisioned with
          MaxRetry,    \* WIFI_MAX_RETRY
          MaxSaves,    \* bound on the calls of wifi_credentials
          MaxFaults    \* bound on failures: of a join, of the link, of a write

ConstantsOK ==
    /\ NoNet \notin Networks /\ Cut \notin Networks \union {NoNet}
    /\ LongSsid \union LongPass \subseteq Networks
    /\ FirstNet \in Networks
    /\ MaxRetry \in Nat /\ MaxSaves \in Nat /\ MaxFaults \in Nat

VARIABLES sta,       \* the driver (external): "off", "idle", "joining" or "joined"
          events,    \* what it posted and the event task has not handled yet
          connected, ever, retries, \* s_connected, s_ever_connected, s_retry_count
          bits,      \* s_evt_grp: "C" connected, "F" failed
          boot,      \* wifi_mgr_connect: "load", "wait", or what it returned
          using,     \* the SSID and the password the driver was given
          refused,   \* an esp_wifi_connect of this boot returned an error
          wifiNvs,   \* NVS: wifi_ssid and wifi_pass
          wifiFile,  \* /wifi.json
          older,     \* older[s]: what one of the sources nobody writes holds
          saver,     \* wifi_mgr_save_credentials: "idle", or what it writes next
          saved,     \* what it saves
          maybe,     \* the networks a boot may come up with
          ripped,    \* a save lost one of its NVS keys, or both, and none has mended it since
          saves, faults

station == <<sta, events, connected, ever, retries, bits, boot, using, refused>>
stored == <<wifiNvs, wifiFile, older>>
saveVars == <<saver, saved, maybe, ripped, saves>>
wifiVars == <<station, stored, saveVars>>

Saved == Networks \union {NoNet}
Pairs(S) == [ssid : S, pass : S]
Pair(n) == [ssid |-> n, pass |-> n]
Joinable(p) == p.ssid \in Networks /\ p.ssid = p.pass

\* The sources below NVS; /wifi.json, the one that is written, stands between.
Sources == {"legacy", "other"}

TypeOK ==
    /\ sta \in {"off", "idle", "joining", "joined"}
    /\ events \in Seq({"START", "DISCONNECTED", "GOT_IP"}) /\ Len(events) <= 2
    /\ {connected, ever, refused, ripped} \subseteq BOOLEAN
    /\ retries \in 0 .. MaxRetry
    /\ bits \in {{}, {"C"}, {"F"}}
    /\ "F" \in bits \/ refused => sta = "idle" /\ events = <<>>
    /\ boot \in {"load", "wait", "OK", "FAIL", "TIMEOUT", "NOT_FOUND"}
    /\ using \in Pairs(Saved \union {Cut}) /\ wifiNvs \in Pairs(Saved)
    /\ wifiFile \in Saved /\ older \in [Sources -> Saved]
    /\ saver \in {"idle", "ssid", "pass", "file"} /\ saved \in Saved
    /\ maybe \subseteq Saved
    /\ saves \in 0 .. MaxSaves /\ faults \in 0 .. MaxFaults

\* Provisioned in one of the places the credentials are looked for, or in none.
Init ==
    /\ sta = "off" /\ events = <<>>
    /\ connected = FALSE /\ ever = FALSE /\ retries = 0 /\ bits = {}
    /\ boot = "load" /\ using = Pair(NoNet) /\ refused = FALSE
    /\ saver = "idle" /\ saved = FirstNet
    /\ \E where \in {"nvs", "legacy", "file", "other", "nowhere"} :
         LET At(w) == IF w = where THEN FirstNet ELSE NoNet IN
         /\ wifiNvs = Pair(At("nvs")) /\ wifiFile = At("file")
         /\ older = [s \in Sources |-> At(s)]
         /\ maybe = IF where = "nowhere" THEN {NoNet} ELSE {FirstNet}
    /\ ripped = FALSE /\ saves = 0 /\ faults = 0

Fault == faults < MaxFaults /\ faults' = faults + 1
-------------------------------------------------------------------------------
(* wifi_mgr_connect.                                                       *)

\* load_credentials_from_nvs_namespace: nvs_get_str gives the whole string or, when the
\* buffer is too small for it, none.
ReadNvs(p) ==
    [ssid |-> IF p.ssid \in LongSsid THEN NoNet ELSE p.ssid,
     pass |-> IF p.pass \in LongPass THEN NoNet ELSE p.pass]

\* The parsers of the files, and the build's own: snprintf cuts what is too long.
Parse(n) ==
    [ssid |-> IF n \in LongSsid THEN Cut ELSE n, pass |-> IF n \in LongPass THEN Cut ELSE n]

\* An SSID is enough.
Found(p) == p.ssid # NoNet

\* Mutant: the namespace of earlier firmware is read first.
Load_LegacyFirst ==
    IF Found(ReadNvs(Pair(older["legacy"]))) THEN ReadNvs(Pair(older["legacy"]))
    ELSE IF Found(ReadNvs(wifiNvs)) THEN ReadNvs(wifiNvs)
    ELSE IF Found(Parse(wifiFile)) THEN Parse(wifiFile)
    ELSE Parse(older["other"])

\* load_credentials: the two namespaces of NVS, then /wifi.json, then /wifi.txt,
\* /config.json and the build's own.
Load ==
    IF Found(ReadNvs(wifiNvs)) THEN ReadNvs(wifiNvs)
    ELSE IF Found(ReadNvs(Pair(older["legacy"]))) THEN ReadNvs(Pair(older["legacy"]))
    ELSE IF Found(Parse(wifiFile)) THEN Parse(wifiFile)
    ELSE Parse(older["other"])

\* Without credentials it returns at once and the station is never started.
Start ==
    /\ boot = "load"
    /\ using' = Load
    /\ IF Load.ssid = NoNet
         THEN boot' = "NOT_FOUND" /\ UNCHANGED <<sta, events>>
         ELSE boot' = "wait" /\ sta' = "idle" /\ events' = <<"START">>
    /\ UNCHANGED <<connected, ever, retries, bits, refused, stored, saveVars, faults>>

\* An event bit, or 30 s without one; it waits no longer than that, however long the
\* station goes on trying.
Return ==
    /\ boot = "wait"
    /\ boot' = CASE "C" \in bits -> "OK" [] "F" \in bits -> "FAIL" [] OTHER -> "TIMEOUT"
    /\ UNCHANGED <<sta, events, connected, ever, retries, bits, using, refused>>
    /\ UNCHANGED <<stored, saveVars, faults>>
-------------------------------------------------------------------------------
(* wifi_event_handler.                                                     *)

\* esp_wifi_connect; an error is not looked at, and no event follows it.
Connect ==
    \/ sta' = "joining" /\ UNCHANGED <<refused, faults>>
    \/ Fault /\ refused' = TRUE /\ UNCHANGED sta

GivesUp == bits' = bits \union {"F"} /\ UNCHANGED <<sta, refused, faults>>

\* Mutant: the tries count for a station that was connected once, too.
Disconnected_CountsAlways ==
    \/ retries < MaxRetry /\ retries' = retries + 1 /\ Connect /\ UNCHANGED bits
    \/ retries >= MaxRetry /\ GivesUp /\ UNCHANGED retries

\* A station that was connected once tries for ever; another gives up, for good.
Disconnected ==
    \/ ever /\ Connect /\ UNCHANGED <<retries, bits>>
    \/ ~ever /\ retries < MaxRetry /\ retries' = retries + 1 /\ Connect /\ UNCHANGED bits
    \/ ~ever /\ retries >= MaxRetry /\ GivesUp /\ UNCHANGED retries

Started == Connect /\ UNCHANGED <<connected, ever, retries, bits>>
Lost == connected' = FALSE /\ Disconnected /\ UNCHANGED ever
GotIp ==
    /\ connected' = TRUE /\ ever' = TRUE /\ retries' = 0
    /\ bits' = bits \union {"C"}
    /\ UNCHANGED <<sta, refused, faults>>

Handle ==
    /\ events # <<>>
    /\ events' = Tail(events)
    /\ \/ Head(events) = "START" /\ Started
       \/ Head(events) = "DISCONNECTED" /\ Lost
       \/ Head(events) = "GOT_IP" /\ GotIp
    /\ UNCHANGED <<boot, using, stored, saveVars>>
-------------------------------------------------------------------------------
(* The driver (external).                                                  *)

Post(e) == events' = Append(events, e)

\* "joining" lasts until there is an address, which a network that works hands out.
Join ==
    /\ sta = "joining"
    /\ Joinable(using)
    /\ sta' = "joined" /\ Post("GOT_IP")
    /\ UNCHANGED <<connected, ever, retries, bits, boot, using, refused>>
    /\ UNCHANGED <<stored, saveVars, faults>>

\* What is not a network's own pair fails every time; anything else is a failure of the network.
JoinFails ==
    /\ sta = "joining"
    /\ IF Joinable(using) THEN Fault ELSE UNCHANGED faults
    /\ sta' = "idle" /\ Post("DISCONNECTED")
    /\ UNCHANGED <<connected, ever, retries, bits, boot, using, refused, stored, saveVars>>

Drop ==
    /\ sta = "joined"
    /\ Fault
    /\ sta' = "idle" /\ Post("DISCONNECTED")
    /\ UNCHANGED <<connected, ever, retries, bits, boot, using, refused, stored, saveVars>>
-------------------------------------------------------------------------------
(* wifi_mgr_save_credentials.                                              *)

\* The wifi_credentials method takes any two strings; here those of a network, or an
\* empty SSID.
Save(n) ==
    /\ saver = "idle"
    /\ saves < MaxSaves
    /\ saves' = saves + 1
    /\ saver' = "ssid" /\ saved' = n
    /\ maybe' = maybe \union {n}
    /\ UNCHANGED <<station, stored, ripped, faults>>

\* nvs_manager_set_str: the key has the new value, or an error is returned.
SetStr(key, value) ==
    \/ wifiNvs' = [wifiNvs EXCEPT ![key] = value] /\ UNCHANGED faults
    \/ Fault /\ UNCHANGED wifiNvs

\* An error is only logged.
SaveKey ==
    /\ saver \in {"ssid", "pass"}
    /\ saver' = IF saver = "ssid" THEN "pass" ELSE "file"
    /\ SetStr(saver, saved)
    /\ ripped' = (faults' # faults \/ (ripped /\ wifiNvs' # Pair(saved)))
    /\ UNCHANGED <<station, wifiFile, older, saved, maybe, saves>>

\* The result of the file is what the save returns.
SaveFile ==
    /\ saver = "file"
    /\ saver' = "idle" /\ saved' = FirstNet
    /\ \/ wifiFile' = saved /\ maybe' = {saved} /\ UNCHANGED faults
       \/ Fault /\ wifiFile' \in {wifiFile, NoNet} /\ UNCHANGED maybe
    /\ UNCHANGED <<station, wifiNvs, older, ripped, saves>>
-------------------------------------------------------------------------------
\* A reset at any step; a file that was being written may be torn.
Restart ==
    /\ wifiFile' \in IF saver = "file" THEN {wifiFile, NoNet} ELSE {wifiFile}
    /\ sta' = "off" /\ events' = <<>>
    /\ connected' = FALSE /\ ever' = FALSE /\ retries' = 0 /\ bits' = {}
    /\ boot' = "load" /\ using' = Pair(NoNet) /\ refused' = FALSE
    /\ saver' = "idle" /\ saved' = FirstNet
    /\ ripped' = (ripped \/ saver = "pass")
    /\ UNCHANGED <<wifiNvs, older, maybe, saves>>

Station == Start \/ Return \/ Handle \/ Join \/ JoinFails
Saving == SaveKey \/ SaveFile
-------------------------------------------------------------------------------
(* Properties.                                                             *)

\* Nothing starts a station again that gave up before it ever connected, that had no
\* credentials, or whose esp_wifi_connect returned an error.
Deaf == boot = "NOT_FOUND" \/ (~ever /\ "F" \in bits) \/ refused

\* Once failures stop, the station is connected, and known to be, for good; or it is
\* deaf.  One that was connected once only becomes deaf by an error of esp_wifi_connect.
StaysConnected == <>[]((connected /\ sta = "joined") \/ Deaf)

\* Both strings fit the buffers a boot reads them into.
Fits(n) == n \in Networks \ (LongSsid \union LongPass)

\* A boot comes up with the SSID and the password of one and the same save: the last
\* one that returned ESP_OK, or a later one.  Not so after a save that lost one of its
\* two NVS keys, to an error, which is only logged, or to a reset between them; nor when
\* that save had an empty SSID, or a string that is too long to be read back.
BootsWithSavedWifi ==
    [][boot = "load" /\ boot' # "load" =>
         ripped \/ \E n \in maybe : Fits(n) => using' = Pair(n)]_wifiVars
===============================================================================
