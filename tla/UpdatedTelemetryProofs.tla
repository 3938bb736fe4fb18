------------------------ MODULE UpdatedTelemetryProofs -------------------------
(***************************************************************************)
(* Theorems about PendingTelemetry, about Ota and about the two together   *)
(* in UpdatedTelemetry, for every number of messages, faults and resets    *)
(* and every set of versions.                                              *)
(***************************************************************************)
EXTENDS UpdatedTelemetry, FiniteSetTheorems, TLAPS

\* Why the counter stays within the messages: it is counted up once for a message,
\* after that message was published.
CountInv ==
    /\ seq < next
    /\ tele = "count" => seq + 1 < next
    /\ tele # "idle" => next >= 2
    /\ bg = "deliver" => buf # NoMsg

\* While the counter is never cleared, a number is used for one save only: neither the
\* drain nor the directory knows the number a save is about to use.
NumbersInv ==
    /\ \A n \in DOMAIN files \union todo : n <= seq
    /\ cur <= seq
    /\ tele \in {"open", "write"} =>
         seq \notin todo /\ (bg \in {"deliver", "remove"} => cur # seq)
    /\ tele = "open" => seq \notin DOMAIN files
    /\ tele = "write" => name = seq /\ name \in DOMAIN files /\ files[name] = Torn

\* So the file the drain delivers and removes is still the one it read.
DrainInv ==
    /\ bg = "deliver" /\ cur \in DOMAIN files => files[cur] = buf \/ files[cur] \in cut
    /\ bg = "remove" /\ cur \in DOMAIN files =>
         files[cur] \in delivered \union cut \union {Torn}

NeverReset == reboots = 0 /\ reinits = 0

SafeInv == NeverReset => NumbersInv /\ DrainInv /\ QueuedSurvives

IInv == TypeOK /\ CountInv /\ SafeInv
-------------------------------------------------------------------------------
(* Type correctness.                                                       *)

\* Every initial state is well typed.
LEMMA InitTypes == ConstantsAssumption /\ Init => TypeOK /\ CountInv
  <1>1. Cardinality({}) = 0
    BY FS_EmptySet
  <1>2. QED
    BY <1>1 DEF ConstantsAssumption, Init, TypeOK, CountInv, Content

\* What one drain looks at fits the array it is given.
LEMMA ScanFits ==
  ASSUME ConstantsAssumption, TypeOK, NEW t, Scans(t)
  PROVE  t \subseteq 0 .. MaxMsgs /\ Cardinality(t) <= ScanMax
  <1>1. IsFiniteSet(0 .. MaxMsgs)
    BY FS_Interval DEF ConstantsAssumption
  <1>2. IsFiniteSet(DOMAIN files)
    BY <1>1, FS_Subset DEF TypeOK
  <1>3. Cardinality(DOMAIN files) \in Nat
    BY <1>2, FS_CardinalityType
  <1>4. QED
    BY <1>3 DEF Scans, TypeOK, ConstantsAssumption

\* A file less to look at fits as well.
LEMMA RestFits ==
  ASSUME ConstantsAssumption, TypeOK, NEW n
  PROVE  todo \ {n} \subseteq 0 .. MaxMsgs /\ Cardinality(todo \ {n}) <= ScanMax
  <1>1. IsFiniteSet(0 .. MaxMsgs)
    BY FS_Interval DEF ConstantsAssumption
  <1>2. IsFiniteSet(todo)
    BY <1>1, FS_Subset DEF TypeOK
  <1>3. Cardinality(todo) \in Nat
    BY <1>2, FS_CardinalityType
  <1>4. Cardinality(todo \ {n}) <= Cardinality(todo)
    BY <1>2, <1>3, FS_RemoveElement
  <1>5. Cardinality(todo \ {n}) \in Nat
    BY <1>2, FS_RemoveElement, FS_CardinalityType
  <1>6. Cardinality(todo) <= ScanMax /\ ScanMax \in Nat
    BY DEF TypeOK, ConstantsAssumption
  <1>7. todo \ {n} \subseteq 0 .. MaxMsgs
    BY DEF TypeOK
  <1>8. QED
    BY <1>3, <1>4, <1>5, <1>6, <1>7

\* Every step keeps the types, and the counter within the messages.
LEMMA NextTypes ==
  ConstantsAssumption /\ TypeOK /\ CountInv /\ [Next]_vars => TypeOK' /\ CountInv'
  <1> SUFFICES ASSUME ConstantsAssumption, TypeOK, CountInv, [Next]_vars
               PROVE  TypeOK' /\ CountInv'
    OBVIOUS
  <1> USE DEF ConstantsAssumption, TypeOK, CountInv, Content, Msgs, teleVars, bgVars, told, bounds
  <1>1. CASE Publish
    <2>1. next \in Msgs /\ next' = next + 1
      BY <1>1 DEF Publish
    <2>2. delivered' \subseteq Content /\ faults' \in 0 .. MaxFaults
      <3>1. Delivered(next) \/ NotDelivered(next)
        BY <1>1 DEF Publish
      <3>2. CASE Delivered(next)
        BY <2>1, <3>2 DEF Delivered
      <3>3. CASE NotDelivered(next)
        BY <2>1, <3>3 DEF NotDelivered, Fault
      <3>4. QED
        BY <3>1, <3>2, <3>3
    <2>3. tele' \in {"idle", "count"} /\ tele = "idle"
      BY <1>1 DEF Publish
    <2>4. QED
      BY <1>1, <2>1, <2>2, <2>3 DEF Publish
  <1>2. CASE Count
    BY <1>2 DEF Count
  <1>3. CASE Open
    BY <1>3 DEF Open, Stored, Fault
  <1>4. CASE Write
    BY <1>4 DEF Write, Stored, Fault, InHand
  <1>5. CASE DrainBegin
    BY <1>5, ScanFits DEF DrainBegin
  <1>6. ASSUME NEW n \in todo, DrainRead(n)
        PROVE  TypeOK' /\ CountInv'
    <2>1. todo' \subseteq 0 .. MaxMsgs /\ Cardinality(todo') <= ScanMax
      BY <1>6, RestFits DEF DrainRead
    <2>2. cur' \in 0 .. MaxMsgs
      BY <1>6 DEF DrainRead, ReadsShort, Fault
    <2>3. buf' \in Content \union {NoMsg} /\ (bg' = "deliver" => buf' # NoMsg)
      BY <1>6 DEF DrainRead, ReadsShort, Fault
    <2>4. cut' \subseteq Msgs /\ faults' \in 0 .. MaxFaults
      <3>1. CASE UNCHANGED <<cut, faults>>
        BY <3>1
      <3>2. CASE n \in DOMAIN files /\ Fault /\ ReadsShort(n)
        <4>1. faults' \in 0 .. MaxFaults
          BY <3>2 DEF Fault
        <4>2. files[n] \in Msgs \union {Torn}
          BY <3>2
        <4>3. cut' = cut \union ({files[n]} \ {Torn})
          BY <3>2 DEF ReadsShort
        <4>4. QED
          BY <4>1, <4>2, <4>3
      <3>3. QED
        BY <1>6, <3>1, <3>2 DEF DrainRead
    <2>5. QED
      BY <1>6, <2>1, <2>2, <2>3, <2>4 DEF DrainRead
  <1>7. CASE DrainDeliver
    <2>1. buf \in Content
      BY <1>7 DEF DrainDeliver
    <2>2. CASE Delivered(buf) /\ bg' = "remove" /\ UNCHANGED todo
      BY <1>7, <2>1, <2>2 DEF DrainDeliver, Delivered
    <2>3. CASE NotDelivered(buf) /\ bg' = "idle" /\ todo' = {}
      <3>1. Cardinality({}) = 0
        BY FS_EmptySet
      <3>2. delivered' \subseteq Content /\ faults' \in 0 .. MaxFaults
        BY <2>1, <2>3 DEF NotDelivered, Fault
      <3>3. QED
        BY <1>7, <2>3, <3>1, <3>2 DEF DrainDeliver
    <2>4. QED
      BY <1>7, <2>2, <2>3 DEF DrainDeliver
  <1>8. CASE DrainRemove
    BY <1>8 DEF DrainRemove, Without
  <1>9. CASE DrainEnd
    BY <1>9 DEF DrainEnd
  <1>10. CASE Reinit
    BY <1>10 DEF Reinit
  <1>11. CASE Reboot
    BY <1>11, FS_EmptySet DEF Reboot
  <1>12. CASE UNCHANGED vars
    BY <1>12 DEF vars
  <1>13. QED
    BY <1>1, <1>2, <1>3, <1>4, <1>5, <1>6, <1>7, <1>8, <1>9, <1>10, <1>11, <1>12 DEF Next
-------------------------------------------------------------------------------
(* What was queued survives until the counter is cleared.                  *)

\* Nothing is queued, and nothing pending, at the start.
LEMMA InitSafe == Init => SafeInv
  BY DEF Init, SafeInv, NumbersInv, DrainInv, QueuedSurvives

\* No step takes a number twice, as long as the counter is never cleared.
LEMMA NextNumbers ==
  ASSUME ConstantsAssumption, TypeOK, NumbersInv, [Next]_vars, NeverReset'
  PROVE  NumbersInv'
  <1> USE DEF NumbersInv, TypeOK, teleVars, bgVars, told, bounds
  <1>1. CASE Publish
    BY <1>1 DEF Publish
  <1>2. CASE Count
    <2>1. seq \in Nat /\ seq' = seq + 1 /\ tele' = "open"
      BY <1>2 DEF Count, ConstantsAssumption
    <2>2. ASSUME NEW n \in DOMAIN files \union todo
          PROVE  n \in Nat /\ n < seq'
      <3>1. n \in 0 .. MaxMsgs /\ n <= seq
        OBVIOUS
      <3>2. QED
        BY <2>1, <3>1 DEF ConstantsAssumption
    <2>3. cur < seq'
      BY <2>1 DEF ConstantsAssumption
    <2>4. QED
      BY <1>2, <2>1, <2>2, <2>3 DEF Count
  <1>3. CASE Open
    BY <1>3 DEF Open, Stored
  <1>4. CASE Write
    BY <1>4 DEF Write, Stored
  <1>5. CASE DrainBegin
    BY <1>5 DEF DrainBegin, Scans, StorageFree
  <1>6. ASSUME NEW n \in todo, DrainRead(n)
        PROVE  NumbersInv'
    BY <1>6 DEF DrainRead, ReadsShort, Fault
  <1>7. CASE DrainDeliver
    BY <1>7 DEF DrainDeliver
  <1>8. CASE DrainRemove
    BY <1>8 DEF DrainRemove, Without, StorageFree
  <1>9. CASE DrainEnd
    BY <1>9 DEF DrainEnd
  <1>10. CASE Reinit
    BY <1>10 DEF Reinit, NeverReset
  <1>11. CASE Reboot
    BY <1>11 DEF Reboot, NeverReset
  <1>12. CASE UNCHANGED vars
    BY <1>12 DEF vars
  <1>13. QED
    BY <1>1, <1>2, <1>3, <1>4, <1>5, <1>6, <1>7, <1>8, <1>9, <1>10, <1>11, <1>12 DEF Next

\* A save never touches the file the drain is at.
LEMMA NextDrain ==
  ASSUME ConstantsAssumption, TypeOK, NumbersInv, DrainInv, [Next]_vars, NeverReset'
  PROVE  DrainInv'
  <1> USE DEF DrainInv, TypeOK, teleVars, bgVars, told, bounds
  <1>1. CASE Publish
    BY <1>1 DEF Publish, Delivered, NotDelivered
  <1>2. CASE Count
    BY <1>2 DEF Count
  <1>3. CASE Open
    BY <1>3 DEF Open, Stored, NumbersInv
  <1>4. CASE Write
    BY <1>4 DEF Write, Stored, NumbersInv
  <1>5. CASE DrainBegin
    BY <1>5 DEF DrainBegin
  <1>6. ASSUME NEW n \in todo, DrainRead(n)
        PROVE  DrainInv'
    BY <1>6 DEF DrainRead, ReadsShort, Fault
  <1>7. CASE DrainDeliver
    BY <1>7 DEF DrainDeliver, Delivered
  <1>8. CASE DrainRemove
    BY <1>8 DEF DrainRemove
  <1>9. CASE DrainEnd
    BY <1>9 DEF DrainEnd
  <1>10. CASE Reinit
    BY <1>10 DEF Reinit
  <1>11. CASE Reboot
    BY <1>11 DEF Reboot
  <1>12. CASE UNCHANGED vars
    BY <1>12 DEF vars
  <1>13. QED
    BY <1>1, <1>2, <1>3, <1>4, <1>5, <1>6, <1>7, <1>8, <1>9, <1>10, <1>11, <1>12 DEF Next

\* What the cloud received is not taken back, nor what the flash cut short forgotten.
LEMMA DeliveredGrows ==
  ASSUME [Next]_vars
  PROVE  delivered \subseteq delivered' /\ cut \subseteq cut'
  BY DEF told, ReadsShort, Next, vars, Publish, Count, Open, Write, DrainBegin, DrainRead, DrainDeliver,
         DrainRemove, DrainEnd, Reinit, Reboot, Delivered, NotDelivered

\* A queued message leaves its file only when it was delivered.
LEMMA NextQueued ==
  ASSUME ConstantsAssumption, TypeOK, NumbersInv, DrainInv, QueuedSurvives, [Next]_vars
  PROVE  QueuedSurvives'
  <1> SUFFICES ASSUME NEW m \in queued'
               PROVE  m \in delivered' \union cut' \/ \E n \in DOMAIN files' : files'[n] = m
    BY DEF QueuedSurvives
  <1>1. CASE m \in delivered \union cut
    BY <1>1, DeliveredGrows
  <1>2. CASE m \in queued /\ m \notin delivered \union cut
    <2>1. PICK n \in DOMAIN files : files[n] = m
      BY <1>2 DEF QueuedSurvives
    <2>2. m # Torn
      BY <1>2 DEF TypeOK, Msgs, ConstantsAssumption
    <2>3. CASE Open
      BY <2>1, <2>3 DEF Open, Stored, NumbersInv
    <2>4. CASE Write
      BY <2>1, <2>2, <2>4 DEF Write, Stored, NumbersInv
    <2>5. CASE DrainRemove
      <3>1. n # cur
        BY <1>2, <2>1, <2>2, <2>5 DEF DrainRemove, DrainInv
      <3>2. QED
        BY <2>1, <2>5, <3>1 DEF DrainRemove, Without
    <2>6. CASE UNCHANGED files
      BY <2>1, <2>6
    <2>7. QED
      BY <2>3, <2>4, <2>5, <2>6
      DEF Next, vars, Publish, Count, DrainBegin, DrainRead, DrainDeliver, DrainEnd,
          Reinit, Reboot
  <1>3. CASE m \notin queued
    <2>1. Write
      BY <1>3 DEF Next, vars, told, Publish, Count, Open, DrainBegin, DrainRead,
                  DrainDeliver, DrainRemove, DrainEnd, Reinit, Reboot
    <2>2. m = InHand /\ (Stored(name, InHand) \/ InHand \in cut')
      BY <1>3, <2>1 DEF Write, told
    <2>3. CASE Stored(name, InHand)
      BY <2>2, <2>3 DEF Stored
    <2>4. QED
      BY <2>2, <2>3
  <1>4. QED
    BY <1>1, <1>2, <1>3

\* The three together are kept by every step.
LEMMA NextSafe ==
  ConstantsAssumption /\ TypeOK /\ SafeInv /\ [Next]_vars => SafeInv'
  <1> SUFFICES ASSUME ConstantsAssumption, TypeOK, SafeInv, [Next]_vars, NeverReset'
               PROVE  (NumbersInv /\ DrainInv /\ QueuedSurvives)'
    BY DEF SafeInv
  <1>1. NeverReset
    BY DEF NeverReset, TypeOK, ConstantsAssumption, Next, vars, Publish, Count, Open, Write,
           DrainBegin, DrainRead, DrainDeliver, DrainRemove, DrainEnd, Reinit, Reboot, bounds
  <1>2. NumbersInv /\ DrainInv /\ QueuedSurvives
    BY <1>1 DEF SafeInv
  <1>3. QED
    BY <1>2, NextNumbers, NextDrain, NextQueued

\* IInv is an inductive invariant of the two tasks.
LEMMA Inductive ==
  /\ Init => IInv
  /\ IInv /\ [Next]_vars => IInv'
  BY ConstantsAssumption, InitTypes, NextTypes, InitSafe, NextSafe DEF IInv

\* A message the device reported as queued is in a file until it was delivered, as long
\* as neither a reset nor azure_iot_init clears the counter of the files, however the
\* drain and the saves overlap and whatever fails.
THEOREM QueuedSurvivesHolds == Spec => []QueuedSurvivesUntilReset
  <1>1. IInv => QueuedSurvivesUntilReset
    BY DEF IInv, SafeInv, NeverReset, QueuedSurvivesUntilReset
  <1>2. QED
    BY <1>1, Inductive, PTL DEF Spec
-------------------------------------------------------------------------------
(* Updates are only made for a newer name.                                 *)

\* A set of fields that is not empty has a first one.
LEMMA FirstField ==
  ASSUME NEW D \in SUBSET (1 .. 4), D # {}
  PROVE  Update!Min(D) \in D /\ \A j \in D : Update!Min(D) <= j
  <1>1. \E i \in D : \A j \in D : i <= j
    <2>1. CASE 1 \in D
      BY <2>1
    <2>2. CASE 1 \notin D /\ 2 \in D
      BY <2>2
    <2>3. CASE 1 \notin D /\ 2 \notin D /\ 3 \in D
      BY <2>3
    <2>4. CASE 1 \notin D /\ 2 \notin D /\ 3 \notin D
      <3>1. \A j \in D : j = 4
        BY <2>4
      <3>2. 4 \in D
        BY <3>1
      <3>3. \A j \in D : 4 <= j
        BY <3>1
      <3>4. QED
        BY <3>2, <3>3
    <2>5. QED
      BY <2>1, <2>2, <2>3, <2>4
  <1>2. QED
    BY <1>1 DEF Update!Min

\* ota_cmp_version says newer exactly when the first field that differs is greater.
LEMMA CompareIsOrder ==
  ASSUME NEW a, NEW b, \A i \in 1 .. 4 : a[i] \in Int /\ b[i] \in Int, Update!Compare(a, b) > 0
  PROVE  \E i \in 1 .. 4 : a[i] > b[i] /\ \A j \in 1 .. i - 1 : a[j] = b[j]
  <1> DEFINE D == {i \in 1 .. 4 : a[i] # b[i]}
  <1>1. D # {}
    BY DEF Update!Compare
  <1>2. Update!Min(D) \in D /\ \A j \in D : Update!Min(D) <= j
    BY <1>1, FirstField
  <1>3. a[Update!Min(D)] > b[Update!Min(D)]
    BY <1>1 DEF Update!Compare
  <1>4. \A j \in 1 .. Update!Min(D) - 1 : a[j] = b[j]
    BY <1>2
  <1>5. QED
    BY <1>2, <1>3, <1>4

\* A version every field of which fits an int is read as it is written.
LEMMA ParsesAsWritten ==
  ASSUME NEW v \in Seq(Nat), Fits(v), NEW p \in Update!Parses(v)
  PROVE  \A i \in 1 .. 4 : p[i] = At(v, i) /\ At(v, i) \in Nat
  <1>1. ASSUME NEW i \in 1 .. 4
        PROVE  Update!Field(v, i) = {At(v, i)} /\ At(v, i) \in Nat
    BY DEF Update!Field, At, Fits
  <1>2. PICK a \in Update!Field(v, 1), b \in Update!Field(v, 2),
             c \in Update!Field(v, 3), d \in Update!Field(v, 4) : p = <<a, b, c, d>>
    BY DEF Update!Parses
  <1>3. a = At(v, 1) /\ b = At(v, 2) /\ c = At(v, 3) /\ d = At(v, 4)
    BY <1>1, <1>2
  <1>4. QED
    BY <1>1, <1>2, <1>3

\* An update that is accepted names a newer version, when both sides have one.
LEMMA AcceptedIsNewer ==
  ASSUME NEW v \in Seq(Nat), firmware \in Seq(Nat), Fits(v), Fits(firmware), Update!Accepts(v)
  PROVE  Newer(v, firmware)
  <1>1. PICK t \in Update!Parses(v), c \in Update!Parses(firmware) : Update!Compare(t, c) > 0
    BY DEF Update!Accepts, Fits
  <1>2. \A i \in 1 .. 4 : t[i] = At(v, i) /\ At(v, i) \in Nat
    BY ParsesAsWritten
  <1>3. \A i \in 1 .. 4 : c[i] = At(firmware, i) /\ At(firmware, i) \in Nat
    BY ParsesAsWritten
  <1>4. \A i \in 1 .. 4 : t[i] \in Int /\ c[i] \in Int
    <2>1. ASSUME NEW i \in 1 .. 4
          PROVE  t[i] \in Int /\ c[i] \in Int
      <3>1. t[i] = At(v, i) /\ At(v, i) \in Nat
        BY <1>2
      <3>2. c[i] = At(firmware, i) /\ At(firmware, i) \in Nat
        BY <1>3
      <3>3. QED
        BY <3>1, <3>2
    <2>2. QED
      BY <2>1
  <1>5. PICK i \in 1 .. 4 : t[i] > c[i] /\ \A j \in 1 .. i - 1 : t[j] = c[j]
    BY <1>1, <1>4, CompareIsOrder
  <1>6. At(v, i) > At(firmware, i)
    BY <1>2, <1>3, <1>5
  <1>7. ASSUME NEW j \in 1 .. i - 1
        PROVE  At(v, j) = At(firmware, j)
    <2>1. j \in 1 .. 4 /\ t[j] = c[j]
      BY <1>5
    <2>2. QED
      BY <1>2, <1>3, <2>1
  <1>8. i \in 1 .. Len(v)
    <2>1. At(v, i) # 0
      BY <1>2, <1>3, <1>6
    <2>2. ~(i > Len(v))
      BY <2>1 DEF At
    <2>3. QED
      BY <2>2
  <1>9. QED
    BY <1>6, <1>7, <1>8 DEF Newer

\* What is under way is newer than what runs: nothing else changes what runs.
TargetInv ==
    Update!Running /\ Fits(firmware) /\ Fits(target) => Newer(target, firmware)

DeviceInv == IInv /\ Update!TypeOK /\ TargetInv

\* Every step of the device is one of the two tasks, or leaves them as they are.
LEMMA DeviceStepIsStep == [DeviceNext]_deviceVars => [Next]_vars
  BY DEF DeviceNext, deviceVars, Next, Tasks, OtaMethod, UpdateFails, Updated, Restarted

\* Updates keep their types, and what is under way newer than what runs.
LEMMA NextTarget ==
  ASSUME Update!ConstantsOK, Update!TypeOK, TargetInv, [DeviceNext]_deviceVars
  PROVE  Update!TypeOK' /\ TargetInv'
  <1> USE DEF Update!ConstantsOK, Update!TypeOK
  <1>1. ASSUME NEW v \in Versions, OtaMethod(v)
        PROVE  Update!TypeOK' /\ TargetInv'
    <2>1. target' = v /\ firmware' = firmware /\ Update!Accepts(v)
      BY <1>1 DEF OtaMethod, Update!Begin
    <2>2. Fits(v) /\ Fits(firmware) => Newer(v, firmware)
      BY <2>1, AcceptedIsNewer
    <2>3. QED
      BY <2>1, <2>2 DEF TargetInv
  <1>2. CASE UpdateFails
    BY <1>2 DEF UpdateFails, Update!Fails, TargetInv, Update!Running
  <1>3. CASE Updated
    BY <1>3 DEF Updated, Update!Installs, TargetInv, Update!Running
  <1>4. CASE Restarted
    BY <1>4 DEF Restarted, Update!Restart, TargetInv, Update!Running
  <1>5. CASE UNCHANGED updateVars
    BY <1>5 DEF updateVars, TargetInv, Update!Running
  <1>6. QED
    BY <1>1, <1>2, <1>3, <1>4, <1>5 DEF DeviceNext, deviceVars, updateVars

\* A device that is updated keeps the guarantees of the two tasks, and the types.
LEMMA DeviceInductive ==
  /\ DeviceInit => DeviceInv
  /\ DeviceInv /\ [DeviceNext]_deviceVars => DeviceInv'
  <1>1. DeviceInit => Update!TypeOK /\ TargetInv
    BY UpdateAssumption
    DEF DeviceInit, Update!Init, Update!TypeOK, Update!ConstantsOK, TargetInv, Update!Running
  <1>2. QED
    BY <1>1, Inductive, DeviceStepIsStep, NextTarget, UpdateAssumption DEF DeviceInit, DeviceInv

\* Every reachable state of the device is well typed: the counter of the files never
\* passes the number of messages and a drain never looks at more files than it has
\* room for.
THEOREM DeviceTypeCorrect == DeviceSpec => []DeviceTypeOK
  <1>1. DeviceInv => DeviceTypeOK
    BY DEF DeviceInv, IInv, DeviceTypeOK
  <1>2. QED
    BY <1>1, DeviceInductive, PTL DEF DeviceSpec

\* The same for a device that is updated: the update task restarts it wherever the
\* telemetry and the drain are.
THEOREM DeviceQueuedSurvives == DeviceSpec => []QueuedSurvivesUntilReset
  <1>1. DeviceInv => QueuedSurvivesUntilReset
    BY DEF DeviceInv, IInv, SafeInv, NeverReset, QueuedSurvivesUntilReset
  <1>2. QED
    BY <1>1, DeviceInductive, PTL DEF DeviceSpec

\* OTA_ERR_NOT_NEWER: the firmware is replaced only for a request that named a version
\* newer than the one that runs when the image is installed, for every set of versions
\* whose fields an int holds and whatever the image holds.
THEOREM OnlyNewerRequestedHolds == DeviceSpec => OnlyNewerRequested
  <1>1. DeviceInv /\ [DeviceNext]_deviceVars =>
          [firmware' # firmware /\ Fits(firmware) /\ Fits(target)
             => Newer(target, firmware)]_deviceVars
    <2> SUFFICES ASSUME DeviceInv, DeviceNext, firmware' # firmware,
                        Fits(firmware), Fits(target)
                 PROVE  Newer(target, firmware)
      OBVIOUS
    <2>1. Update!Installs
      BY DEF DeviceNext, updateVars, OtaMethod, UpdateFails, Updated, Restarted,
             Update!Begin, Update!Fails, Update!Restart
    <2>2. Update!Running
      BY <2>1 DEF Update!Installs
    <2>3. QED
      BY <2>2 DEF DeviceInv, TargetInv
  <1>2. QED
    BY <1>1, DeviceInductive, PTL DEF DeviceSpec, OnlyNewerRequested
===============================================================================
