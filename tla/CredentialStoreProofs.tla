------------------------- MODULE CredentialStoreProofs -------------------------
(***************************************************************************)
(* Theorems about CredentialStore, for every set of credentials, one or    *)
(* two tasks that save, every kind of board, and every bound on saves,     *)
(* faults and resets: the types, and that a boot comes up with one whole   *)
(* set of credentials, no older than it may be.  A step of storage_write   *)
(* (FileStep), a step outside of it (Quiet), the boot's own (Load) and the *)
(* reset are the four kinds of step that each part of the invariant is     *)
(* proved to survive.                                                      *)
(***************************************************************************)
EXTENDS CredentialStore, TLAPS

(* The parts of TypeOK that the steps touch separately.                    *)

ProgressTypes ==
    /\ pc \in [Savers -> Steps]
    /\ name \in [Savers -> Files]
    /\ cred \in [Savers -> Creds]
    /\ result \in [Savers -> {"OK", "FAIL"}]

FlashTypes ==
    /\ nvs \in [Fields -> Creds \union {None}]
    /\ file \in [Files -> [Media -> Creds \union {None, Torn}]]

\* s_lock: one task at a time is inside storage_write; only the client task clears the
\* card, and not before the boot is over.
ExclusionInv ==
    /\ \A s, t \in Savers : s # t => ~(Writing(s) /\ Writing(t))
    /\ \A s \in Savers : pc[s] \in Clearing => s = "mqtt" /\ boot = "done"

BootTypes ==
    /\ board \in {"fresh", "legacy", "flash", "sd"}
    /\ boot \in BootSteps
    /\ loaded \in [Fields -> Creds \union {None}]

JudgingTypes ==
    /\ allowed \subseteq Creds /\ period \subseteq Creds
    /\ success \in BOOLEAN /\ early \in BOOLEAN /\ stale \in BOOLEAN

CountTypes == saves \in 0 .. MaxSaves /\ faults \in 0 .. MaxFaults /\ reboots \in 0 .. MaxReboots

\* The parts together are TypeOK.
LEMMA TypeParts ==
    TypeOK <=> /\ ProgressTypes /\ FlashTypes /\ ExclusionInv
               /\ BootTypes /\ JudgingTypes /\ CountTypes
  BY DEF TypeOK, ProgressTypes, FlashTypes, ExclusionInv, BootTypes, JudgingTypes, CountTypes

\* So they are after a step.
LEMMA TypePartsNext ==
  ASSUME ProgressTypes', FlashTypes', ExclusionInv', BootTypes', JudgingTypes', CountTypes'
  PROVE  TypeOK'
  BY DEF TypeOK, ProgressTypes, FlashTypes, ExclusionInv, BootTypes, JudgingTypes, CountTypes

\* A save goes from one key to the next and then to the first file.
LEMMA NextFieldType ==
  ASSUME NEW f \in Fields
  PROVE  /\ NextField(f) \in {"dev", "sak", "open"}
         /\ NextField(f) \in Steps /\ NextField(f) \notin Clearing
         /\ f # "sak" => NextField(f) \in Fields
  BY DEF Fields, NextField, Steps, Clearing

\* Every write of a file keeps the types of the flash.
LEMMA PutTypes ==
  ASSUME ProgressTypes, FlashTypes, NEW s \in Savers, NEW m \in Media,
         NEW x \in Creds \union {Torn}, Put(s, m, x)
  PROVE  file' \in [Files -> [Media -> Creds \union {None, Torn}]]
  <1>1. name[s] \in Files /\ file[name[s]] \in [Media -> Creds \union {None, Torn}]
    BY DEF ProgressTypes, FlashTypes
  <1>2. [file[name[s]] EXCEPT ![m] = x] \in [Media -> Creds \union {None, Torn}]
    BY <1>1
  <1>3. QED
    BY <1>1, <1>2 DEF Put, FlashTypes

\* The end of a save or of a file: the task is outside storage_write, and what it was
\* given is still its own.
LEMMA FileDoneTypes ==
  ASSUME ProgressTypes, JudgingTypes, NEW s \in Savers, NEW err \in {"OK", "FAIL"},
         FileDone(s, err)
  PROVE  /\ \E l \in {"idle", "open"} : pc' = [pc EXCEPT ![s] = l]
         /\ name' \in [Savers -> Files]
         /\ result' \in [Savers -> {"OK", "FAIL"}]
         /\ allowed' \subseteq Creds /\ period' \subseteq Creds
         /\ success' \in BOOLEAN /\ early' \in BOOLEAN
  <1>1. CASE name[s] = "mqtt" /\ err = "OK"
    BY <1>1 DEF FileDone, Goto, judging, ProgressTypes, JudgingTypes, Files
  <1>2. CASE ~(name[s] = "mqtt" /\ err = "OK")
    <2>1. PICK e \in {"OK", "FAIL"} : End(s, e)
      BY <1>2 DEF FileDone
    <2>2. /\ pc' = [pc EXCEPT ![s] = "idle"]
          /\ name' \in [Savers -> Files]
          /\ result' \in [Savers -> {"OK", "FAIL"}]
          /\ early' \in BOOLEAN
      BY <2>1 DEF End, ProgressTypes, JudgingTypes, Files
    <2>3. allowed' \subseteq Creds /\ period' \subseteq Creds
      BY <2>1 DEF End, JudgingTypes
    <2>4. success' \in BOOLEAN
      BY <2>1 DEF End, JudgingTypes
    <2> QED
      BY <2>2, <2>3, <2>4
  <1>3. QED
    BY <1>1, <1>2

\* The same for the end of a write to the flash, after which the card is written.
LEMMA FlashDoneTypes ==
  ASSUME ProgressTypes, JudgingTypes, NEW s \in Savers, NEW err \in {"OK", "FAIL"},
         FlashDone(s, err)
  PROVE  /\ \E l \in {"idle", "open", "openSd"} : pc' = [pc EXCEPT ![s] = l]
         /\ name' \in [Savers -> Files]
         /\ result' \in [Savers -> {"OK", "FAIL"}]
         /\ allowed' \subseteq Creds /\ period' \subseteq Creds
         /\ success' \in BOOLEAN /\ early' \in BOOLEAN
  <1>1. CASE board = "sd"
    BY <1>1 DEF FlashDone, Goto, judging, ProgressTypes, JudgingTypes
  <1>2. CASE board # "sd"
    <2>1. FileDone(s, err)
      BY <1>2 DEF FlashDone
    <2> QED
      BY <2>1, FileDoneTypes
  <1>3. QED
    BY <1>1, <1>2

\* A task that is outside storage_write, or enters it while no other is in, leaves the
\* exclusion as it was.
LEMMA MovesKeepExclusion ==
  ASSUME ExclusionInv, pc \in [Savers -> Steps], NEW s \in Savers, NEW l \in Steps \ Clearing,
         pc' = [pc EXCEPT ![s] = l], UNCHANGED boot,
         l \in {"write", "openSd", "writeSd"} => Writing(s) \/ StorageFree
  PROVE  pc' \in [Savers -> Steps] /\ ExclusionInv'
  BY DEF ExclusionInv, Writing, StorageFree

-------------------------------------------------------------------------------
(* Every step keeps the types.                                             *)

\* The device starts well typed, on every kind of board.
LEMMA InitTypes == Init => TypeOK
  <1> SUFFICES ASSUME Init PROVE TypeOK
    OBVIOUS
  <1> USE ConstantsAssumption
  <1>1. ProgressTypes
    BY DEF Init, ProgressTypes, Steps, Files
  <1>2. FlashTypes
    BY DEF Init, FlashTypes, Whole
  <1>3. ExclusionInv
    BY DEF Init, ExclusionInv, Writing, Clearing
  <1>4. BootTypes
    BY DEF Init, BootTypes, BootSteps, Places, FirstPlace, Blank
  <1>5. JudgingTypes
    BY DEF Init, JudgingTypes
  <1>6. CountTypes
    BY DEF Init, CountTypes
  <1> QED
    BY <1>1, <1>2, <1>3, <1>4, <1>5, <1>6, TypeParts

\* The write of one file, to the flash or to the card: what its four steps change.
LEMMA FileStepTypes ==
  ASSUME TypeOK, NEW s \in Savers, Open(s) \/ Write(s) \/ OpenSd(s) \/ WriteSd(s)
  PROVE  /\ file' \in [Files -> [Media -> Creds \union {None, Torn}]]
         /\ \E l \in {"idle", "open", "write", "openSd", "writeSd"} :
              /\ pc' = [pc EXCEPT ![s] = l]
              /\ l \in {"write", "openSd", "writeSd"} => Writing(s) \/ StorageFree
         /\ name' \in [Savers -> Files]
         /\ result' \in [Savers -> {"OK", "FAIL"}]
         /\ allowed' \subseteq Creds /\ period' \subseteq Creds
         /\ success' \in BOOLEAN /\ early' \in BOOLEAN /\ stale' \in BOOLEAN
         /\ faults' \in 0 .. MaxFaults
  <1> USE TypeParts
  <1>1. /\ result[s] \in {"OK", "FAIL"} /\ cred[s] \in Creds
        /\ "flash" \in Media /\ "sd" \in Media
    BY DEF ProgressTypes, Media
  <1>2. Fault => faults' \in 0 .. MaxFaults
    BY ConstantsAssumption DEF Fault, CountTypes
  <1>3. UNCHANGED faults => faults' \in 0 .. MaxFaults
    BY DEF CountTypes
  <1>4. UNCHANGED file => file' \in [Files -> [Media -> Creds \union {None, Torn}]]
    BY DEF FlashTypes
  <1>5. UNCHANGED judging => /\ allowed' \subseteq Creds /\ period' \subseteq Creds
                             /\ success' \in BOOLEAN /\ early' \in BOOLEAN
    BY DEF judging, JudgingTypes
  <1>6. UNCHANGED stale => stale' \in BOOLEAN
    BY DEF JudgingTypes
  <1>7. UNCHANGED <<name, result>> => /\ name' \in [Savers -> Files]
                                      /\ result' \in [Savers -> {"OK", "FAIL"}]
    BY DEF ProgressTypes
  <1>8. CASE Open(s)
    <2>1. CASE Put(s, "flash", Torn) /\ Goto(s, "write")
               /\ UNCHANGED <<name, result, judging, stale, faults>>
      BY <2>1, <1>8, <1>1, <1>3, <1>5, <1>6, <1>7, PutTypes DEF Open, Goto
    <2>2. CASE Fault /\ FileDone(s, "FAIL") /\ stale' = TRUE /\ UNCHANGED file
      BY <2>2, <1>2, <1>4, FileDoneTypes
    <2>3. CASE Fault /\ FlashDone(s, "FAIL") /\ UNCHANGED <<stale, file>>
      BY <2>3, <1>8, <1>2, <1>4, <1>6, FlashDoneTypes DEF Open
    <2> QED
      BY <1>8, <2>1, <2>2, <2>3 DEF Open
  <1>9. CASE Write(s)
    <2>1. Writing(s) /\ UNCHANGED stale
      BY <1>9 DEF Write, Writing, card
    <2>2. PICK err \in {"OK", "FAIL"} : FlashDone(s, err)
      BY <1>9 DEF Write
    <2>3. file' \in [Files -> [Media -> Creds \union {None, Torn}]]
      BY <1>9, <1>1, <1>4, PutTypes DEF Write
    <2>4. faults' \in 0 .. MaxFaults
      BY <1>9, <1>2, <1>3 DEF Write
    <2> QED
      BY <2>1, <2>2, <2>3, <2>4, <1>6, FlashDoneTypes
  <1>10. CASE OpenSd(s)
    <2>1. CASE Put(s, "sd", Torn) /\ Goto(s, "writeSd")
               /\ UNCHANGED <<name, result, judging, stale, faults>>
      BY <2>1, <1>10, <1>1, <1>3, <1>5, <1>6, <1>7, PutTypes DEF OpenSd, Goto, Writing
    <2>2. CASE Fault /\ FileDone(s, result[s]) /\ stale' = TRUE /\ UNCHANGED file
      BY <2>2, <1>1, <1>2, <1>4, FileDoneTypes
    <2> QED
      BY <1>10, <2>1, <2>2 DEF OpenSd
  <1>11. CASE WriteSd(s)
    <2>1. FileDone(s, result[s]) /\ UNCHANGED stale
      BY <1>11 DEF WriteSd, card
    <2>2. file' \in [Files -> [Media -> Creds \union {None, Torn}]]
      BY <1>11, <1>1, <1>4, PutTypes DEF WriteSd
    <2>3. faults' \in 0 .. MaxFaults
      BY <1>11, <1>2, <1>3 DEF WriteSd
    <2> QED
      BY <2>1, <2>2, <2>3, <1>1, <1>6, FileDoneTypes
  <1> QED
    BY <1>8, <1>9, <1>10, <1>11

\* Every step of every task, and a reset, keeps the types.
LEMMA NextTypes == TypeOK /\ [Next]_vars => TypeOK'
  <1> SUFFICES ASSUME TypeOK, [Next]_vars PROVE TypeOK'
    OBVIOUS
  <1> USE TypeParts
  <1>1. CASE UNCHANGED vars
    <2>1. UNCHANGED <<pc, name, cred, result, nvs, file, boot, loaded, board, allowed, period,
                      success, early, stale, saves, faults, reboots>>
      BY <1>1 DEF vars, flash, saving, booting, judging, card
    <2> QED
      BY <2>1 DEF TypeOK, Writing
  <1>2. CASE \E s \in Savers, c \in Creds : Begin(s, c)
    <2>1. PICK s \in Savers, c \in Creds : Begin(s, c)
      BY <1>2
    <2>2. ProgressTypes' /\ ExclusionInv'
      <3>1. pc' = [pc EXCEPT ![s] = "host"] /\ "host" \in Steps \ Clearing /\ UNCHANGED boot
        BY <2>1 DEF Begin, Goto, Steps, Clearing, booting
      <3>2. pc' \in [Savers -> Steps] /\ ExclusionInv'
        BY <3>1, MovesKeepExclusion DEF ProgressTypes
      <3> QED
        BY <2>1, <3>2 DEF Begin, ProgressTypes
    <2>3. FlashTypes' /\ BootTypes' /\ CountTypes'
      BY <2>1, ConstantsAssumption
      DEF Begin, FlashTypes, BootTypes, CountTypes, flash, booting, card
    <2>4. JudgingTypes'
      BY <2>1 DEF Begin, JudgingTypes, card
    <2> QED
      BY <2>2, <2>3, <2>4, TypePartsNext
  <1>3. CASE \E s \in Savers : SaveKey(s)
    <2>1. PICK s \in Savers : SaveKey(s)
      BY <1>3
    <2>2. ProgressTypes' /\ ExclusionInv'
      <3>1. pc' = [pc EXCEPT ![s] = NextField(pc[s])] /\ UNCHANGED boot
        BY <2>1 DEF SaveKey, Goto, booting
      <3>2. /\ NextField(pc[s]) \in Steps \ Clearing
            /\ NextField(pc[s]) \notin {"write", "openSd", "writeSd"}
        BY <2>1, NextFieldType DEF SaveKey
      <3>3. pc' \in [Savers -> Steps] /\ ExclusionInv'
        BY <3>1, <3>2, MovesKeepExclusion DEF ProgressTypes
      <3> QED
        BY <2>1, <3>3 DEF SaveKey, ProgressTypes
    <2>3. nvs' \in [Fields -> Creds \union {None}]
      BY <2>1 DEF SaveKey, FlashTypes, ProgressTypes
    <2>4. FlashTypes' /\ BootTypes' /\ JudgingTypes'
      BY <2>1, <2>3 DEF SaveKey, FlashTypes, BootTypes, JudgingTypes, booting, judging, card
    <2>5. CountTypes'
      BY <2>1, ConstantsAssumption DEF SaveKey, Fault, CountTypes
    <2> QED
      BY <2>2, <2>4, <2>5, TypePartsNext
  <1>4. CASE \E s \in Savers : Open(s) \/ Write(s) \/ OpenSd(s) \/ WriteSd(s)
    <2>1. PICK s \in Savers : Open(s) \/ Write(s) \/ OpenSd(s) \/ WriteSd(s)
      BY <1>4
    <2>2. UNCHANGED <<nvs, cred, boot, loaded, board, saves, reboots>>
      BY <2>1 DEF Open, Write, OpenSd, WriteSd, booting, card
    <2>3. PICK l \in {"idle", "open", "write", "openSd", "writeSd"} :
            /\ pc' = [pc EXCEPT ![s] = l]
            /\ l \in {"write", "openSd", "writeSd"} => Writing(s) \/ StorageFree
      BY <2>1, FileStepTypes
    <2>4. ProgressTypes' /\ ExclusionInv'
      <3>1. l \in Steps \ Clearing
        BY DEF Steps, Clearing
      <3>2. pc' \in [Savers -> Steps] /\ ExclusionInv'
        BY <2>2, <2>3, <3>1, MovesKeepExclusion DEF ProgressTypes
      <3> QED
        BY <2>1, <2>2, <3>2, FileStepTypes DEF ProgressTypes
    <2>5. FlashTypes' /\ BootTypes'
      BY <2>1, <2>2, FileStepTypes DEF FlashTypes, BootTypes
    <2>6. JudgingTypes' /\ CountTypes'
      BY <2>1, <2>2, FileStepTypes DEF JudgingTypes, CountTypes
    <2> QED
      BY <2>4, <2>5, <2>6, TypePartsNext
  <1>5. CASE ClearBegin
    <2>1. ProgressTypes'
      BY <1>5 DEF ClearBegin, Goto, ProgressTypes, Steps, Clearing
    <2>2. ExclusionInv'
      <3>1. \A t \in Savers : pc'[t] = IF t = "mqtt" THEN "clear1" ELSE pc[t]
        BY <1>5 DEF ClearBegin, Goto, ProgressTypes
      <3>2. UNCHANGED boot /\ boot = "done"
        BY <1>5 DEF ClearBegin, booting
      <3> QED
        BY <3>1, <3>2 DEF ExclusionInv, Writing
    <2>3. FlashTypes' /\ BootTypes' /\ JudgingTypes'
      BY <1>5 DEF ClearBegin, FlashTypes, BootTypes, JudgingTypes, flash, booting, judging, card
    <2>4. CountTypes'
      BY <1>5, ConstantsAssumption DEF ClearBegin, CountTypes
    <2> QED
      BY <2>1, <2>2, <2>3, <2>4, TypePartsNext
  <1>6. CASE Clear
    <2>1. PICK k \in {"mqtt", "azure"} :
            /\ pc["mqtt"] = "clear1" => /\ Goto("mqtt", "clear2")
                                       /\ name' = [name EXCEPT !["mqtt"] = k]
            /\ pc["mqtt"] = "clear2" => /\ Goto("mqtt", "idle") /\ name["mqtt"] # k
                                       /\ name' = [name EXCEPT !["mqtt"] = "mqtt"]
      BY <1>6 DEF Clear
    <2>2. /\ "mqtt" \in Savers /\ pc["mqtt"] \in {"clear1", "clear2"}
          /\ UNCHANGED <<nvs, cred, result, boot, loaded, allowed, period, success, early, board,
                         saves, reboots>>
      BY <1>6 DEF Clear, Clearing, booting, judging
    <2>3. \A t \in Savers :
            pc'[t] = IF t # "mqtt" THEN pc[t] ELSE IF pc[t] = "clear1" THEN "clear2" ELSE "idle"
      BY <2>1, <2>2 DEF Goto, ProgressTypes
    <2>4. pc' \in [Savers -> Steps] /\ name' \in [Savers -> Files]
      BY <2>1, <2>2 DEF Goto, ProgressTypes, Steps, Clearing, Files
    <2>5. ProgressTypes'
      BY <2>2, <2>4 DEF ProgressTypes
    <2>6. ExclusionInv'
      <3>1. boot = "done"
        BY <2>2 DEF ExclusionInv, Clearing
      <3> QED
        BY <3>1, <2>2, <2>3 DEF ExclusionInv, Writing
    <2>7. file' \in [Files -> [Media -> Creds \union {None, Torn}]]
      <3>1. CASE UNCHANGED file
        BY <3>1 DEF FlashTypes
      <3>2. ASSUME NEW gone,
                   file' = [f \in Files |-> IF f \in gone THEN [file[f] EXCEPT !.sd = None]
                                                          ELSE file[f]]
            PROVE  file' \in [Files -> [Media -> Creds \union {None, Torn}]]
        BY <3>2 DEF FlashTypes
      <3>3. \/ UNCHANGED file
            \/ \E gone \in SUBSET Files :
                 file' = [f \in Files |-> IF f \in gone THEN [file[f] EXCEPT !.sd = None]
                                                       ELSE file[f]]
        <4>1. PICK j \in {"mqtt", "azure"} :
                LET gone == IF pc["mqtt"] = "clear1" THEN {j} ELSE {j, "legacy"} IN
                  \/ file' = [f \in Files |-> IF f \in gone THEN [file[f] EXCEPT !.sd = None]
                                                         ELSE file[f]]
                  \/ UNCHANGED file
          BY <1>6, Zenon DEF Clear
        <4>2. (IF pc["mqtt"] = "clear1" THEN {j} ELSE {j, "legacy"}) \in SUBSET Files
          BY DEF Files
        <4> QED
          BY <4>1, <4>2, Zenon
      <3> QED
        BY <3>1, <3>2, <3>3
    <2>8. stale' \in BOOLEAN
      BY <1>6 DEF Clear, JudgingTypes
    <2>9. faults' \in 0 .. MaxFaults
      <3>1. Fault \/ UNCHANGED faults
        BY <1>6 DEF Clear
      <3> QED
        BY <3>1, ConstantsAssumption DEF Fault, CountTypes
    <2>10. FlashTypes' /\ BootTypes' /\ JudgingTypes' /\ CountTypes'
      BY <2>2, <2>7, <2>8, <2>9 DEF FlashTypes, BootTypes, JudgingTypes, CountTypes
    <2> QED
      BY <2>5, <2>6, <2>10, TypePartsNext
  <1>7. ASSUME /\ UNCHANGED <<saving, judging, card, saves, reboots>>
               /\ boot # "done" /\ boot' \in BootSteps
               /\ loaded' \in [Fields -> Creds \union {None}]
               /\ FlashTypes' /\ faults' \in 0 .. MaxFaults
        PROVE  TypeOK'
    <2>1. ProgressTypes' /\ JudgingTypes' /\ CountTypes' /\ BootTypes'
      BY <1>7 DEF ProgressTypes, JudgingTypes, CountTypes, BootTypes, saving, judging, card
    <2>2. ExclusionInv'
      BY <1>7 DEF ExclusionInv, Writing, saving
    <2> QED
      BY <1>7, <2>1, <2>2, TypePartsNext
  <1>8. ASSUME UNCHANGED <<flash, saving, judging, card, saves, faults, reboots>>,
               boot # "done", boot' \in BootSteps, loaded' \in [Fields -> Creds \union {None}]
        PROVE  TypeOK'
    <2>1. FlashTypes' /\ faults' \in 0 .. MaxFaults
      BY <1>8 DEF FlashTypes, CountTypes, flash
    <2> QED
      BY <1>7, <1>8, <2>1
  <1>9. CASE LoadFile
    <2>1. boot \in {"sd1", "sd2", "sd3", "flash1", "flash2", "flash3"}
      BY <1>9 DEF LoadFile, Places
    <2>2. boot' \in BootSteps
      BY <1>9, <2>1 DEF LoadFile, NextPlace, BootSteps, Places
    <2>3. loaded' \in [Fields -> Creds \union {None}]
      <3>1. loaded' = loaded \/ \E c \in Creds : loaded' = Whole(c)
        BY <1>9 DEF LoadFile
      <3> QED
        BY <3>1 DEF Whole, BootTypes
    <2> QED
      BY <1>9, <1>8, <2>1, <2>2, <2>3 DEF LoadFile
  <1>10. CASE Scan
    <2>1. boot' \in BootSteps /\ (loaded' = loaded \/ \E c \in Creds : loaded' = Whole(c))
      <3>1. CASE {file[k].sd : k \in Files} \intersect Creds = {}
        BY <3>1, <1>10 DEF Scan, BootSteps, Places
      <3>2. CASE {file[k].sd : k \in Files} \intersect Creds # {}
        BY <3>2, <1>10 DEF Scan, BootSteps
      <3> QED
        BY <3>1, <3>2
    <2>2. loaded' \in [Fields -> Creds \union {None}]
      BY <2>1 DEF Whole, BootTypes
    <2> QED
      BY <1>10, <1>8, <2>1, <2>2 DEF Scan
  <1>11. CASE LoadKey
    <2>1. boot # "done" /\ boot' \in BootSteps
      BY <1>11 DEF LoadKey, BootSteps
    <2>2. PICK f \in Fields : loaded' = [loaded EXCEPT ![f] = nvs[f]]
      BY <1>11 DEF LoadKey, Fields
    <2>3. loaded' \in [Fields -> Creds \union {None}]
      BY <2>2 DEF FlashTypes, BootTypes
    <2> QED
      BY <1>11, <1>8, <2>1, <2>3 DEF LoadKey
  <1>12. CASE CopyKey
    <2>1. boot \in Fields /\ boot # "done"
      BY <1>12 DEF CopyKey, Fields
    <2>2. boot' \in BootSteps
      BY <1>12, <2>1, NextFieldType DEF CopyKey, BootSteps, Fields
    <2>3. FlashTypes'
      BY <1>12, <2>1 DEF CopyKey, FlashTypes, BootTypes
    <2>4. faults' \in 0 .. MaxFaults
      BY <1>12, ConstantsAssumption DEF CopyKey, Fault, CountTypes
    <2>5. loaded' \in [Fields -> Creds \union {None}]
      BY <1>12 DEF CopyKey, BootTypes
    <2> QED
      BY <1>12, <1>7, <2>1, <2>2, <2>3, <2>4, <2>5 DEF CopyKey
  <1>13. CASE Reboot
    <2>1. ProgressTypes' /\ ExclusionInv'
      BY <1>13, ConstantsAssumption
      DEF Reboot, ProgressTypes, ExclusionInv, Writing, Clearing, Steps, Files
    <2>2. BootTypes'
      BY <1>13 DEF Reboot, BootTypes, BootSteps, Places, FirstPlace, Blank
    <2>3. FlashTypes'
      BY <1>13 DEF Reboot, FlashTypes, flash
    <2>4. JudgingTypes'
      BY <1>13 DEF Reboot, JudgingTypes
    <2>5. faults' \in 0 .. MaxFaults
      <3>1. Fault \/ UNCHANGED faults
        BY <1>13 DEF Reboot
      <3> QED
        BY <3>1, ConstantsAssumption DEF Fault, CountTypes
    <2>6. saves' \in 0 .. MaxSaves /\ reboots' \in 0 .. MaxReboots
      BY <1>13, ConstantsAssumption DEF Reboot, CountTypes
    <2>7. CountTypes'
      BY <2>5, <2>6 DEF CountTypes
    <2> QED
      BY <2>1, <2>2, <2>3, <2>4, <2>7, TypePartsNext
  <1> QED
    BY <1>1, <1>2, <1>3, <1>4, <1>5, <1>6, <1>9, <1>10, <1>11, <1>12, <1>13 DEF Next
-------------------------------------------------------------------------------
(* The inductive invariant.                                                *)

Idle == \A s \in Savers : pc[s] = "idle"
InFile(s) == pc[s] \in {"open", "write", "openSd", "writeSd"}
Active(s) == pc[s] \in Fields \/ InFile(s)

\* The two files a save writes.
Written == {"mqtt", "azure"}

\* Where a save is, and what follows: a task in storage_write has emptied its file (and
\* clear_sd may have removed the one on the card since), and only a failed write of the
\* flash leaves a result other than ESP_OK behind.
SaverInv(s) ==
    /\ Active(s) => cred[s] \in period
    /\ pc[s] = "idle" \/ pc[s] \in Fields => name[s] = "mqtt"
    /\ name[s] \in Written
    /\ result[s] = "FAIL" => faults > 0 /\ pc[s] \in {"openSd", "writeSd"}
    /\ pc[s] \in {"openSd", "writeSd"} \union Clearing => board = "sd"
    /\ pc[s] = "write" => file[name[s]]["flash"] = Torn
    /\ pc[s] = "writeSd" => file[name[s]]["sd"] \in {Torn, None}

ProgressInv == period \subseteq allowed /\ \A s \in Savers : SaverInv(s)

\* Saver s has put its credentials into file k on medium m, or is past doing so.
Through(s, k, m) ==
    /\ InFile(s)
    /\ \/ k = "mqtt" /\ name[s] = "azure"
       \/ /\ m = "flash" /\ k = name[s]
          /\ pc[s] \in {"openSd", "writeSd"} /\ result[s] = "OK"
Renewed(k, m) == success \/ \E s \in Savers : Through(s, k, m)

\* A file in flash may be missing as long as the factory's credentials may be loaded; one
\* on the card may have been removed at any time.
MayMiss(m) == m = "sd" \/ (BootCred \in allowed /\ board \in {"fresh", "legacy"})
Gap(m) == IF m = "sd" THEN {Torn, None} ELSE {Torn}

\* Content x of file k is no older than it may be: once one of the overlapping saves has
\* been through with the file, it is from one of them.
UpToDate(k, m, x) ==
    /\ x \in allowed \union {None, Torn}
    /\ x = None => MayMiss(m)
    /\ Renewed(k, m) => x \in period \union Gap(m)
KeepsUp(k, m) == UpToDate(k, m, file[k][m])

\* A file is torn and nobody is at work on it.
WriteStep(m) == IF m = "flash" THEN "write" ELSE "writeSd"
BeingWritten(k, m) == \E s \in Savers : name[s] = k /\ pc[s] = WriteStep(m)
Broken(k, m) == file[k][m] = Torn /\ ~BeingWritten(k, m)

Sound(k, m) == KeepsUp(k, m) /\ ~Broken(k, m)

\* In flash one failure spoils one file of two: /mqtt_credentials.json by tearing it, the
\* other also by leaving it behind.
FlashInv ==
    /\ KeepsUp("mqtt", "flash")
    /\ faults = 0 => Sound("mqtt", "flash") /\ Sound("azure", "flash")
    /\ faults <= 1 => Sound("azure", "flash") \/ ~Broken("mqtt", "flash")
    /\ faults <= 1 /\ (\E s \in Savers : name[s] = "azure" /\ result[s] = "FAIL")
         => ~Broken("mqtt", "flash")
    /\ file["mqtt"]["flash"] = None => file["azure"]["flash"] = None
    /\ board \in {"flash", "sd"} => file["azure"]["flash"] # None
    /\ file["legacy"]["flash"] = IF board \in {"legacy", "sd"} THEN BootCred ELSE None

\* On the card, as long as no file on it was left as it was; and where the card has lost
\* one of the two it has lost the older third as well.
Orderly == faults = 0 \/ (faults <= 1 /\ ~stale)
CardInv ==
    IF board = "sd" THEN
      Orderly =>
        /\ \A k \in Written : KeepsUp(k, "sd")
        /\ faults = 0 => \A k \in Written : ~Broken(k, "sd")
        /\ ~Broken("mqtt", "sd") \/ ~Broken("azure", "sd")
        /\ file["legacy"]["sd"] # None /\ (\A s \in Savers : pc[s] # "clear2")
             => \A k \in Written : file[k]["sd"] # None
    ELSE \A k \in Files : file[k]["sd"] = None

\* What the boot has passed it could not use; as long as no save began meanwhile, it still
\* cannot.  On a board with files in flash it only passes what a failure tore.
InNvs == boot \in {"nvsHost", "nvsDev", "nvsSak"}
Unusable(p) == Found(p) \notin Creds
BootInv ==
    /\ ~early /\ boot # "done" => Idle
    /\ boot \in {"sd1", "sd2", "sd3", "scan"} => board = "sd"
    /\ InNvs => board \in {"fresh", "flash"}
    /\ ~early =>
         /\ boot \in {"sd2", "sd3", "scan"} => Unusable("sd1")
         /\ boot \in {"sd3", "scan"} => Unusable("sd2")
         /\ boot = "scan" => Unusable("sd3")
         /\ boot \in {"flash2", "flash3"} \/ InNvs => Unusable("flash1")
         /\ boot = "flash3" \/ InNvs => Unusable("flash2")
    /\ board = "flash" =>
         /\ boot = "flash2" => faults > 0 /\ (faults <= 1 => Sound("azure", "flash"))
         /\ boot = "flash3" \/ InNvs => faults > 1

\* A device provisioned in NVS only still has its keys when it has no file.
KeysInv ==
    /\ boot \in DOMAIN Places \union {"scan", "nvsHost"} => loaded = Blank
    /\ boot = "nvsDev" => loaded["dev"] = None /\ loaded["sak"] = None
    /\ boot = "nvsSak" => loaded["sak"] = None
    /\ board = "fresh" =>
         /\ boot \in Fields => file["mqtt"]["flash"] # None
         /\ faults = 0 /\ file["mqtt"]["flash"] = None /\ Idle => nvs = Whole(BootCred)
         /\ faults = 0 /\ ~early =>
              /\ boot \in {"nvsDev", "nvsSak"} => loaded["host"] = BootCred
              /\ boot = "nvsSak" => loaded["dev"] = BootCred

IInv == TypeOK /\ ProgressInv /\ FlashInv /\ CardInv /\ BootInv /\ KeysInv

-------------------------------------------------------------------------------
(* What one task does to itself.                                           *)

\* The other tasks stay where they are.
Others(s) ==
    \A t \in Savers : t # s => /\ pc'[t] = pc[t] /\ name'[t] = name[t]
                               /\ result'[t] = result[t] /\ cred'[t] = cred[t]

\* The three ways in which a step of storage_write ends: s goes on inside, or to its second
\* file, or returns, which it does with ESP_OK exactly when it is at the second file.
Moves(s, l, r) ==
    /\ pc' = [pc EXCEPT ![s] = l] /\ result' = [result EXCEPT ![s] = r]
    /\ UNCHANGED <<name, judging>>
NextFile(s) ==
    /\ name[s] = "mqtt"
    /\ pc' = [pc EXCEPT ![s] = "open"] /\ name' = [name EXCEPT ![s] = "azure"]
    /\ UNCHANGED <<result, judging>>
Returns(s, e) == End(s, e) /\ (e = "OK" <=> name[s] = "azure")

\* A file is done with.
LEMMA FileDoneIs ==
  ASSUME ProgressInv, NEW s \in Savers, NEW err \in {"OK", "FAIL"}, FileDone(s, err)
  PROVE  \/ NextFile(s) /\ err = "OK"
         \/ \E e \in {"OK", "FAIL"} : Returns(s, e)
  <1>1. name[s] \in {"mqtt", "azure"}
    BY DEF ProgressInv, SaverInv, Written
  <1>2. CASE name[s] = "mqtt" /\ err = "OK"
    BY <1>2 DEF FileDone, NextFile, Goto
  <1>3. CASE name[s] = "mqtt" /\ err = "FAIL"
    BY <1>3 DEF FileDone, Returns
  <1>4. CASE name[s] = "azure"
    BY <1>4 DEF FileDone, Returns
  <1> QED
    BY <1>1, <1>2, <1>3, <1>4

\* A write to the flash is over: the card follows if there is one.
LEMMA FlashDoneIs ==
  ASSUME ProgressInv, NEW s \in Savers, NEW err \in {"OK", "FAIL"}, FlashDone(s, err)
  PROVE  \/ board = "sd" /\ Moves(s, "openSd", err)
         \/ board # "sd" /\ err = "OK" /\ NextFile(s)
         \/ board # "sd" /\ \E e \in {"OK", "FAIL"} : Returns(s, e)
  <1>1. CASE board = "sd"
    BY <1>1 DEF FlashDone, Moves, Goto
  <1>2. CASE board # "sd"
    BY <1>2, FileDoneIs DEF FlashDone
  <1> QED
    BY <1>1, <1>2

\* The file a step of storage_write changes.
LEMMA PutEffect ==
  ASSUME TypeOK, NEW s \in Savers, NEW m0 \in Media, NEW x, Put(s, m0, x)
  PROVE  \A k \in Files, m \in Media :
           file'[k][m] = IF k = name[s] /\ m = m0 THEN x ELSE file[k][m]
  <1>1. file' = [file EXCEPT ![name[s]] = [file[name[s]] EXCEPT ![m0] = x]]
    BY DEF Put
  <1>2. name[s] \in Files /\ file \in [Files -> [Media -> Creds \union {None, Torn}]]
    BY DEF TypeOK
  <1>3. ASSUME NEW k \in Files, NEW m \in Media
        PROVE  file'[k][m] = IF k = name[s] /\ m = m0 THEN x ELSE file[k][m]
    <2>1. file[k] \in [Media -> Creds \union {None, Torn}]
      BY <1>2
    <2>2. CASE k = name[s]
      <3>1. file'[k] = [file[k] EXCEPT ![m0] = x]
        BY <1>1, <1>2, <2>2
      <3> QED
        BY <2>1, <2>2, <3>1
    <2>3. CASE k # name[s]
      <3>1. file'[k] = file[k]
        BY <1>1, <1>2, <2>3
      <3> QED
        BY <2>3, <3>1
    <2> QED
      BY <2>2, <2>3
  <1> QED
    BY <1>3

\* What becomes of the task that moves on inside storage_write.
LEMMA MovesFrame ==
  ASSUME TypeOK, NEW s \in Savers, NEW l, NEW r, Moves(s, l, r), UNCHANGED cred
  PROVE  /\ Others(s) /\ pc'[s] = l /\ name'[s] = name[s] /\ result'[s] = r
         /\ UNCHANGED <<allowed, period, success, early>>
  BY DEF TypeOK, Moves, Others, judging

\* What becomes of the task that goes to its second file.
LEMMA NextFileFrame ==
  ASSUME TypeOK, NEW s \in Savers, NextFile(s), UNCHANGED cred
  PROVE  /\ Others(s) /\ pc'[s] = "open" /\ name'[s] = "azure" /\ result'[s] = result[s]
         /\ UNCHANGED <<allowed, period, success, early>>
  BY DEF TypeOK, NextFile, Others, judging

\* What becomes of the task that returns.
LEMMA ReturnsFrame ==
  ASSUME TypeOK, NEW s \in Savers, NEW e, Returns(s, e), UNCHANGED cred
  PROVE  /\ Others(s) /\ pc'[s] = "idle" /\ name'[s] = "mqtt" /\ result'[s] = "OK"
         /\ UNCHANGED early
  BY DEF TypeOK, Returns, End, Others

\* The last of the overlapping saves decides what a boot may come up with from now on; one
\* that is not the last changes nothing but success.
LEMMA ReturnsJudging ==
  ASSUME TypeOK, NEW s \in Savers, NEW e, Active(s), Returns(s, e)
  PROVE  \/ /\ \A t \in Savers : t # s => ~Active(t)
            /\ success' = FALSE /\ period' = {}
            /\ allowed' = IF success \/ e = "OK" THEN period ELSE allowed
         \/ /\ success' = (success \/ e = "OK")
            /\ allowed' = allowed /\ period' = period
  <1>1. \A t \in Savers : t \in Saving <=> Active(t)
    BY DEF TypeOK, Saving, Active, InFile, Fields, Steps, Clearing
  <1>2. CASE Saving = {s}
    BY <1>1, <1>2 DEF Returns, End
  <1>3. CASE Saving # {s}
    BY <1>3 DEF Returns, End
  <1> QED
    BY <1>2, <1>3
-------------------------------------------------------------------------------
(* The four steps of storage_write, by what they do to the file and where  *)
(* they lead.                                                              *)

\* The file is emptied, or something fails before it was.
LEMMA OpenIs ==
  ASSUME TypeOK, ProgressInv, NEW s \in Savers, Open(s)
  PROVE  /\ pc[s] = "open" /\ StorageFree /\ result[s] = "OK"
         /\ \/ Put(s, "flash", Torn) /\ Moves(s, "write", "OK") /\ UNCHANGED <<stale, faults>>
            \/ /\ UNCHANGED file /\ Fault /\ stale' = TRUE
               /\ \E e \in {"OK", "FAIL"} : Returns(s, e)
            \/ /\ UNCHANGED <<file, stale>> /\ Fault
               /\ \/ board = "sd" /\ Moves(s, "openSd", "FAIL")
                  \/ board # "sd" /\ \E e \in {"OK", "FAIL"} : Returns(s, e)
  <1>1. pc[s] = "open" /\ StorageFree
    BY DEF Open
  <1>2. result[s] = "OK" /\ result = [result EXCEPT ![s] = "OK"]
    BY <1>1 DEF ProgressInv, SaverInv, TypeOK
  <1>3. CASE Put(s, "flash", Torn) /\ Goto(s, "write")
             /\ UNCHANGED <<name, result, judging, stale, faults>>
    BY <1>1, <1>2, <1>3 DEF Goto, Moves
  <1>4. CASE Fault /\ FileDone(s, "FAIL") /\ stale' = TRUE /\ UNCHANGED file
    BY <1>1, <1>2, <1>4, FileDoneIs
  <1>5. CASE Fault /\ FlashDone(s, "FAIL") /\ UNCHANGED <<stale, file>>
    BY <1>1, <1>2, <1>5, FlashDoneIs
  <1> QED
    BY <1>3, <1>4, <1>5 DEF Open

\* The file in flash is filled, or stays torn.
LEMMA WriteIs ==
  ASSUME TypeOK, ProgressInv, NEW s \in Savers, Write(s)
  PROVE  /\ pc[s] = "write" /\ result[s] = "OK" /\ UNCHANGED stale
         /\ file[name[s]]["flash"] = Torn
         /\ \/ /\ Put(s, "flash", cred[s]) /\ UNCHANGED faults
               /\ \/ board = "sd" /\ Moves(s, "openSd", "OK")
                  \/ board # "sd" /\ NextFile(s)
                  \/ board # "sd" /\ \E e \in {"OK", "FAIL"} : Returns(s, e)
            \/ /\ UNCHANGED file /\ Fault
               /\ \/ board = "sd" /\ Moves(s, "openSd", "FAIL")
                  \/ board # "sd" /\ \E e \in {"OK", "FAIL"} : Returns(s, e)
  <1>1. pc[s] = "write" /\ UNCHANGED stale
    BY DEF Write, card
  <1>2. result[s] = "OK" /\ file[name[s]]["flash"] = Torn
    BY <1>1 DEF ProgressInv, SaverInv, TypeOK
  <1>3. CASE Put(s, "flash", cred[s]) /\ FlashDone(s, "OK") /\ UNCHANGED faults
    BY <1>1, <1>2, <1>3, FlashDoneIs
  <1>4. CASE Fault /\ FlashDone(s, "FAIL") /\ UNCHANGED file
    BY <1>1, <1>2, <1>4, FlashDoneIs
  <1> QED
    BY <1>3, <1>4 DEF Write

\* The file on the card is emptied, or is left as it was.
LEMMA OpenSdIs ==
  ASSUME TypeOK, ProgressInv, NEW s \in Savers, OpenSd(s)
  PROVE  /\ pc[s] = "openSd" /\ board = "sd"
         /\ \/ /\ Put(s, "sd", Torn) /\ Moves(s, "writeSd", result[s])
               /\ UNCHANGED <<stale, faults>>
            \/ /\ UNCHANGED file /\ Fault /\ stale' = TRUE
               /\ \/ NextFile(s) /\ result[s] = "OK"
                  \/ \E e \in {"OK", "FAIL"} : Returns(s, e)
  <1>1. pc[s] = "openSd" /\ board = "sd"
    BY DEF OpenSd, ProgressInv, SaverInv
  <1>2. result = [result EXCEPT ![s] = result[s]] /\ result[s] \in {"OK", "FAIL"}
    BY DEF TypeOK
  <1>3. CASE Put(s, "sd", Torn) /\ Goto(s, "writeSd")
             /\ UNCHANGED <<name, result, judging, stale, faults>>
    BY <1>1, <1>2, <1>3 DEF Goto, Moves
  <1>4. CASE Fault /\ FileDone(s, result[s]) /\ stale' = TRUE /\ UNCHANGED file
    BY <1>1, <1>2, <1>4, FileDoneIs
  <1> QED
    BY <1>3, <1>4 DEF OpenSd

\* The file on the card is filled, unless it was removed, or stays torn.
LEMMA WriteSdIs ==
  ASSUME TypeOK, ProgressInv, NEW s \in Savers, WriteSd(s)
  PROVE  /\ pc[s] = "writeSd" /\ board = "sd" /\ UNCHANGED stale
         /\ file[name[s]]["sd"] \in {Torn, None}
         /\ \/ NextFile(s) /\ result[s] = "OK"
            \/ \E e \in {"OK", "FAIL"} : Returns(s, e)
         /\ \/ file[name[s]]["sd"] = None /\ UNCHANGED <<file, faults>>
            \/ Put(s, "sd", cred[s]) /\ UNCHANGED faults
            \/ UNCHANGED file /\ Fault
  <1>1. pc[s] = "writeSd" /\ UNCHANGED stale /\ FileDone(s, result[s])
    BY DEF WriteSd, card
  <1>2. board = "sd" /\ file[name[s]]["sd"] \in {Torn, None} /\ result[s] \in {"OK", "FAIL"}
    BY <1>1 DEF ProgressInv, SaverInv, TypeOK
  <1>3. \/ NextFile(s) /\ result[s] = "OK"
        \/ \E e \in {"OK", "FAIL"} : Returns(s, e)
    BY <1>1, <1>2, FileDoneIs
  <1>4. \/ file[name[s]]["sd"] = None /\ UNCHANGED <<file, faults>>
        \/ Put(s, "sd", cred[s]) /\ UNCHANGED faults
        \/ UNCHANGED file /\ Fault
    BY DEF WriteSd
  <1> QED
    BY <1>1, <1>2, <1>3, <1>4

FileStep(s) == Open(s) \/ Write(s) \/ OpenSd(s) \/ WriteSd(s)

\* What no step of storage_write touches.
LEMMA FileStepFrame ==
  ASSUME NEW s \in Savers, FileStep(s)
  PROVE  UNCHANGED <<nvs, cred, boot, loaded, board, saves, reboots>> /\ InFile(s) /\ Active(s)
  BY DEF FileStep, Open, Write, OpenSd, WriteSd, booting, card, InFile, Active

-------------------------------------------------------------------------------
(* When a content stays no older than it may be.                           *)

\* A torn file never is.
LEMMA TornUpToDate ==
  ASSUME NEW k, NEW m \in Media
  PROVE  UpToDate(k, m, Torn)
  BY ConstantsAssumption DEF UpToDate, Gap

\* Nor is what is being saved.
LEMMA CredUpToDate ==
  ASSUME TypeOK, ProgressInv, NEW s \in Savers, Active(s), NEW k, NEW m \in Media
  PROVE  UpToDate(k, m, cred[s]) /\ cred[s] \in period /\ cred[s] \in Creds
  BY ConstantsAssumption DEF TypeOK, ProgressInv, SaverInv, UpToDate

\* A save at its second file has been through with the first.
LEMMA PastFirst ==
  ASSUME NEW s \in Savers, InFile(s), name[s] = "azure", NEW m \in Media
  PROVE  Renewed("mqtt", m)
  BY DEF Renewed, Through

\* Inside storage_write.
LEMMA MovesKeepsUp ==
  ASSUME TypeOK, NEW s \in Savers, NEW l, NEW r, InFile(s), Moves(s, l, r),
         UNCHANGED <<cred, board>>,
         NEW k \in Written, NEW m \in Media, NEW x, x = file'[k][m], UpToDate(k, m, x),
         m = "flash" /\ k = name[s] /\ l \in {"openSd", "writeSd"} /\ r = "OK"
           => x \in period \union Gap(m)
  PROVE  KeepsUp(k, m)'
  <1>1. /\ Others(s) /\ pc'[s] = l /\ name'[s] = name[s] /\ result'[s] = r
        /\ UNCHANGED <<allowed, period, success>>
    BY MovesFrame
  <1>2. ASSUME Renewed(k, m)' PROVE x \in period \union Gap(m)
    <2>1. ASSUME NEW t \in Savers, Through(t, k, m)', t # s PROVE Renewed(k, m)
      <3>1. Through(t, k, m)
        BY <1>1, <2>1 DEF Through, InFile, Others
      <3> QED
        BY <3>1 DEF Renewed
    <2>2. CASE Through(s, k, m)' /\ k = "mqtt" /\ name[s] = "azure"
      BY <2>2, PastFirst DEF UpToDate
    <2>3. CASE Through(s, k, m)' /\ ~(k = "mqtt" /\ name[s] = "azure")
      BY <2>3, <1>1 DEF Through
    <2>4. CASE success
      BY <2>4 DEF Renewed, UpToDate
    <2> QED
      BY <1>1, <1>2, <2>1, <2>2, <2>3, <2>4 DEF Renewed, UpToDate
  <1>3. x \in allowed' \union {None, Torn} /\ (x = None => MayMiss(m)')
    BY <1>1 DEF UpToDate, MayMiss
  <1>4. Renewed(k, m)' => x \in period' \union Gap(m)
    BY <1>1, <1>2
  <1> QED
    BY <1>3, <1>4 DEF KeepsUp, UpToDate, Gap

\* From the first file to the second.
LEMMA NextFileKeepsUp ==
  ASSUME TypeOK, NEW s \in Savers, InFile(s), NextFile(s), UNCHANGED <<cred, board>>,
         NEW k \in Written, NEW m \in Media, NEW x, x = file'[k][m], UpToDate(k, m, x),
         k = "mqtt" => x \in period \union Gap(m)
  PROVE  KeepsUp(k, m)'
  <1>1. /\ Others(s) /\ pc'[s] = "open" /\ name'[s] = "azure"
        /\ UNCHANGED <<allowed, period, success>>
    BY NextFileFrame
  <1>2. ASSUME Renewed(k, m)' PROVE x \in period \union Gap(m)
    <2>1. ASSUME NEW t \in Savers, Through(t, k, m)', t # s PROVE Renewed(k, m)
      <3>1. Through(t, k, m)
        BY <1>1, <2>1 DEF Through, InFile, Others
      <3> QED
        BY <3>1 DEF Renewed
    <2>2. CASE Through(s, k, m)'
      <3>1. k = "mqtt"
        BY <2>2, <1>1 DEF Through
      <3> QED
        BY <3>1
    <2>4. CASE success
      BY <2>4 DEF Renewed, UpToDate
    <2> QED
      BY <1>1, <1>2, <2>1, <2>2, <2>4 DEF Renewed, UpToDate
  <1>3. x \in allowed' \union {None, Torn} /\ (x = None => MayMiss(m)')
    BY <1>1 DEF UpToDate, MayMiss
  <1>4. Renewed(k, m)' => x \in period' \union Gap(m)
    BY <1>1, <1>2
  <1> QED
    BY <1>3, <1>4 DEF KeepsUp, UpToDate, Gap

\* At a return: either the saves that are still under way go on judging, or this was the
\* last and what it leaves is what may be loaded.
LEMMA ReturnsKeepsUp ==
  ASSUME TypeOK, NEW s \in Savers, NEW e \in {"OK", "FAIL"}, InFile(s), Active(s), Returns(s, e),
         UNCHANGED <<cred, board>>,
         NEW k \in Written, NEW m \in Media, NEW x, x = file'[k][m], UpToDate(k, m, x),
         e = "OK" => x \in period \union Gap(m)
  PROVE  KeepsUp(k, m)'
  <1>1. Others(s) /\ pc'[s] = "idle"
    BY ReturnsFrame
  <1>2. success \/ e = "OK" => x \in period \union Gap(m)
    BY DEF Renewed, UpToDate
  <1>3. CASE /\ \A t \in Savers : t # s => ~Active(t)
             /\ success' = FALSE /\ period' = {}
             /\ allowed' = IF success \/ e = "OK" THEN period ELSE allowed
    <2>1. ~Renewed(k, m)'
      BY <1>1, <1>3 DEF Renewed, Through, InFile, Active, Others
    <2>2. x \in allowed' \union {None, Torn}
      BY <1>2, <1>3 DEF UpToDate, Gap
    <2>3. x = None => MayMiss(m)'
      <3> SUFFICES ASSUME x = None, m # "sd" PROVE MayMiss(m)'
        BY DEF MayMiss
      <3>1. None \notin period \union Gap(m)
        BY ConstantsAssumption DEF TypeOK, Gap
      <3>2. allowed' = allowed
        BY <1>2, <1>3, <3>1
      <3> QED
        BY <3>2 DEF UpToDate, MayMiss
    <2> QED
      BY <2>1, <2>2, <2>3 DEF KeepsUp, UpToDate
  <1>4. CASE success' = (success \/ e = "OK") /\ allowed' = allowed /\ period' = period
    <2>1. ASSUME NEW t \in Savers, Through(t, k, m)' PROVE Renewed(k, m)
      <3>1. Through(t, k, m)
        BY <1>1, <2>1 DEF Through, InFile, Others
      <3> QED
        BY <3>1 DEF Renewed
    <2>2. Renewed(k, m)' => x \in period \union Gap(m)
      BY <1>2, <1>4, <2>1 DEF Renewed, UpToDate
    <2>3. x \in allowed' \union {None, Torn} /\ (x = None => MayMiss(m)')
      BY <1>4 DEF UpToDate, MayMiss
    <2> QED
      BY <1>4, <2>2, <2>3 DEF KeepsUp, UpToDate, Gap
  <1> QED
    BY <1>3, <1>4, ReturnsJudging

\* A file that was not broken is not broken by a step of s, unless it was s that was at
\* work on it and leaves it torn.
LEMMA StaysUnbroken ==
  ASSUME NEW s \in Savers, Others(s), NEW k, NEW m, ~Broken(k, m),
         file'[k][m] = Torn => \/ file[k][m] = Torn
                               \/ name'[s] = k /\ pc'[s] = WriteStep(m),
         name[s] = k /\ pc[s] = WriteStep(m) => file'[k][m] # Torn
  PROVE  ~Broken(k, m)'
  <1> SUFFICES ASSUME file'[k][m] = Torn, ~BeingWritten(k, m)' PROVE FALSE
    BY DEF Broken
  <1>1. file[k][m] = Torn
    BY DEF BeingWritten, WriteStep
  <1>2. PICK t \in Savers : name[t] = k /\ pc[t] = WriteStep(m)
    BY <1>1 DEF Broken, BeingWritten
  <1>3. t # s
    BY <1>2
  <1>4. name'[t] = k /\ pc'[t] = WriteStep(m)
    BY <1>2, <1>3 DEF Others
  <1> QED
    BY <1>4 DEF BeingWritten, WriteStep

\* The end of a file, seen from file k.
LEMMA LeavesKeepsUp ==
  ASSUME TypeOK, NEW s \in Savers, InFile(s), Active(s), UNCHANGED <<cred, board>>,
         NEW k \in Written, NEW m \in Media, NEW x, x = file'[k][m], UpToDate(k, m, x),
         \/ NextFile(s) /\ (k = "mqtt" => x \in period \union Gap(m))
         \/ \E e \in {"OK", "FAIL"} : Returns(s, e),
         k = "azure" /\ name[s] = "azure" => x \in period \union Gap(m)
  PROVE  KeepsUp(k, m)'
  <1>1. CASE NextFile(s) /\ (k = "mqtt" => x \in period \union Gap(m))
    BY <1>1, NextFileKeepsUp
  <1>2. CASE \E e \in {"OK", "FAIL"} : Returns(s, e)
    <2>1. PICK e \in {"OK", "FAIL"} : Returns(s, e)
      BY <1>2
    <2>2. e = "OK" => x \in period \union Gap(m)
      <3> SUFFICES ASSUME e = "OK", k # "azure" PROVE x \in period \union Gap(m)
        BY <2>1 DEF Returns
      <3>1. k = "mqtt" /\ name[s] = "azure"
        BY <2>1 DEF Returns, Written
      <3> QED
        BY <3>1, PastFirst DEF UpToDate
    <2> QED
      BY <2>1, <2>2, ReturnsKeepsUp
  <1> QED
    BY <1>1, <1>2
-------------------------------------------------------------------------------
(* The flash, while a file is written.                                     *)

\* A failure is counted.
LEMMA FaultCounts == ASSUME TypeOK, Fault PROVE faults' = faults + 1 /\ faults' # faults
  BY ConstantsAssumption DEF TypeOK, Fault

\* What was through with its first file stays so.
LEMMA ThroughIsRenewed ==
  ASSUME NEW s \in Savers, NEW k, NEW m, Through(s, k, m), NEW x, UpToDate(k, m, x)
  PROVE  x \in period \union Gap(m)
  BY DEF Renewed, UpToDate

\* A step of storage_write leaves the files in flash as new as they have to be; only the
\* second may fall behind, when its own write fails.
LEMMA FlashKeepsUp ==
  ASSUME TypeOK, ProgressInv, NEW s \in Savers, FileStep(s),
         NEW k \in Written, KeepsUp(k, "flash"),
         k = "azure" /\ name[s] = "azure" => UNCHANGED faults /\ result[s] = "OK"
  PROVE  KeepsUp(k, "flash")'
  <1> DEFINE x == file'[k]["flash"]
  <1>0. /\ UNCHANGED <<cred, board>> /\ InFile(s) /\ Active(s)
        /\ "flash" \in Media /\ "sd" \in Media /\ k \in Files /\ name[s] \in Files
    BY FileStepFrame DEF Media, Written, Files, TypeOK
  <1>1. UNCHANGED file => UpToDate(k, "flash", x)
    BY DEF KeepsUp
  <1>2. CASE Open(s)
    <2>1. CASE Put(s, "flash", Torn) /\ Moves(s, "write", "OK")
      <3>1. UpToDate(k, "flash", x)
        BY <1>0, <2>1, PutEffect, TornUpToDate DEF KeepsUp
      <3> HIDE DEF x
      <3> QED
        BY <1>0, <2>1, <3>1, MovesKeepsUp DEF x
    <2>2. CASE UNCHANGED file /\ Fault /\ \E e \in {"OK", "FAIL"} : Returns(s, e)
      <3>1. ~(k = "azure" /\ name[s] = "azure")
        BY <2>2, FaultCounts
      <3> HIDE DEF x
      <3> QED
        BY <1>0, <1>1, <2>2, <3>1, LeavesKeepsUp DEF x
    <2>3. CASE UNCHANGED file /\ Moves(s, "openSd", "FAIL")
      BY <1>0, <1>1, <2>3, MovesKeepsUp
    <2> QED
      BY <1>2, <2>1, <2>2, <2>3, OpenIs
  <1>3. CASE Write(s)
    <2>1. CASE /\ Put(s, "flash", cred[s])
               /\ \/ Moves(s, "openSd", "OK") \/ NextFile(s)
                  \/ \E e \in {"OK", "FAIL"} : Returns(s, e)
      <3>1. UpToDate(k, "flash", x) /\ (k = name[s] => x \in period \union Gap("flash"))
        BY <1>0, <2>1, PutEffect, CredUpToDate DEF KeepsUp
      <3> HIDE DEF x
      <3>2. CASE Moves(s, "openSd", "OK")
        BY <1>0, <3>1, <3>2, MovesKeepsUp DEF x
      <3>3. CASE NextFile(s)
        <4>1. k = "mqtt" => x \in period \union Gap("flash")
          BY <3>1, <3>3 DEF NextFile
        <4> QED
          BY <1>0, <3>1, <3>3, <4>1, LeavesKeepsUp DEF x
      <3>4. CASE \E e \in {"OK", "FAIL"} : Returns(s, e)
        BY <1>0, <3>1, <3>4, LeavesKeepsUp DEF x
      <3> QED
        BY <2>1, <3>2, <3>3, <3>4
    <2>2. CASE UNCHANGED file /\ Fault /\ \E e \in {"OK", "FAIL"} : Returns(s, e)
      <3>1. ~(k = "azure" /\ name[s] = "azure")
        BY <2>2, FaultCounts
      <3> HIDE DEF x
      <3> QED
        BY <1>0, <1>1, <2>2, <3>1, LeavesKeepsUp DEF x
    <2>3. CASE UNCHANGED file /\ Moves(s, "openSd", "FAIL")
      BY <1>0, <1>1, <2>3, MovesKeepsUp
    <2> QED
      BY <1>3, <2>1, <2>2, <2>3, WriteIs
  <1>4. CASE OpenSd(s) \/ WriteSd(s)
    <2>1. pc[s] \in {"openSd", "writeSd"}
      BY <1>4, OpenSdIs, WriteSdIs
    <2>2. x = file[k]["flash"]
      <3>1. UNCHANGED file \/ \E y : Put(s, "sd", y)
        BY <1>4, OpenSdIs, WriteSdIs
      <3> QED
        BY <1>0, <3>1, PutEffect
    <2>3. UpToDate(k, "flash", x)
      BY <2>2 DEF KeepsUp
    <2>4. k = name[s] /\ result[s] = "OK" => x \in period \union Gap("flash")
      <3> SUFFICES ASSUME k = name[s], result[s] = "OK" PROVE x \in period \union Gap("flash")
        OBVIOUS
      <3>1. Through(s, k, "flash")
        BY <1>0, <2>1 DEF Through
      <3> HIDE DEF x
      <3> QED
        BY <2>3, <3>1, ThroughIsRenewed
    <2> HIDE DEF x
    <2>5. CASE Moves(s, "writeSd", result[s])
      BY <1>0, <2>3, <2>4, <2>5, MovesKeepsUp DEF x
    <2>6. CASE NextFile(s) /\ result[s] = "OK"
      <3>1. k = "mqtt" => x \in period \union Gap("flash")
        BY <2>4, <2>6 DEF NextFile
      <3>2. k = "azure" /\ name[s] = "azure" => x \in period \union Gap("flash")
        BY <2>4
      <3> QED
        BY <1>0, <2>3, <2>6, <3>1, <3>2, LeavesKeepsUp DEF x
    <2>7. CASE \E e \in {"OK", "FAIL"} : Returns(s, e)
      <3>1. k = "azure" /\ name[s] = "azure" => x \in period \union Gap("flash")
        BY <2>4
      <3> QED
        BY <1>0, <2>3, <2>7, <3>1, LeavesKeepsUp DEF x
    <2> QED
      BY <1>4, <2>5, <2>6, <2>7, OpenSdIs, WriteSdIs
  <1> QED
    BY <1>2, <1>3, <1>4 DEF FileStep

\* A step of storage_write is its task's own.
LEMMA FileStepIsLocal ==
  ASSUME TypeOK, ProgressInv, NEW s \in Savers, FileStep(s)
  PROVE  Others(s)
  <1>1. UNCHANGED cred
    BY FileStepFrame
  <1>2. \/ \E l, r : Moves(s, l, r)
        \/ NextFile(s)
        \/ \E e \in {"OK", "FAIL"} : Returns(s, e)
    BY OpenIs, WriteIs, OpenSdIs, WriteSdIs DEF FileStep
  <1> QED
    BY <1>1, <1>2, MovesFrame, NextFileFrame, ReturnsFrame

\* A file in flash is broken by a write that fails, and by nothing else.
LEMMA FlashStaysUnbroken ==
  ASSUME TypeOK, ProgressInv, NEW s \in Savers, FileStep(s),
         NEW k \in Written, ~Broken(k, "flash"),
         k = name[s] => UNCHANGED faults \/ pc[s] # "write"
  PROVE  ~Broken(k, "flash")'
  <1>0. /\ Others(s) /\ UNCHANGED cred
        /\ "flash" \in Media /\ "sd" \in Media /\ k \in Files
    BY FileStepFrame, FileStepIsLocal DEF Media, Written, Files
  <1>1. file'[k]["flash"] = Torn => \/ file[k]["flash"] = Torn
                                    \/ name'[s] = k /\ pc'[s] = "write"
    <2>1. CASE Open(s)
      <3>1. CASE Put(s, "flash", Torn) /\ Moves(s, "write", "OK")
        BY <1>0, <3>1, PutEffect, MovesFrame
      <3> QED
        BY <2>1, <3>1, OpenIs
    <2>2. CASE Write(s)
      <3>1. cred[s] # Torn
        BY ConstantsAssumption DEF TypeOK
      <3> QED
        BY <1>0, <2>2, <3>1, WriteIs, PutEffect
    <2>3. CASE OpenSd(s) \/ WriteSd(s)
      <3>1. UNCHANGED file \/ \E y : Put(s, "sd", y)
        BY <2>3, OpenSdIs, WriteSdIs
      <3> QED
        BY <1>0, <3>1, PutEffect
    <2> QED
      BY <2>1, <2>2, <2>3 DEF FileStep
  <1>2. name[s] = k /\ pc[s] = "write" => file'[k]["flash"] # Torn
    <2> SUFFICES ASSUME name[s] = k, pc[s] = "write" PROVE file'[k]["flash"] # Torn
      OBVIOUS
    <2>1. Write(s)
      BY OpenIs, OpenSdIs, WriteSdIs DEF FileStep
    <2>2. Put(s, "flash", cred[s])
      BY <2>1, WriteIs, FaultCounts
    <2>3. cred[s] # Torn
      BY ConstantsAssumption DEF TypeOK
    <2> QED
      BY <1>0, <2>2, <2>3, PutEffect
  <1> QED
    BY <1>0, <1>1, <1>2, StaysUnbroken DEF WriteStep

\* A step of storage_write fails once or not at all.
LEMMA FileStepFaults ==
  ASSUME TypeOK, ProgressInv, NEW s \in Savers, FileStep(s)
  PROVE  /\ faults \in Nat /\ (UNCHANGED faults \/ faults' = faults + 1)
         /\ result[s] = "FAIL" => faults > 0
  <1>1. UNCHANGED faults \/ Fault
    BY OpenIs, WriteIs, OpenSdIs, WriteSdIs DEF FileStep
  <1>2. faults \in Nat
    BY ConstantsAssumption DEF TypeOK
  <1> QED
    BY <1>1, <1>2, FaultCounts DEF ProgressInv, SaverInv

\* What it makes of the files in flash.
LEMMA FlashEffect ==
  ASSUME TypeOK, ProgressInv, NEW s \in Savers, FileStep(s), NEW k \in Files
  PROVE  \/ file'[k]["flash"] = file[k]["flash"]
         \/ k = name[s] /\ file'[k]["flash"] \in {Torn, cred[s]}
  <1>1. "flash" \in Media /\ "sd" \in Media
    BY DEF Media
  <1>2. \/ UNCHANGED file
        \/ \E y : Put(s, "sd", y)
        \/ \E y \in {Torn, cred[s]} : Put(s, "flash", y)
    BY OpenIs, WriteIs, OpenSdIs, WriteSdIs DEF FileStep
  <1> QED
    BY <1>1, <1>2, PutEffect

\* A save that goes on to the card with a failed write of the flash behind it is still at the
\* file whose write failed, or this step is the failure.
LEMMA ResultStays ==
  ASSUME TypeOK, ProgressInv, NEW s \in Savers, FileStep(s), result'[s] = "FAIL"
  PROVE  /\ name'[s] = name[s]
         /\ result[s] = "FAIL" \/ faults' = faults + 1
  <1>1. UNCHANGED cred
    BY FileStepFrame
  <1>2. CASE \E l, r : Moves(s, l, r)
    <2>1. PICK l, r : Moves(s, l, r)
      BY <1>2
    <2>2. name'[s] = name[s] /\ r = "FAIL"
      BY <1>1, <2>1, MovesFrame
    <2>3. \/ Moves(s, "write", "OK")
          \/ Moves(s, "openSd", "FAIL") /\ Fault
          \/ Moves(s, "openSd", "OK")
          \/ Moves(s, "writeSd", result[s])
          \/ NextFile(s) /\ result[s] = "OK"
          \/ \E e \in {"OK", "FAIL"} : Returns(s, e)
      BY OpenIs, WriteIs, OpenSdIs, WriteSdIs DEF FileStep
    <2> QED
      BY <1>1, <2>2, <2>3, MovesFrame, NextFileFrame, ReturnsFrame, FaultCounts
  <1>3. CASE NextFile(s) /\ result[s] = "OK"
    BY <1>1, <1>3, NextFileFrame
  <1>4. CASE \E e \in {"OK", "FAIL"} : Returns(s, e)
    BY <1>1, <1>4, ReturnsFrame
  <1> QED
    BY <1>2, <1>3, <1>4, OpenIs, WriteIs, OpenSdIs, WriteSdIs DEF FileStep

\* The second file in flash stays sound when the write that goes on is not its own failure.
LEMMA SecondStaysSound ==
  ASSUME TypeOK, ProgressInv, NEW s \in Savers, FileStep(s), Sound("azure", "flash"),
         name[s] = "azure" => UNCHANGED faults /\ result[s] = "OK"
  PROVE  Sound("azure", "flash")'
  <1>1. KeepsUp("azure", "flash")' /\ ~Broken("azure", "flash")'
    BY FlashKeepsUp, FlashStaysUnbroken DEF Sound, Written
  <1> QED
    BY <1>1 DEF Sound

\* Whatever step of storage_write comes, and whether it fails or not, FlashInv holds after it.
LEMMA FileStepFlash ==
  ASSUME TypeOK, ProgressInv, FlashInv, NEW s \in Savers, FileStep(s)
  PROVE  FlashInv'
  <1> USE DEF Written
  <1>1. /\ UNCHANGED board /\ Others(s)
        /\ faults \in Nat /\ (UNCHANGED faults \/ faults' = faults + 1)
        /\ result[s] = "FAIL" => faults > 0
        /\ name[s] \in {"mqtt", "azure"} /\ result[s] \in {"OK", "FAIL"}
    BY FileStepFrame, FileStepIsLocal, FileStepFaults DEF ProgressInv, SaverInv, TypeOK
  <1>2. KeepsUp("mqtt", "flash")'
    BY FlashKeepsUp DEF FlashInv
  <1>3. ~Broken("mqtt", "flash") /\ (name[s] = "azure" \/ UNCHANGED faults)
          => ~Broken("mqtt", "flash")'
    BY FlashStaysUnbroken
  <1>4. faults' = 0 => Sound("mqtt", "flash")' /\ Sound("azure", "flash")'
    <2> SUFFICES ASSUME faults' = 0 PROVE Sound("mqtt", "flash")' /\ Sound("azure", "flash")'
      OBVIOUS
    <2>1. faults = 0 /\ UNCHANGED faults /\ result[s] = "OK"
      BY <1>1
    <2> QED
      BY <1>2, <1>3, <2>1, SecondStaysSound DEF FlashInv, Sound
  <1>5. faults' <= 1 => Sound("azure", "flash")' \/ ~Broken("mqtt", "flash")'
    <2> SUFFICES ASSUME faults' <= 1 PROVE Sound("azure", "flash")' \/ ~Broken("mqtt", "flash")'
      OBVIOUS
    <2>1. CASE UNCHANGED faults
      <3>1. CASE ~Broken("mqtt", "flash")
        BY <1>3, <2>1, <3>1
      <3>2. CASE Broken("mqtt", "flash")
        <4>1. Sound("azure", "flash") /\ ~(name[s] = "azure" /\ result[s] = "FAIL")
          BY <2>1, <3>2 DEF FlashInv
        <4> QED
          BY <1>1, <2>1, <4>1, SecondStaysSound
      <3> QED
        BY <3>1, <3>2
    <2>2. CASE faults' = faults + 1
      <3>1. faults = 0
        BY <1>1, <2>2
      <3>2. CASE name[s] = "azure"
        BY <1>3, <3>1, <3>2 DEF FlashInv, Sound
      <3>3. CASE name[s] = "mqtt"
        BY <3>1, <3>3, SecondStaysSound DEF FlashInv
      <3> QED
        BY <1>1, <3>2, <3>3
    <2> QED
      BY <1>1, <2>1, <2>2
  <1>6. faults' <= 1 /\ (\E t \in Savers : name'[t] = "azure" /\ result'[t] = "FAIL")
          => ~Broken("mqtt", "flash")'
    <2> SUFFICES ASSUME faults' <= 1,
                        NEW t \in Savers, name'[t] = "azure", result'[t] = "FAIL"
                 PROVE  ~Broken("mqtt", "flash")'
      OBVIOUS
    <2>1. CASE name[t] = "azure" /\ result[t] = "FAIL"
      <3>1. faults > 0
        BY <2>1 DEF ProgressInv, SaverInv
      <3>2. faults <= 1 /\ UNCHANGED faults
        BY <1>1, <3>1
      <3> QED
        BY <1>3, <2>1, <3>2 DEF FlashInv
    <2>2. CASE t = s /\ result[s] # "FAIL"
      <3>1. name[s] = "azure" /\ faults' = faults + 1
        BY <2>2, ResultStays
      <3>2. faults = 0
        BY <1>1, <3>1
      <3> QED
        BY <1>3, <3>1, <3>2 DEF FlashInv, Sound
    <2>3. CASE t = s /\ result[s] = "FAIL"
      BY <2>1, <2>3, ResultStays
    <2> QED
      BY <1>1, <2>1, <2>2, <2>3 DEF Others
  <1>7. None # Torn /\ cred[s] # None
    BY ConstantsAssumption DEF TypeOK
  <1>8. file'["mqtt"]["flash"] = None => file["mqtt"]["flash"] = None
    BY <1>7, FlashEffect DEF Files
  <1>9. \/ file'["azure"]["flash"] = file["azure"]["flash"]
        \/ name[s] = "azure" /\ file'["azure"]["flash"] # None
    BY <1>7, FlashEffect DEF Files
  <1>10. name[s] = "azure" => file["mqtt"]["flash"] # None
    <2> SUFFICES ASSUME name[s] = "azure" PROVE file["mqtt"]["flash"] # None
      OBVIOUS
    <2>1. Renewed("mqtt", "flash")
      BY FileStepFrame, PastFirst DEF Media
    <2>2. None \notin period \union {Torn}
      BY ConstantsAssumption DEF TypeOK
    <2> QED
      BY <2>1, <2>2 DEF FlashInv, KeepsUp, UpToDate, Gap
  <1>11. file'["mqtt"]["flash"] = None => file'["azure"]["flash"] = None
    BY <1>8, <1>9, <1>10 DEF FlashInv
  <1>12. board' \in {"flash", "sd"} => file'["azure"]["flash"] # None
    BY <1>1, <1>9 DEF FlashInv
  <1>13. file'["legacy"]["flash"] = IF board' \in {"legacy", "sd"} THEN BootCred ELSE None
    BY <1>1, FlashEffect DEF FlashInv, Files
  <1> QED
    BY <1>2, <1>4, <1>5, <1>6, <1>11, <1>12, <1>13 DEF FlashInv

-------------------------------------------------------------------------------
(* The steps outside storage_write.                                        *)

\* A step that enters no file, ends no save and lets a boot load no less than before.
Quiet ==
    /\ \A t \in Savers :
         \/ pc'[t] = pc[t] /\ name'[t] = name[t]
         \/ /\ ~InFile(t) /\ pc'[t] \notin {"write", "openSd", "writeSd"}
            /\ pc'[t] = "open" => name'[t] = "mqtt"
    /\ UNCHANGED <<result, success, board>>
    /\ allowed \subseteq allowed' /\ period \subseteq period'
    /\ UNCHANGED faults \/ Fault

\* Content that was no older than it may be still is not.
LEMMA QuietKeepsUp ==
  ASSUME Quiet, NEW k, NEW m \in Media, NEW x, x = file'[k][m], UpToDate(k, m, x)
  PROVE  KeepsUp(k, m)'
  <1>1. ASSUME NEW t \in Savers, Through(t, k, m)' PROVE Through(t, k, m)
    <2>1. CASE pc'[t] = pc[t] /\ name'[t] = name[t]
      BY <1>1, <2>1 DEF Quiet, Through, InFile
    <2>2. CASE /\ pc'[t] \notin {"write", "openSd", "writeSd"}
               /\ pc'[t] = "open" => name'[t] = "mqtt"
      BY <1>1, <2>2 DEF Through, InFile
    <2> QED
      BY <2>1, <2>2 DEF Quiet
  <1>2. Renewed(k, m)' => Renewed(k, m)
    BY <1>1 DEF Renewed, Quiet
  <1> QED
    BY <1>2 DEF Quiet, KeepsUp, UpToDate, MayMiss, Gap

\* The same tasks are at work on the same files.
LEMMA QuietWriters ==
  ASSUME Quiet, NEW k, NEW m
  PROVE  BeingWritten(k, m)' <=> BeingWritten(k, m)
  BY DEF Quiet, BeingWritten, WriteStep, InFile

\* A sound file in flash stays sound.
LEMMA QuietSound ==
  ASSUME Quiet, NEW k, NEW m \in Media, UNCHANGED file[k][m]
  PROVE  /\ KeepsUp(k, m) => KeepsUp(k, m)'
         /\ Broken(k, m)' <=> Broken(k, m)
         /\ Sound(k, m) => Sound(k, m)'
  BY QuietKeepsUp, QuietWriters DEF KeepsUp, Broken, Sound

\* FlashInv survives all steps outside storage_write but the reset.
LEMMA QuietFlash ==
  ASSUME TypeOK, ProgressInv, FlashInv, Quiet, \A k \in Files : UNCHANGED file[k]["flash"]
  PROVE  FlashInv'
  <1>1. /\ KeepsUp("mqtt", "flash")' /\ (Sound("mqtt", "flash") => Sound("mqtt", "flash")')
        /\ Sound("azure", "flash") => Sound("azure", "flash")'
        /\ Broken("mqtt", "flash")' <=> Broken("mqtt", "flash")
    BY QuietSound DEF FlashInv, Files, Media
  <1>2. faults \in Nat /\ (UNCHANGED faults \/ faults' = faults + 1)
    BY ConstantsAssumption, FaultCounts DEF TypeOK, Quiet
  <1>3. ASSUME NEW t \in Savers, name'[t] = "azure", result'[t] = "FAIL"
        PROVE  name[t] = "azure" /\ result[t] = "FAIL"
    <2>1. result[t] = "FAIL"
      BY <1>3 DEF Quiet
    <2>2. pc[t] \in {"openSd", "writeSd"}
      BY <2>1 DEF ProgressInv, SaverInv
    <2> QED
      BY <1>3, <2>1, <2>2 DEF Quiet, InFile
  <1>4. faults' = 0 => faults = 0
    BY <1>2
  <1>5. faults' <= 1 => faults <= 1
    BY <1>2
  <1>6. UNCHANGED board
    BY DEF Quiet
  <1>7. /\ UNCHANGED file["mqtt"]["flash"] /\ UNCHANGED file["azure"]["flash"]
        /\ UNCHANGED file["legacy"]["flash"]
    BY DEF Files
  <1>8. /\ faults' = 0 => Sound("mqtt", "flash")' /\ Sound("azure", "flash")'
        /\ faults' <= 1 => Sound("azure", "flash")' \/ ~Broken("mqtt", "flash")'
        /\ faults' <= 1 /\ (\E s \in Savers : name'[s] = "azure" /\ result'[s] = "FAIL")
             => ~Broken("mqtt", "flash")'
    BY <1>1, <1>3, <1>4, <1>5 DEF FlashInv
  <1>9. /\ file'["mqtt"]["flash"] = None => file'["azure"]["flash"] = None
        /\ board' \in {"flash", "sd"} => file'["azure"]["flash"] # None
        /\ file'["legacy"]["flash"] = IF board' \in {"legacy", "sd"} THEN BootCred ELSE None
    BY <1>6, <1>7 DEF FlashInv
  <1> QED
    BY <1>1, <1>8, <1>9 DEF FlashInv

\* A save begins.
LEMMA BeginIsQuiet ==
  ASSUME TypeOK, NEW s \in Savers, NEW c \in Creds, Begin(s, c)
  PROVE  Quiet /\ UNCHANGED <<file, name, stale>>
  <1>1. \A t \in Savers : pc'[t] = IF t = s THEN "host" ELSE pc[t]
    BY DEF Begin, Goto, TypeOK
  <1>2. UNCHANGED <<file, name, stale, result, success, board, faults>> /\ pc[s] = "idle"
    BY DEF Begin, flash, card
  <1>3. allowed \subseteq allowed' /\ period \subseteq period'
    BY DEF Begin
  <1> QED
    BY <1>1, <1>2, <1>3 DEF Quiet, InFile

\* A key is written.
LEMMA SaveKeyIsQuiet ==
  ASSUME TypeOK, ProgressInv, NEW s \in Savers, SaveKey(s)
  PROVE  Quiet /\ UNCHANGED <<file, name, stale>>
  <1>1. /\ \A t \in Savers : pc'[t] = IF t = s THEN NextField(pc[s]) ELSE pc[t]
        /\ pc[s] \in Fields
    BY DEF SaveKey, Goto, TypeOK
  <1>2. NextField(pc[s]) \in {"dev", "sak", "open"}
    BY <1>1, NextFieldType
  <1>3. UNCHANGED <<file, name, stale, result, allowed, period, success, board>>
    BY DEF SaveKey, judging, card
  <1>4. UNCHANGED faults \/ Fault
    BY DEF SaveKey
  <1>5. name[s] = "mqtt"
    BY <1>1 DEF ProgressInv, SaverInv
  <1> QED
    BY <1>1, <1>2, <1>3, <1>4, <1>5 DEF Quiet, InFile, Fields

\* clear_sd begins.
LEMMA ClearBeginIsQuiet ==
  ASSUME TypeOK, ClearBegin
  PROVE  Quiet /\ UNCHANGED <<file, name, stale>>
  <1>1. \A t \in Savers : pc'[t] = IF t = "mqtt" THEN "clear1" ELSE pc[t]
    BY DEF ClearBegin, Goto, TypeOK
  <1>2. /\ UNCHANGED <<file, name, stale, result, allowed, period, success, board, faults>>
        /\ pc["mqtt"] = "idle"
    BY DEF ClearBegin, flash, judging, card
  <1> QED
    BY <1>1, <1>2 DEF Quiet, InFile

\* clear_sd removes files of the card: the first, or the second with the older third; or
\* it fails to.
LEMMA ClearIs ==
  ASSUME TypeOK, Clear
  PROVE  \E k \in {"mqtt", "azure"} :
           /\ \A t \in Savers : t # "mqtt" => pc'[t] = pc[t] /\ name'[t] = name[t]
           /\ \/ pc["mqtt"] = "clear1" /\ pc'["mqtt"] = "clear2" /\ name'["mqtt"] = k
              \/ /\ pc["mqtt"] = "clear2" /\ pc'["mqtt"] = "idle" /\ name["mqtt"] # k
                 /\ name'["mqtt"] = "mqtt"
           /\ \/ /\ \A f \in Files, m \in Media :
                      file'[f][m] =
                        IF m = "sd" /\ (f = k \/ (f = "legacy" /\ pc["mqtt"] = "clear2"))
                          THEN None ELSE file[f][m]
                 /\ UNCHANGED faults
              \/ UNCHANGED file /\ Fault /\ stale' = TRUE
  <1>1. PICK k \in {"mqtt", "azure"} :
          /\ pc["mqtt"] = "clear1" => Goto("mqtt", "clear2") /\ name' = [name EXCEPT !["mqtt"] = k]
          /\ pc["mqtt"] = "clear2" => /\ Goto("mqtt", "idle") /\ name["mqtt"] # k
                                     /\ name' = [name EXCEPT !["mqtt"] = "mqtt"]
          /\ LET gone == IF pc["mqtt"] = "clear1" THEN {k} ELSE {k, "legacy"} IN
               \/ /\ file' = [f \in Files |-> IF f \in gone THEN [file[f] EXCEPT !.sd = None]
                                                        ELSE file[f]]
                  /\ stale' = (stale \/ Saving # {})
                  /\ UNCHANGED faults
               \/ Fault /\ stale' = TRUE /\ UNCHANGED file
    BY Zenon DEF Clear
  <1>2. "mqtt" \in Savers /\ pc["mqtt"] \in {"clear1", "clear2"}
    BY DEF Clear, Clearing
  <1>3. \A t \in Savers : t # "mqtt" => pc'[t] = pc[t] /\ name'[t] = name[t]
    BY <1>1, <1>2 DEF Goto, TypeOK
  <1>4. \/ pc["mqtt"] = "clear1" /\ pc'["mqtt"] = "clear2" /\ name'["mqtt"] = k
        \/ /\ pc["mqtt"] = "clear2" /\ pc'["mqtt"] = "idle" /\ name["mqtt"] # k
           /\ name'["mqtt"] = "mqtt"
    BY <1>1, <1>2 DEF Goto, TypeOK
  <1> DEFINE gone == IF pc["mqtt"] = "clear1" THEN {k} ELSE {k, "legacy"}
  <1>5. \/ /\ file' = [f \in Files |-> IF f \in gone THEN [file[f] EXCEPT !.sd = None]
                                                    ELSE file[f]]
           /\ UNCHANGED faults
        \/ UNCHANGED file /\ Fault /\ stale' = TRUE
    BY <1>1, Zenon
  <1>6. \A f : f \in gone <=> f = k \/ (f = "legacy" /\ pc["mqtt"] = "clear2")
    BY <1>2
  <1> HIDE DEF gone
  <1>7. ASSUME file' = [f \in Files |-> IF f \in gone THEN [file[f] EXCEPT !.sd = None]
                                                ELSE file[f]],
               NEW f \in Files, NEW m \in Media
        PROVE  file'[f][m] = IF m = "sd" /\ f \in gone THEN None ELSE file[f][m]
    <2>1. file[f] \in [Media -> Creds \union {None, Torn}]
      BY DEF TypeOK
    <2>2. file'[f] = IF f \in gone THEN [file[f] EXCEPT !["sd"] = None] ELSE file[f]
      BY <1>7
    <2> QED
      BY <2>1, <2>2
  <1> QED
    BY <1>3, <1>4, <1>5, <1>6, <1>7

\* clear_sd goes on.
LEMMA ClearIsQuiet ==
  ASSUME TypeOK, Clear
  PROVE  Quiet /\ \A k \in Files : UNCHANGED file[k]["flash"]
  <1>1. UNCHANGED <<result, success, board, allowed, period>>
    BY DEF Clear, judging
  <1>2. /\ \A t \in Savers : t # "mqtt" => pc'[t] = pc[t] /\ name'[t] = name[t]
        /\ pc["mqtt"] \in {"clear1", "clear2"} /\ pc'["mqtt"] \in {"clear2", "idle"}
        /\ UNCHANGED faults \/ Fault
    BY ClearIs
  <1>3. \A k \in Files : file'[k]["flash"] = file[k]["flash"]
    BY ClearIs DEF Media
  <1> QED
    BY <1>1, <1>2, <1>3 DEF Quiet, InFile

Load == LoadFile \/ Scan \/ LoadKey \/ CopyKey

\* The boot reads, and copies to the keys what it found.
LEMMA LoadIsQuiet ==
  ASSUME TypeOK, Load
  PROVE  Quiet /\ UNCHANGED <<file, pc, name, cred, result, early, allowed, period, success, stale>>
  <1>1. /\ UNCHANGED <<file, saving, judging, card>>
        /\ UNCHANGED faults \/ Fault
    BY DEF Load, LoadFile, Scan, LoadKey, CopyKey, flash
  <1>2. UNCHANGED <<file, pc, name, cred, result, early, allowed, period, success, stale, board>>
    BY <1>1 DEF saving, judging, card
  <1> QED
    BY <1>1, <1>2 DEF Quiet

-------------------------------------------------------------------------------
(* A reset.                                                                *)

\* All tasks are at their beginning, the files are as they were, and if anything was under
\* way it counts as a failure.
LEMMA RebootIs ==
  ASSUME TypeOK, Reboot
  PROVE  /\ Idle' /\ period' = {} /\ success' = FALSE /\ early' = FALSE
         /\ \A s \in Savers : name'[s] = "mqtt" /\ result'[s] = "OK"
         /\ UNCHANGED <<nvs, file, allowed, board>>
         /\ boot' = FirstPlace /\ loaded' = Blank
         /\ \/ Idle /\ boot = "done" /\ UNCHANGED faults
            \/ faults' = faults + 1
         /\ stale' = (stale \/ \E s \in Savers : pc[s] \in Clearing)
  BY FaultCounts DEF Reboot, Idle, flash

\* What a boot may load from a file it still may.
LEMMA RebootKeepsUp ==
  ASSUME TypeOK, Reboot, NEW k, NEW m, KeepsUp(k, m)
  PROVE  KeepsUp(k, m)'
  <1>1. ~Renewed(k, m)'
    BY RebootIs DEF Idle, Renewed, Through, InFile
  <1> QED
    BY <1>1, RebootIs DEF KeepsUp, UpToDate, MayMiss

\* A reset of an idle device breaks nothing, and one that comes during a write at most the
\* file being written.
LEMMA RebootBreaks ==
  ASSUME TypeOK, Reboot, NEW m \in Media
  PROVE  /\ UNCHANGED faults => \A k : ~Broken(k, m) => ~Broken(k, m)'
         /\ ~Broken("mqtt", m) /\ ~Broken("azure", m)
              => ~Broken("mqtt", m)' \/ ~Broken("azure", m)'
  <1>1. ASSUME NEW k, ~Broken(k, m), Broken(k, m)'
        PROVE  \E s \in Savers : name[s] = k /\ pc[s] = WriteStep(m)
    BY <1>1, RebootIs DEF Broken, BeingWritten
  <1>2. WriteStep(m) # "idle"
    BY DEF WriteStep
  <1>3. faults' = faults + 1 => faults' # faults
    BY ConstantsAssumption DEF TypeOK
  <1>4. UNCHANGED faults => \A k : ~Broken(k, m) => ~Broken(k, m)'
    BY <1>1, <1>2, <1>3, RebootIs DEF Idle
  <1>5. ASSUME ~Broken("mqtt", m), ~Broken("azure", m), Broken("mqtt", m)', Broken("azure", m)'
        PROVE  FALSE
    <2>1. PICK s \in Savers : name[s] = "mqtt" /\ pc[s] = WriteStep(m)
      BY <1>1, <1>5
    <2>2. PICK t \in Savers : name[t] = "azure" /\ pc[t] = WriteStep(m)
      BY <1>1, <1>5
    <2>3. Writing(s) /\ Writing(t) /\ s # t
      BY <2>1, <2>2 DEF Writing, WriteStep
    <2> QED
      BY <2>3 DEF TypeOK
  <1> QED
    BY <1>4, <1>5

\* The flash after a reset.
LEMMA RebootFlash ==
  ASSUME TypeOK, FlashInv, Reboot
  PROVE  FlashInv'
  <1>1. /\ KeepsUp("mqtt", "flash")'
        /\ KeepsUp("azure", "flash") => KeepsUp("azure", "flash")'
    BY RebootKeepsUp DEF FlashInv
  <1>0. faults \in Nat
    BY ConstantsAssumption DEF TypeOK
  <1>2. faults \in Nat /\ (UNCHANGED faults \/ faults' = faults + 1)
    BY <1>0, RebootIs
  <1>3. /\ UNCHANGED faults => \A k : ~Broken(k, "flash") => ~Broken(k, "flash")'
        /\ ~Broken("mqtt", "flash") /\ ~Broken("azure", "flash")
              => ~Broken("mqtt", "flash")' \/ ~Broken("azure", "flash")'
    BY RebootBreaks DEF Media
  <1>4. faults' = 0 => Sound("mqtt", "flash")' /\ Sound("azure", "flash")'
    <2> SUFFICES ASSUME faults' = 0 PROVE Sound("mqtt", "flash")' /\ Sound("azure", "flash")'
      OBVIOUS
    <2>1. faults = 0 /\ UNCHANGED faults
      BY <1>2
    <2> QED
      BY <1>1, <1>3, <2>1 DEF FlashInv, Sound
  <1>5. faults' <= 1 => Sound("azure", "flash")' \/ ~Broken("mqtt", "flash")'
    <2>1. CASE UNCHANGED faults
      BY <1>1, <1>3, <2>1 DEF FlashInv, Sound
    <2>2. CASE faults' = faults + 1 /\ faults' <= 1
      <3>1. faults = 0
        BY <1>2, <2>2
      <3> QED
        BY <1>1, <1>3, <3>1 DEF FlashInv, Sound
    <2> QED
      BY <1>2, <2>1, <2>2
  <1>6. ~\E s \in Savers : name'[s] = "azure" /\ result'[s] = "FAIL"
    BY RebootIs
  <1>7. UNCHANGED <<file, board>>
    BY RebootIs
  <1> QED
    BY <1>1, <1>4, <1>5, <1>6, <1>7 DEF FlashInv
-------------------------------------------------------------------------------
(* ProgressInv.                                                            *)

\* While one task is inside storage_write the other changes no file.
LEMMA WriterAlone ==
  ASSUME TypeOK, ProgressInv, NEW s \in Savers, FileStep(s), NEW t \in Savers, t # s, Writing(t)
  PROVE  UNCHANGED file
  <1>1. ~Writing(s)
    BY DEF TypeOK
  <1>2. Open(s)
    BY <1>1, WriteIs, OpenSdIs, WriteSdIs DEF FileStep, Writing
  <1> QED
    BY <1>2, OpenIs DEF StorageFree

\* The task that takes a step of storage_write.
LEMMA FileStepSaver ==
  ASSUME TypeOK, ProgressInv, NEW s \in Savers, FileStep(s)
  PROVE  SaverInv(s)'
  <1>0. /\ UNCHANGED <<cred, board>> /\ cred[s] \in period /\ name[s] \in Written
        /\ name[s] \in Files /\ "flash" \in Media /\ "sd" \in Media
        /\ result[s] \in {"OK", "FAIL"} /\ (result[s] = "FAIL" => faults > 0)
        /\ faults \in Nat /\ (Fault => faults' > 0)
    BY FileStepFrame, ConstantsAssumption, FaultCounts DEF ProgressInv, SaverInv, TypeOK, Media
  <1>1. CASE Put(s, "flash", Torn) /\ Moves(s, "write", "OK")
    <2>1. file'[name[s]]["flash"] = Torn
      BY <1>0, <1>1, PutEffect
    <2>2. pc'[s] = "write" /\ name'[s] = name[s] /\ result'[s] = "OK" /\ UNCHANGED period
      BY <1>0, <1>1, MovesFrame
    <2> QED
      BY <1>0, <2>1, <2>2 DEF SaverInv, Fields, Clearing
  <1>2. CASE \E r \in {"OK", "FAIL"} : board = "sd" /\ Moves(s, "openSd", r) /\ (r = "OK" \/ Fault)
    <2>1. PICK r \in {"OK", "FAIL"} : board = "sd" /\ Moves(s, "openSd", r) /\ (r = "OK" \/ Fault)
      BY <1>2
    <2>2. pc'[s] = "openSd" /\ name'[s] = name[s] /\ result'[s] = r /\ UNCHANGED period
      BY <1>0, <2>1, MovesFrame
    <2> QED
      BY <1>0, <2>1, <2>2 DEF SaverInv, Fields, Clearing
  <1>3. CASE /\ board = "sd" /\ Put(s, "sd", Torn) /\ Moves(s, "writeSd", result[s])
             /\ UNCHANGED faults
    <2>1. file'[name[s]]["sd"] = Torn
      BY <1>0, <1>3, PutEffect
    <2>2. pc'[s] = "writeSd" /\ name'[s] = name[s] /\ result'[s] = result[s] /\ UNCHANGED period
      BY <1>0, <1>3, MovesFrame
    <2> QED
      BY <1>0, <1>3, <2>1, <2>2 DEF SaverInv, Fields, Clearing
  <1>4. CASE NextFile(s) /\ result[s] = "OK"
    <2>1. pc'[s] = "open" /\ name'[s] = "azure" /\ result'[s] = "OK" /\ UNCHANGED period
      BY <1>0, <1>4, NextFileFrame
    <2> QED
      BY <1>0, <2>1 DEF SaverInv, Fields, Clearing, Written
  <1>5. CASE \E e \in {"OK", "FAIL"} : Returns(s, e)
    <2>1. pc'[s] = "idle" /\ name'[s] = "mqtt" /\ result'[s] = "OK"
      BY <1>0, <1>5, ReturnsFrame
    <2> QED
      BY <2>1 DEF SaverInv, Fields, Clearing, Written, Active, InFile
  <1>6. CASE Open(s)
    BY <1>1, <1>2, <1>5, <1>6, OpenIs
  <1>7. CASE Write(s)
    BY <1>0, <1>2, <1>4, <1>5, <1>7, WriteIs
  <1>8. CASE OpenSd(s)
    BY <1>3, <1>4, <1>5, <1>8, OpenSdIs
  <1>9. CASE WriteSd(s)
    BY <1>4, <1>5, <1>9, WriteSdIs
  <1> QED
    BY <1>6, <1>7, <1>8, <1>9 DEF FileStep

\* What a step of storage_write does to the judgement.
LEMMA FileStepJudging ==
  ASSUME TypeOK, ProgressInv, NEW s \in Savers, FileStep(s)
  PROVE  /\ period' \subseteq allowed'
         /\ (\E t \in Savers : t # s /\ Active(t)) => UNCHANGED period
         /\ UNCHANGED early
  <1>0. UNCHANGED cred /\ InFile(s) /\ Active(s) /\ period \subseteq allowed
    BY FileStepFrame DEF ProgressInv
  <1>1. CASE \E l, r : Moves(s, l, r)
    BY <1>0, <1>1, MovesFrame
  <1>2. CASE NextFile(s)
    BY <1>0, <1>2, NextFileFrame
  <1>3. CASE \E e \in {"OK", "FAIL"} : Returns(s, e)
    BY <1>0, <1>3, ReturnsFrame, ReturnsJudging
  <1> QED
    BY <1>1, <1>2, <1>3, OpenIs, WriteIs, OpenSdIs, WriteSdIs DEF FileStep

\* The other task, meanwhile.
LEMMA FileStepOther ==
  ASSUME TypeOK, ProgressInv, NEW s \in Savers, FileStep(s), NEW t \in Savers, t # s
  PROVE  SaverInv(t)'
  <1>1. /\ pc'[t] = pc[t] /\ name'[t] = name[t] /\ result'[t] = result[t] /\ cred'[t] = cred[t]
        /\ UNCHANGED board /\ SaverInv(t)
    BY FileStepIsLocal, FileStepFrame DEF Others, ProgressInv
  <1>2. faults > 0 => faults' > 0
    BY FileStepFaults
  <1>3. Active(t) => UNCHANGED period
    BY FileStepJudging
  <1>4. pc[t] \in {"write", "writeSd"} => UNCHANGED file
    BY WriterAlone DEF Writing
  <1> QED
    BY <1>1, <1>2, <1>3, <1>4 DEF SaverInv, Active, InFile

\* ProgressInv after a step of storage_write.
LEMMA FileStepProgress ==
  ASSUME TypeOK, ProgressInv, NEW s \in Savers, FileStep(s)
  PROVE  ProgressInv'
  BY FileStepSaver, FileStepOther, FileStepJudging DEF ProgressInv

\* ProgressInv after every other step.
LEMMA OtherProgress ==
  ASSUME TypeOK, ProgressInv,
         \/ \E s \in Savers, c \in Creds : Begin(s, c)
         \/ \E s \in Savers : SaveKey(s)
         \/ ClearBegin \/ Clear \/ Load \/ Reboot
  PROVE  ProgressInv'
  <1>1. ASSUME NEW s \in Savers, NEW c \in Creds, Begin(s, c) PROVE ProgressInv'
    <2>1. \A t \in Savers : /\ pc'[t] = IF t = s THEN "host" ELSE pc[t]
                            /\ cred'[t] = IF t = s THEN c ELSE cred[t]
      BY <1>1 DEF Begin, Goto, TypeOK
    <2>2. /\ UNCHANGED <<file, name, result, board, faults>> /\ pc[s] = "idle"
          /\ period' = period \union {c} /\ allowed' = allowed \union {c}
      BY <1>1 DEF Begin, flash, card
    <2>3. ASSUME NEW t \in Savers PROVE SaverInv(t)'
      <3>1. SaverInv(t)
        BY DEF ProgressInv
      <3> QED
        BY <2>1, <2>2, <3>1 DEF SaverInv, Active, InFile, Fields, Clearing
    <2> QED
      BY <2>2, <2>3 DEF ProgressInv
  <1>2. ASSUME NEW s \in Savers, SaveKey(s) PROVE ProgressInv'
    <2>1. \A t \in Savers : pc'[t] = IF t = s THEN NextField(pc[s]) ELSE pc[t]
      BY <1>2 DEF SaveKey, Goto, TypeOK
    <2>2. /\ UNCHANGED <<file, name, result, cred, board, period, allowed>> /\ pc[s] \in Fields
          /\ faults \in Nat /\ (UNCHANGED faults \/ faults' = faults + 1)
      BY <1>2, ConstantsAssumption DEF SaveKey, judging, card, TypeOK, Fault
    <2>3. NextField(pc[s]) \in {"dev", "sak", "open"}
      BY <2>2, NextFieldType
    <2>4. ASSUME NEW t \in Savers PROVE SaverInv(t)'
      <3>1. SaverInv(t)
        BY DEF ProgressInv
      <3>2. faults > 0 => faults' > 0
        BY <2>2
      <3>3. CASE t # s
        BY <2>1, <2>2, <3>1, <3>2, <3>3 DEF SaverInv, Active, InFile
      <3>4. CASE t = s
        <4>1. /\ name[s] = "mqtt" /\ cred[s] \in period /\ result[s] # "FAIL"
              /\ pc'[s] \in {"dev", "sak", "open"}
          BY <2>1, <2>2, <2>3, <3>1, <3>4 DEF SaverInv, Active, Fields
        <4> QED
          BY <2>2, <3>4, <4>1 DEF SaverInv, Clearing, Written
      <3> QED
        BY <3>3, <3>4
    <2> QED
      BY <2>2, <2>4 DEF ProgressInv
  <1>3. CASE ClearBegin
    <2>1. \A t \in Savers : pc'[t] = IF t = "mqtt" THEN "clear1" ELSE pc[t]
      BY <1>3 DEF ClearBegin, Goto, TypeOK
    <2>2. /\ UNCHANGED <<file, name, result, cred, board, period, allowed, faults>>
          /\ pc["mqtt"] = "idle" /\ board = "sd"
      BY <1>3 DEF ClearBegin, flash, judging, card
    <2>3. ASSUME NEW t \in Savers PROVE SaverInv(t)'
      <3>1. SaverInv(t)
        BY DEF ProgressInv
      <3> QED
        BY <2>1, <2>2, <3>1 DEF SaverInv, Active, InFile, Fields, Clearing
    <2> QED
      BY <2>2, <2>3 DEF ProgressInv
  <1>4. CASE Clear
    <2>1. /\ UNCHANGED <<result, cred, board, period, allowed>>
          /\ "mqtt" \in Savers /\ pc["mqtt"] \in {"clear1", "clear2"} /\ faults \in Nat
      BY <1>4, ConstantsAssumption DEF Clear, judging, Clearing, TypeOK
    <2>2. PICK k \in {"mqtt", "azure"} :
            /\ \A t \in Savers : t # "mqtt" => pc'[t] = pc[t] /\ name'[t] = name[t]
            /\ \/ pc["mqtt"] = "clear1" /\ pc'["mqtt"] = "clear2" /\ name'["mqtt"] = k
               \/ /\ pc["mqtt"] = "clear2" /\ pc'["mqtt"] = "idle" /\ name["mqtt"] # k
                  /\ name'["mqtt"] = "mqtt"
            /\ \/ /\ \A f \in Files, m \in Media :
                       file'[f][m] =
                         IF m = "sd" /\ (f = k \/ (f = "legacy" /\ pc["mqtt"] = "clear2"))
                           THEN None ELSE file[f][m]
                  /\ UNCHANGED faults
               \/ UNCHANGED file /\ Fault /\ stale' = TRUE
      BY <1>4, ClearIs
    <2>3. \A f \in Files : /\ file'[f]["flash"] = file[f]["flash"]
                           /\ file'[f]["sd"] \in {file[f]["sd"], None}
      BY <2>2 DEF Media
    <2>4. faults > 0 => faults' > 0
      BY <2>1, <2>2, FaultCounts
    <2>5. ASSUME NEW t \in Savers PROVE SaverInv(t)'
      <3>1. SaverInv(t) /\ name[t] \in Files
        BY DEF ProgressInv, TypeOK
      <3>2. CASE t # "mqtt"
        <4>1. pc'[t] = pc[t] /\ name'[t] = name[t]
          BY <2>2, <3>2
        <4> QED
          BY <2>1, <2>3, <2>4, <3>1, <4>1 DEF SaverInv, Active, InFile
      <3>3. CASE t = "mqtt"
        <4>1. result[t] # "FAIL" /\ board = "sd"
          BY <2>1, <3>1, <3>3 DEF SaverInv, Clearing
        <4>2. \/ pc'[t] = "clear2" /\ name'[t] \in Written
              \/ pc'[t] = "idle" /\ name'[t] = "mqtt"
          BY <2>2, <3>3 DEF Written
        <4> QED
          BY <2>1, <4>1, <4>2 DEF SaverInv, Active, InFile, Fields, Written
      <3> QED
        BY <3>2, <3>3
    <2> QED
      BY <2>1, <2>5 DEF ProgressInv
  <1>5. CASE Load
    <2>1. /\ UNCHANGED <<file, pc, name, cred, result, allowed, period, board>>
          /\ UNCHANGED faults \/ Fault
      BY <1>5, LoadIsQuiet DEF Quiet
    <2>2. faults > 0 => faults' > 0
      BY <2>1, FaultCounts, ConstantsAssumption DEF TypeOK
    <2>3. ASSUME NEW t \in Savers PROVE SaverInv(t)'
      <3>1. SaverInv(t)
        BY DEF ProgressInv
      <3> QED
        BY <2>1, <2>2, <3>1 DEF SaverInv, Active, InFile
    <2> QED
      BY <2>1, <2>3 DEF ProgressInv
  <1>6. CASE Reboot
    <2>1. \A t \in Savers : SaverInv(t)'
      BY <1>6, RebootIs DEF Idle, SaverInv, Active, InFile, Fields, Clearing, Written
    <2> QED
      BY <1>6, <2>1, RebootIs DEF ProgressInv
  <1> QED
    BY <1>1, <1>2, <1>3, <1>4, <1>5, <1>6

-------------------------------------------------------------------------------
(* CardInv.                                                                *)

\* The parts of CardInv on a board with a card.
CardState ==
    /\ \A k \in Written : KeepsUp(k, "sd")
    /\ faults = 0 => \A k \in Written : ~Broken(k, "sd")
    /\ ~Broken("mqtt", "sd") \/ ~Broken("azure", "sd")
    /\ file["legacy"]["sd"] # None /\ (\A s \in Savers : pc[s] # "clear2")
         => \A k \in Written : file[k]["sd"] # None

\* The same, named.
LEMMA CardParts ==
  /\ board = "sd" => (CardInv <=> (Orderly => CardState))
  /\ board # "sd" => (CardInv <=> \A k \in Files : file[k]["sd"] = None)
  BY DEF CardInv, CardState

\* After a step as well.
LEMMA CardPartsNext ==
  /\ board' = "sd" /\ (Orderly' => CardState') => CardInv'
  /\ board' # "sd" /\ (\A k \in Files : file'[k]["sd"] = None) => CardInv'
  BY DEF CardInv, CardState

\* A card that is in order was so before.
LEMMA OrderlyBefore ==
  ASSUME faults \in Nat, UNCHANGED faults \/ faults' = faults + 1, stale => stale', Orderly'
  PROVE  Orderly /\ (faults' = faults + 1 => ~stale' /\ faults = 0)
  BY DEF Orderly

\* What a step of storage_write makes of the files on the card.
LEMMA CardEffect ==
  ASSUME TypeOK, ProgressInv, NEW s \in Savers, FileStep(s), NEW k \in Files
  PROVE  /\ \/ file'[k]["sd"] = file[k]["sd"]
            \/ k = name[s] /\ file'[k]["sd"] \in {Torn, cred[s]}
         /\ board # "sd" => file'[k]["sd"] = file[k]["sd"]
         /\ stale => stale'
  <1>1. "flash" \in Media /\ "sd" \in Media
    BY DEF Media
  <1>2. \/ UNCHANGED file \/ (\E y : Put(s, "flash", y))
        \/ board = "sd" /\ \E y \in {Torn, cred[s]} : Put(s, "sd", y)
    BY OpenIs, WriteIs, OpenSdIs, WriteSdIs DEF FileStep
  <1>3. stale => stale'
    BY OpenIs, WriteIs, OpenSdIs, WriteSdIs DEF FileStep
  <1> QED
    BY <1>1, <1>2, <1>3, PutEffect

\* A step of storage_write leaves the files on the card as new as they have to be, unless it
\* leaves one as it was, which stale records.
LEMMA CardKeepsUp ==
  ASSUME TypeOK, ProgressInv, NEW s \in Savers, FileStep(s), board = "sd",
         stale' => UNCHANGED faults,
         NEW k \in Written, KeepsUp(k, "sd")
  PROVE  KeepsUp(k, "sd")'
  <1> DEFINE x == file'[k]["sd"]
  <1>0. /\ UNCHANGED <<cred, board>> /\ InFile(s) /\ Active(s)
        /\ "flash" \in Media /\ "sd" \in Media /\ "sd" # "flash"
        /\ k \in Files /\ name[s] \in Files
    BY FileStepFrame DEF Media, Written, Files, TypeOK
  <1>1. UNCHANGED file => UpToDate(k, "sd", x)
    BY DEF KeepsUp
  <1>2. ASSUME NEW l, NEW r, Moves(s, l, r), UpToDate(k, "sd", x) PROVE KeepsUp(k, "sd")'
    BY <1>0, <1>2, MovesKeepsUp
  <1>3. \A y : Put(s, "flash", y) => UpToDate(k, "sd", x)
    BY <1>0, PutEffect DEF KeepsUp
  <1>4. CASE Open(s)
    <2>1. ~(Fault /\ stale')
      BY FaultCounts
    <2> HIDE DEF x
    <2> QED
      BY <1>1, <1>2, <1>3, <1>4, <2>1, OpenIs
  <1>5. CASE Write(s)
    <2> HIDE DEF x
    <2> QED
      BY <1>1, <1>2, <1>3, <1>5, WriteIs
  <1>6. CASE OpenSd(s)
    <2>1. ~(Fault /\ stale')
      BY FaultCounts
    <2>2. Put(s, "sd", Torn) /\ Moves(s, "writeSd", result[s])
      BY <1>6, <2>1, OpenSdIs
    <2>3. UpToDate(k, "sd", x)
      BY <1>0, <2>2, PutEffect, TornUpToDate DEF KeepsUp
    <2> QED
      BY <1>2, <2>2, <2>3
  <1>7. CASE WriteSd(s)
    <2>1. /\ \/ NextFile(s)
             \/ \E e \in {"OK", "FAIL"} : Returns(s, e)
          /\ UNCHANGED file \/ Put(s, "sd", cred[s])
          /\ file[name[s]]["sd"] \in {Torn, None}
      BY <1>7, WriteSdIs
    <2>2. UpToDate(k, "sd", x) /\ (k = name[s] => x \in period \union Gap("sd"))
      <3>1. CASE UNCHANGED file
        BY <1>1, <2>1, <3>1 DEF Gap
      <3>2. CASE Put(s, "sd", cred[s])
        BY <1>0, <3>2, PutEffect, CredUpToDate DEF KeepsUp
      <3> QED
        BY <2>1, <3>1, <3>2
    <2> HIDE DEF x
    <2>3. CASE NextFile(s)
      <3>1. k = "mqtt" => x \in period \union Gap("sd")
        BY <2>2, <2>3 DEF NextFile
      <3> QED
        BY <1>0, <2>2, <2>3, <3>1, LeavesKeepsUp DEF x
    <2>4. CASE \E e \in {"OK", "FAIL"} : Returns(s, e)
      BY <1>0, <2>2, <2>4, LeavesKeepsUp DEF x
    <2> QED
      BY <2>1, <2>3, <2>4
  <1> QED
    BY <1>4, <1>5, <1>6, <1>7 DEF FileStep

\* A file on the card is broken by a write that fails, and by nothing else.
LEMMA CardStaysUnbroken ==
  ASSUME TypeOK, ProgressInv, NEW s \in Savers, FileStep(s),
         NEW k \in Written, ~Broken(k, "sd"),
         k = name[s] => UNCHANGED faults
  PROVE  ~Broken(k, "sd")'
  <1>0. /\ Others(s) /\ UNCHANGED cred
        /\ "flash" \in Media /\ "sd" \in Media /\ k \in Files /\ "sd" # "flash"
    BY FileStepFrame, FileStepIsLocal DEF Media, Written, Files
  <1>1. cred[s] # Torn /\ None # Torn
    BY ConstantsAssumption DEF TypeOK
  <1>2. \A y : Put(s, "flash", y) => file'[k]["sd"] = file[k]["sd"]
    BY <1>0, PutEffect
  <1>3. file'[k]["sd"] = Torn => \/ file[k]["sd"] = Torn
                                 \/ name'[s] = k /\ pc'[s] = "writeSd"
    <2>1. CASE Open(s) \/ Write(s)
      BY <1>2, <2>1, OpenIs, WriteIs
    <2>2. CASE OpenSd(s)
      <3>1. CASE Put(s, "sd", Torn) /\ Moves(s, "writeSd", result[s])
        BY <1>0, <3>1, PutEffect, MovesFrame
      <3> QED
        BY <2>2, <3>1, OpenSdIs
    <2>3. CASE WriteSd(s)
      BY <1>0, <1>1, <2>3, WriteSdIs, PutEffect
    <2> QED
      BY <2>1, <2>2, <2>3 DEF FileStep
  <1>4. name[s] = k /\ pc[s] = "writeSd" => file'[k]["sd"] # Torn
    <2> SUFFICES ASSUME name[s] = k, pc[s] = "writeSd" PROVE file'[k]["sd"] # Torn
      OBVIOUS
    <2>1. WriteSd(s)
      BY OpenIs, WriteIs, OpenSdIs DEF FileStep
    <2>2. \/ file[name[s]]["sd"] = None /\ UNCHANGED file
          \/ Put(s, "sd", cred[s])
      BY <2>1, WriteSdIs, FaultCounts
    <2> QED
      BY <1>0, <1>1, <2>2, PutEffect
  <1> QED
    BY <1>0, <1>3, <1>4, StaysUnbroken DEF WriteStep

\* CardInv after a step of storage_write.
LEMMA FileStepCard ==
  ASSUME TypeOK, ProgressInv, CardInv, NEW s \in Savers, FileStep(s)
  PROVE  CardInv'
  <1>1. UNCHANGED board
    BY FileStepFrame
  <1>2. CASE board # "sd"
    BY <1>1, <1>2, CardParts, CardPartsNext, CardEffect
  <1>3. CASE board = "sd"
    <2> SUFFICES ASSUME Orderly' PROVE CardState'
      BY <1>1, <1>3, CardPartsNext
    <2>1. faults \in Nat /\ (UNCHANGED faults \/ faults' = faults + 1)
      BY FileStepFaults
    <2>2. Orderly /\ (faults' = faults + 1 => ~stale' /\ faults = 0)
      <3>1. stale => stale'
        BY CardEffect DEF Files
      <3> QED
        BY <2>1, <3>1, OrderlyBefore
    <2>3. CardState
      BY <1>3, <2>2, CardParts
    <2>4. \A k \in Written : KeepsUp(k, "sd")'
      BY <1>3, <2>1, <2>2, <2>3, CardKeepsUp DEF CardState
    <2>5. \A k \in Written : ~Broken(k, "sd") /\ (k = name[s] => UNCHANGED faults)
                               => ~Broken(k, "sd")'
      BY CardStaysUnbroken
    <2>6. faults' = 0 => \A k \in Written : ~Broken(k, "sd")'
      <3>1. faults' = 0 => faults = 0 /\ UNCHANGED faults
        BY <2>1
      <3> QED
        BY <2>3, <2>5, <3>1 DEF CardState
    <2>7. ~Broken("mqtt", "sd")' \/ ~Broken("azure", "sd")'
      <3>1. CASE UNCHANGED faults
        BY <2>3, <2>5, <3>1 DEF CardState, Written
      <3>2. CASE faults' = faults + 1
        <4>1. \A k \in Written : k # name[s] => ~Broken(k, "sd")'
          BY <2>2, <2>3, <2>5, <3>2 DEF CardState
        <4> QED
          BY <4>1 DEF Written
      <3> QED
        BY <2>1, <3>1, <3>2
    <2>8. file'["legacy"]["sd"] # None /\ (\A t \in Savers : pc'[t] # "clear2")
            => \A k \in Written : file'[k]["sd"] # None
      <3> SUFFICES ASSUME file'["legacy"]["sd"] # None, \A t \in Savers : pc'[t] # "clear2",
                          NEW k \in Written
                   PROVE  file'[k]["sd"] # None
        OBVIOUS
      <3>1. \A t \in Savers : pc[t] # "clear2"
        BY FileStepIsLocal, FileStepFrame DEF Others, InFile
      <3>2. file["legacy"]["sd"] # None
        BY CardEffect DEF Files, ProgressInv, SaverInv, Written
      <3>3. file[k]["sd"] # None
        BY <2>3, <3>1, <3>2 DEF CardState
      <3>4. None # Torn /\ cred[s] # None
        BY ConstantsAssumption DEF TypeOK
      <3> QED
        BY <3>3, <3>4, CardEffect DEF Files, Written
    <2> QED
      BY <2>4, <2>6, <2>7, <2>8 DEF CardState
  <1> QED
    BY <1>2, <1>3

\* CardInv after a quiet step that leaves the card alone.
LEMMA QuietCard ==
  ASSUME TypeOK, CardInv, Quiet, UNCHANGED <<file, stale>>,
         \A t \in Savers : pc[t] = "clear2" => pc'[t] = "clear2"
  PROVE  CardInv'
  <1>1. UNCHANGED board
    BY DEF Quiet
  <1>2. CASE board # "sd"
    BY <1>1, <1>2, CardParts, CardPartsNext
  <1>3. CASE board = "sd"
    <2> SUFFICES ASSUME Orderly' PROVE CardState'
      BY <1>1, <1>3, CardPartsNext
    <2>1. faults \in Nat /\ (UNCHANGED faults \/ faults' = faults + 1)
      BY ConstantsAssumption, FaultCounts DEF TypeOK, Quiet
    <2>2. Orderly /\ (faults' = 0 => faults = 0)
      BY <2>1, OrderlyBefore
    <2>3. CardState
      BY <1>3, <2>2, CardParts
    <2>4. \A k \in Written : /\ KeepsUp(k, "sd") => KeepsUp(k, "sd")'
                             /\ Broken(k, "sd")' <=> Broken(k, "sd")
      BY QuietSound DEF Media
    <2>5. /\ \A k \in Written : KeepsUp(k, "sd")'
          /\ faults' = 0 => \A k \in Written : ~Broken(k, "sd")'
          /\ ~Broken("mqtt", "sd")' \/ ~Broken("azure", "sd")'
      BY <2>2, <2>3, <2>4 DEF CardState, Written
    <2>6. file'["legacy"]["sd"] # None /\ (\A t \in Savers : pc'[t] # "clear2")
            => \A k \in Written : file'[k]["sd"] # None
      BY <2>3 DEF CardState
    <2> QED
      BY <2>5, <2>6 DEF CardState
  <1> QED
    BY <1>2, <1>3

\* CardInv after clear_sd has removed something, or has failed to.
LEMMA ClearCard ==
  ASSUME TypeOK, ProgressInv, CardInv, Clear
  PROVE  CardInv'
  <1>0. "mqtt" \in Savers /\ pc["mqtt"] \in Clearing /\ faults \in Nat
    BY ConstantsAssumption DEF Clear, TypeOK
  <1>1. Quiet /\ "mqtt" \in Savers /\ faults \in Nat
    BY <1>0, ClearIsQuiet
  <1>2. board = "sd" /\ UNCHANGED board
    BY <1>0, <1>1 DEF ProgressInv, SaverInv, Quiet
  <1> SUFFICES ASSUME Orderly' PROVE CardState'
    BY <1>2, CardPartsNext
  <1>3. stale => stale'
    BY DEF Clear
  <1>4. UNCHANGED faults \/ faults' = faults + 1
    BY <1>1, FaultCounts DEF Quiet
  <1>5. CardState /\ (faults' = faults + 1 => ~stale')
    BY <1>1, <1>2, <1>3, <1>4, OrderlyBefore, CardParts
  <1>6. PICK k \in {"mqtt", "azure"} :
           /\ \A t \in Savers : t # "mqtt" => pc'[t] = pc[t] /\ name'[t] = name[t]
           /\ \/ pc["mqtt"] = "clear1" /\ pc'["mqtt"] = "clear2" /\ name'["mqtt"] = k
              \/ /\ pc["mqtt"] = "clear2" /\ pc'["mqtt"] = "idle" /\ name["mqtt"] # k
                 /\ name'["mqtt"] = "mqtt"
           /\ \/ /\ \A f \in Files, m \in Media :
                      file'[f][m] =
                        IF m = "sd" /\ (f = k \/ (f = "legacy" /\ pc["mqtt"] = "clear2"))
                          THEN None ELSE file[f][m]
                 /\ UNCHANGED faults
              \/ UNCHANGED file /\ Fault /\ stale' = TRUE
    BY ClearIs
  <1>7. /\ UNCHANGED faults
        /\ \A f \in Files :
             file'[f]["sd"] = IF f = k \/ (f = "legacy" /\ pc["mqtt"] = "clear2")
                                THEN None ELSE file[f]["sd"]
    BY <1>5, <1>6, FaultCounts DEF Media
  <1>8. ASSUME NEW j \in Written PROVE KeepsUp(j, "sd")' /\ (Broken(j, "sd")' => Broken(j, "sd"))
    <2>1. file'[j]["sd"] = None \/ file'[j]["sd"] = file[j]["sd"]
      BY <1>7 DEF Written, Files
    <2>2. KeepsUp(j, "sd") /\ "sd" \in Media
      BY <1>5 DEF CardState, Media
    <2>3. UpToDate(j, "sd", file'[j]["sd"])
      BY <2>1, <2>2 DEF KeepsUp, UpToDate, MayMiss, Gap
    <2>4. KeepsUp(j, "sd")'
      BY <1>1, <2>2, <2>3, QuietKeepsUp
    <2>5. None # Torn
      BY ConstantsAssumption
    <2>6. Broken(j, "sd")' => Broken(j, "sd")
      BY <1>1, <2>1, <2>5, QuietWriters DEF Broken
    <2> QED
      BY <2>4, <2>6
  <1>9. /\ faults' = 0 => \A j \in Written : ~Broken(j, "sd")'
        /\ ~Broken("mqtt", "sd")' \/ ~Broken("azure", "sd")'
    BY <1>5, <1>7, <1>8 DEF CardState, Written
  <1>10. file'["legacy"]["sd"] # None /\ (\A t \in Savers : pc'[t] # "clear2")
           => \A j \in Written : file'[j]["sd"] # None
    BY <1>1, <1>6, <1>7 DEF Files
  <1> QED
    BY <1>8, <1>9, <1>10 DEF CardState

\* CardInv after a reset.
LEMMA RebootCard ==
  ASSUME TypeOK, CardInv, Reboot
  PROVE  CardInv'
  <1>1. UNCHANGED <<board, file>>
    BY RebootIs
  <1>2. CASE board # "sd"
    BY <1>1, <1>2, CardParts, CardPartsNext
  <1>3. CASE board = "sd"
    <2> SUFFICES ASSUME Orderly' PROVE CardState'
      BY <1>1, <1>3, CardPartsNext
    <2>0. faults \in Nat
      BY ConstantsAssumption DEF TypeOK
    <2>1. /\ UNCHANGED faults \/ faults' = faults + 1
          /\ stale => stale'
      BY RebootIs
    <2>2. Orderly /\ (faults' = faults + 1 => ~stale' /\ faults = 0)
      BY <2>0, <2>1, OrderlyBefore
    <2>3. CardState
      BY <1>3, <2>2, CardParts
    <2>4. \A k \in Written : KeepsUp(k, "sd")'
      BY <2>3, RebootKeepsUp DEF CardState
    <2>5. /\ UNCHANGED faults => \A k : ~Broken(k, "sd") => ~Broken(k, "sd")'
          /\ ~Broken("mqtt", "sd") /\ ~Broken("azure", "sd")
                => ~Broken("mqtt", "sd")' \/ ~Broken("azure", "sd")'
      BY RebootBreaks DEF Media
    <2>6. faults' = 0 => \A k \in Written : ~Broken(k, "sd")'
      <3>1. faults' = 0 => faults = 0 /\ UNCHANGED faults
        BY <2>0, <2>1
      <3> QED
        BY <2>3, <2>5, <3>1 DEF CardState
    <2>7. ~Broken("mqtt", "sd")' \/ ~Broken("azure", "sd")'
      BY <2>1, <2>2, <2>3, <2>5 DEF CardState, Written
    <2>8. \A s \in Savers : pc[s] # "clear2"
      <3>1. CASE Idle
        BY <3>1 DEF Idle
      <3>2. CASE faults' = faults + 1
        BY <2>2, <3>2, RebootIs DEF Clearing
      <3> QED
        BY <3>1, <3>2, RebootIs
    <2>9. file'["legacy"]["sd"] # None => \A k \in Written : file'[k]["sd"] # None
      BY <1>1, <2>3, <2>8 DEF CardState
    <2> QED
      BY <2>4, <2>6, <2>7, <2>9 DEF CardState
  <1> QED
    BY <1>2, <1>3

-------------------------------------------------------------------------------
(* BootInv and KeysInv.                                                    *)

\* A step that leaves the boot where it is, and comes after the boot or counts as one that
\* came while it read.
LEMMA BootStays ==
  ASSUME BootInv, UNCHANGED <<boot, board>>, early' \/ boot = "done",
         faults \in Nat, UNCHANGED faults \/ faults' = faults + 1,
         board = "flash" /\ UNCHANGED faults /\ Sound("azure", "flash")
           => Sound("azure", "flash")'
  PROVE  BootInv'
  <1>1. InNvs' <=> InNvs
    BY DEF InNvs
  <1>2. /\ faults > 0 => faults' > 0
        /\ faults > 1 => faults' > 1
        /\ faults > 0 /\ faults' <= 1 => faults <= 1 /\ UNCHANGED faults
    OBVIOUS
  <1>3. board' = "flash" =>
          /\ boot' = "flash2" => faults' > 0 /\ (faults' <= 1 => Sound("azure", "flash")')
          /\ boot' = "flash3" \/ InNvs' => faults' > 1
    BY <1>1, <1>2 DEF BootInv
  <1>4. /\ boot' \in {"sd1", "sd2", "sd3", "scan"} => board' = "sd"
        /\ InNvs' => board' \in {"fresh", "flash"}
    BY <1>1 DEF BootInv
  <1>5. ~early' => boot' = "done" /\ ~InNvs'
    BY DEF InNvs
  <1> QED
    BY <1>3, <1>4, <1>5 DEF BootInv

\* KeysInv after such a step.
LEMMA KeysStay ==
  ASSUME KeysInv, UNCHANGED <<boot, loaded, board>>, early' \/ boot = "done",
         file["mqtt"]["flash"] # None => file'["mqtt"]["flash"] # None,
         ~(board = "fresh" /\ faults' = 0 /\ file'["mqtt"]["flash"] = None /\ Idle')
  PROVE  KeysInv'
  <1>1. /\ boot' \in DOMAIN Places \union {"scan", "nvsHost"} => loaded' = Blank
        /\ boot' = "nvsDev" => loaded'["dev"] = None /\ loaded'["sak"] = None
        /\ boot' = "nvsSak" => loaded'["sak"] = None
    BY DEF KeysInv
  <1>2. board' = "fresh" /\ boot' \in Fields => file'["mqtt"]["flash"] # None
    BY DEF KeysInv
  <1>3. board' = "fresh" /\ faults' = 0 /\ ~early' =>
              /\ boot' \in {"nvsDev", "nvsSak"} => loaded'["host"] = BootCred
              /\ boot' = "nvsSak" => loaded'["dev"] = BootCred
    OBVIOUS
  <1> QED
    BY <1>1, <1>2, <1>3 DEF KeysInv

\* A step of a save under way, or of clear_sd, does not come while a boot reads undisturbed.
LEMMA BusyBoot ==
  ASSUME BootInv, UNCHANGED early, ~Idle \/ boot = "done"
  PROVE  early' \/ boot = "done"
  BY DEF BootInv

\* Both after a step of storage_write.
LEMMA FileStepBoot ==
  ASSUME TypeOK, ProgressInv, FlashInv, BootInv, KeysInv, NEW s \in Savers, FileStep(s)
  PROVE  BootInv' /\ KeysInv'
  <1>1. /\ UNCHANGED <<boot, loaded, board>> /\ faults \in Nat
        /\ UNCHANGED faults \/ faults' = faults + 1
        /\ name[s] \in Written /\ InFile(s)
    BY FileStepFrame, FileStepFaults DEF ProgressInv, SaverInv
  <1>2. early' \/ boot = "done"
    <2>1. ~Idle
      BY FileStepFrame DEF Idle, InFile
    <2> QED
      BY <2>1, BusyBoot, FileStepJudging
  <1>3. board = "flash" /\ UNCHANGED faults /\ Sound("azure", "flash") => Sound("azure", "flash")'
    <2> SUFFICES ASSUME board = "flash", UNCHANGED faults, Sound("azure", "flash")
                 PROVE  Sound("azure", "flash")'
      OBVIOUS
    <2>1. result[s] = "OK"
      BY DEF ProgressInv, SaverInv, TypeOK
    <2> QED
      BY <2>1, SecondStaysSound
  <1>4. None # Torn /\ cred[s] # None
    BY ConstantsAssumption DEF TypeOK
  <1>5. file["mqtt"]["flash"] # None => file'["mqtt"]["flash"] # None
    BY <1>4, FlashEffect DEF Files
  <1>6. ~(board = "fresh" /\ faults' = 0 /\ file'["mqtt"]["flash"] = None /\ Idle')
    <2> SUFFICES ASSUME board = "fresh", faults' = 0, file'["mqtt"]["flash"] = None, Idle'
                 PROVE  FALSE
      OBVIOUS
    <2>1. UNCHANGED faults /\ file["mqtt"]["flash"] = None /\ pc'[s] = "idle"
      BY <1>1, <1>5 DEF Idle
    <2>2. name[s] = "mqtt"
      <3> SUFFICES ASSUME name[s] = "azure" PROVE FALSE
        BY <1>1 DEF Written
      <3>1. Renewed("mqtt", "flash")
        BY <1>1, PastFirst DEF Media
      <3>2. None \notin period \union {Torn}
        BY ConstantsAssumption DEF TypeOK
      <3> QED
        BY <2>1, <3>1, <3>2 DEF FlashInv, KeepsUp, UpToDate, Gap
    <2>3. ~Write(s)
      BY <1>4, <2>1, <2>2, WriteIs
    <2>4. ~Open(s)
      <3>1. ~(Moves(s, "write", "OK") /\ UNCHANGED cred)
        BY <2>1, MovesFrame
      <3> QED
        BY <2>1, <3>1, OpenIs, FaultCounts, FileStepFrame
    <2> QED
      BY <2>3, <2>4, OpenSdIs, WriteSdIs DEF FileStep
  <1> QED
    BY <1>1, <1>2, <1>3, <1>5, <1>6, BootStays, KeysStay

\* Both after a save begins or writes a key, and after a step of clear_sd.
LEMMA QuietBoot ==
  ASSUME TypeOK, ProgressInv, BootInv, KeysInv,
         \/ \E s \in Savers, c \in Creds : Begin(s, c)
         \/ \E s \in Savers : SaveKey(s)
         \/ ClearBegin \/ Clear
  PROVE  BootInv' /\ KeysInv'
  <1>1. Quiet
    BY BeginIsQuiet, SaveKeyIsQuiet, ClearBeginIsQuiet, ClearIsQuiet
  <1>2. file'["mqtt"]["flash"] = file["mqtt"]["flash"]
        /\ file'["azure"]["flash"] = file["azure"]["flash"]
    BY BeginIsQuiet, SaveKeyIsQuiet, ClearBeginIsQuiet, ClearIsQuiet DEF Files
  <1>3. UNCHANGED <<boot, loaded, board>>
    BY <1>1 DEF Begin, SaveKey, ClearBegin, Clear, booting, Quiet
  <1>4. faults \in Nat /\ (UNCHANGED faults \/ faults' = faults + 1)
    BY <1>1, ConstantsAssumption, FaultCounts DEF TypeOK, Quiet
  <1>5. Sound("azure", "flash") => Sound("azure", "flash")'
    BY <1>1, <1>2, QuietSound DEF Media
  <1>6. ASSUME NEW s \in Savers, NEW c \in Creds, Begin(s, c)
        PROVE  (early' \/ boot = "done") /\ ~Idle'
    <2>1. pc'[s] = "host"
      BY <1>6 DEF Begin, Goto, TypeOK
    <2>2. early' \/ boot = "done"
      BY <1>6 DEF Begin
    <2> QED
      BY <2>1, <2>2 DEF Idle
  <1>7. ASSUME NEW s \in Savers, SaveKey(s) PROVE (early' \/ boot = "done") /\ ~Idle'
    <2>1. pc[s] \in Fields /\ pc'[s] = NextField(pc[s]) /\ UNCHANGED early
      BY <1>7 DEF SaveKey, Goto, TypeOK, judging
    <2>2. pc'[s] # "idle" /\ pc[s] # "idle"
      BY <2>1, NextFieldType DEF Fields
    <2> QED
      BY <2>1, <2>2, BusyBoot DEF Idle
  <1>8. ASSUME ClearBegin \/ Clear PROVE (early' \/ boot = "done") /\ board = "sd"
    <2>1. UNCHANGED early
      BY <1>8 DEF ClearBegin, Clear, judging
    <2>2. board = "sd" /\ (~Idle \/ boot = "done")
      BY <1>8 DEF ClearBegin, Clear, ProgressInv, SaverInv, Idle, Clearing
    <2> QED
      BY <2>1, <2>2, BusyBoot
  <1>9. /\ early' \/ boot = "done"
        /\ ~(board = "fresh" /\ faults' = 0 /\ file'["mqtt"]["flash"] = None /\ Idle')
    BY <1>6, <1>7, <1>8
  <1> QED
    BY <1>2, <1>3, <1>4, <1>5, <1>9, BootStays, KeysStay

\* Both after a reset.
LEMMA RebootBoot ==
  ASSUME TypeOK, KeysInv, Reboot
  PROVE  BootInv' /\ KeysInv'
  <1>1. /\ Idle' /\ early' = FALSE /\ UNCHANGED <<nvs, file, board>>
        /\ loaded' = Blank /\ boot' \in {"sd1", "flash1"}
        /\ boot' = "sd1" => board = "sd"
    BY RebootIs DEF FirstPlace
  <1>0. faults \in Nat
    BY ConstantsAssumption DEF TypeOK
  <1>2. faults' = 0 => Idle /\ faults = 0
    BY <1>0, RebootIs
  <1>3. BootInv'
    BY <1>1 DEF BootInv, InNvs
  <1>4. board = "fresh" /\ faults' = 0 /\ file'["mqtt"]["flash"] = None => nvs' = Whole(BootCred)
    BY <1>1, <1>2 DEF KeysInv
  <1>5. KeysInv'
    BY <1>1, <1>4 DEF KeysInv, Fields, Whole
  <1> QED
    BY <1>3, <1>5

\* Nobody is at work on a file while s_lock is free.
LEMMA FreeIsUnwritten ==
  /\ Idle => StorageFree
  /\ StorageFree => \A k \in Files, m \in Media : ~BeingWritten(k, m)
  BY DEF Idle, StorageFree, Writing, BeingWritten, WriteStep

\* The places of the flash, in the order in which a boot looks there.
LEMMA FlashPlaces ==
  /\ Found("flash1") = file["mqtt"]["flash"]
  /\ Found("flash2") = file["azure"]["flash"]
  /\ Found("flash3") = file["legacy"]["flash"]
  BY DEF Found, Places

\* The boot could not use the first file in flash: there is no file yet, or a failure tore it
\* and the second is sound if it was the only one.
LEMMA PassedFirst ==
  ASSUME TypeOK, FlashInv, StorageFree, Unusable("flash1")
  PROVE  \/ /\ file["mqtt"]["flash"] = None /\ file["azure"]["flash"] = None
            /\ BootCred \in allowed /\ board \in {"fresh", "legacy"}
         \/ faults > 0 /\ (faults <= 1 => Sound("azure", "flash"))
  <1>1. file["mqtt"]["flash"] \in {None, Torn}
    BY FlashPlaces DEF Unusable, TypeOK, Files, Media
  <1>2. CASE file["mqtt"]["flash"] = None
    BY <1>2 DEF FlashInv, KeepsUp, UpToDate, MayMiss
  <1>3. CASE file["mqtt"]["flash"] = Torn
    <2>1. Broken("mqtt", "flash")
      BY <1>3, FreeIsUnwritten DEF Broken, Files, Media
    <2>2. faults \in Nat
      BY ConstantsAssumption DEF TypeOK
    <2> QED
      BY <2>1, <2>2 DEF FlashInv, Sound
  <1> QED
    BY <1>1, <1>2, <1>3

\* Nor could it use the second, though that one is sound: it is missing.
LEMMA PassedSecond ==
  ASSUME TypeOK, StorageFree, Unusable("flash2"), Sound("azure", "flash")
  PROVE  /\ file["azure"]["flash"] = None
         /\ BootCred \in allowed /\ board \in {"fresh", "legacy"}
  <1>1. file["azure"]["flash"] \in {None, Torn}
    BY FlashPlaces DEF Unusable, TypeOK, Files, Media
  <1>2. file["azure"]["flash"] # Torn
    BY FreeIsUnwritten DEF Sound, Broken, Files, Media
  <1> QED
    BY <1>1, <1>2 DEF Sound, KeepsUp, UpToDate, MayMiss

\* BootInv and KeysInv after the boot has looked at one file.
LEMMA LoadFileBoot ==
  ASSUME TypeOK, FlashInv, BootInv, KeysInv, LoadFile
  PROVE  BootInv' /\ KeysInv'
  <1>0. Load
    BY DEF Load
  <1>1. /\ Quiet /\ UNCHANGED <<file, pc, early, nvs, faults, board, saves, reboots>>
        /\ boot \in DOMAIN Places /\ Readable(boot)
    BY <1>0, LoadIsQuiet DEF LoadFile, flash, card
  <1>2. boot \in {"sd1", "sd2", "sd3", "flash1", "flash2", "flash3"}
    BY <1>1 DEF Places
  <1>3. /\ boot \in {"flash1", "flash2", "flash3"} => StorageFree
        /\ Idle' <=> Idle
        /\ \A p : Unusable(p)' <=> Unusable(p)
        /\ loaded = Blank /\ faults \in Nat
    <2>1. boot \in {"flash1", "flash2", "flash3"} => StorageFree
      BY <1>1 DEF Readable, Places
    <2>2. (Idle' <=> Idle) /\ \A p : Unusable(p)' <=> Unusable(p)
      BY <1>1 DEF Idle, Unusable, Found
    <2>3. loaded = Blank
      BY <1>1 DEF KeysInv
    <2>4. faults \in Nat
      BY ConstantsAssumption DEF TypeOK
    <2> QED
      BY <2>1, <2>2, <2>3, <2>4
  <1>4. ~early' => Idle'
    BY <1>1, <1>2, <1>3 DEF BootInv
  <1>5. board' = "fresh" /\ faults' = 0 /\ file'["mqtt"]["flash"] = None /\ Idle'
          => nvs' = Whole(BootCred)
    BY <1>1, <1>3 DEF KeysInv
  <1>6. CASE Found(boot) \in Creds
    <2>1. boot' = "host"
      BY <1>6 DEF LoadFile
    <2>2. BootInv'
      BY <1>4, <2>1 DEF BootInv, InNvs
    <2>3. board = "fresh" => file["mqtt"]["flash"] # None
      <3> SUFFICES ASSUME board = "fresh" PROVE file["mqtt"]["flash"] # None
        OBVIOUS
      <3>1. boot \in {"flash1", "flash2", "flash3"}
        BY <1>2 DEF BootInv
      <3>2. CASE boot = "flash3"
        BY <1>6, <3>2, FlashPlaces, ConstantsAssumption DEF FlashInv
      <3> QED
        BY <1>6, <3>1, <3>2, FlashPlaces, ConstantsAssumption DEF FlashInv
    <2>4. KeysInv'
      BY <1>1, <1>5, <2>1, <2>3 DEF KeysInv, Fields, Places
    <2> QED
      BY <2>2, <2>4
  <1>7. CASE Unusable(boot)
    <2>1. boot' = NextPlace[boot] /\ loaded' = Blank
      BY <1>3, <1>7 DEF LoadFile, Unusable
    <2>2. /\ boot = "sd1" => boot' = "sd2"
          /\ boot = "sd2" => boot' = "sd3"
          /\ boot = "sd3" => boot' = "scan"
          /\ boot = "flash1" => boot' = "flash2"
          /\ boot = "flash2" => boot' = "flash3"
          /\ boot = "flash3" => boot' = "nvsHost"
      BY <2>1 DEF NextPlace
    <2>3. KeysInv'
      BY <1>2, <1>5, <2>1, <2>2 DEF KeysInv, Fields
    <2>4. InNvs' <=> boot = "flash3"
      BY <1>2, <2>2 DEF InNvs
    <2>5. ~InNvs
      BY <1>2 DEF InNvs
    <2>6. /\ boot' \in {"sd1", "sd2", "sd3", "scan"} => board' = "sd"
          /\ InNvs' => board' \in {"fresh", "flash"}
      <3>1. boot = "flash3" => board \in {"fresh", "flash"}
        BY <1>7, FlashPlaces, ConstantsAssumption DEF FlashInv, Unusable, TypeOK
      <3> QED
        BY <1>1, <1>2, <2>2, <2>4, <3>1 DEF BootInv
    <2>7. ~early' =>
           /\ boot' \in {"sd2", "sd3", "scan"} => Unusable("sd1")'
           /\ boot' \in {"sd3", "scan"} => Unusable("sd2")'
           /\ boot' = "scan" => Unusable("sd3")'
           /\ boot' \in {"flash2", "flash3"} \/ InNvs' => Unusable("flash1")'
           /\ boot' = "flash3" \/ InNvs' => Unusable("flash2")'
      BY <1>1, <1>2, <1>3, <1>7, <2>2, <2>4 DEF BootInv
    <2>8. board' = "flash" =>
           /\ boot' = "flash2" => faults' > 0 /\ (faults' <= 1 => Sound("azure", "flash")')
           /\ boot' = "flash3" \/ InNvs' => faults' > 1
      <3> SUFFICES ASSUME board = "flash"
                   PROVE  /\ boot' = "flash2" =>
                              faults' > 0 /\ (faults' <= 1 => Sound("azure", "flash")')
                          /\ boot' = "flash3" \/ InNvs' => faults' > 1
        BY <1>1
      <3>1. boot = "flash1" => faults > 0 /\ (faults <= 1 => Sound("azure", "flash"))
        BY <1>3, <1>7, PassedFirst
      <3>2. boot = "flash2" => faults > 1
        BY <1>3, <1>7, PassedSecond DEF BootInv
      <3>3. boot = "flash3" => faults > 1
        BY DEF BootInv
      <3>4. Sound("azure", "flash") => Sound("azure", "flash")'
        BY <1>1, QuietSound DEF Media
      <3> QED
        BY <1>1, <1>2, <2>2, <2>4, <3>1, <3>2, <3>3, <3>4
    <2>9. BootInv'
      BY <1>4, <2>6, <2>7, <2>8 DEF BootInv
    <2> QED
      BY <2>3, <2>9
  <1> QED
    BY <1>6, <1>7 DEF Unusable

\* Both after any other step of the boot.
LEMMA LoadBoot ==
  ASSUME TypeOK, FlashInv, BootInv, KeysInv, Load
  PROVE  BootInv' /\ KeysInv'
  <1>1. UNCHANGED <<file, pc, early, board>>
    BY LoadIsQuiet DEF Quiet
  <1>2. (Idle' <=> Idle) /\ \A p : Unusable(p)' <=> Unusable(p)
    BY <1>1 DEF Idle, Unusable, Found
  <1>3. CASE Scan
    <2>1. /\ boot = "scan" /\ boot' \in {"flash1", "host"}
          /\ boot' = "flash1" => loaded' = loaded
      <3>1. CASE {file[k].sd : k \in Files} \intersect Creds = {}
        BY <1>3, <3>1 DEF Scan
      <3>2. CASE {file[k].sd : k \in Files} \intersect Creds # {}
        BY <1>3, <3>2 DEF Scan
      <3> QED
        BY <3>1, <3>2
    <2>2. board' = "sd" /\ (boot' = "flash1" => loaded' = Blank)
      BY <1>1, <2>1 DEF BootInv, KeysInv
    <2>3. BootInv'
      BY <1>1, <1>2, <2>1, <2>2 DEF BootInv, InNvs
    <2>4. KeysInv'
      BY <2>1, <2>2 DEF KeysInv, Fields, Places
    <2> QED
      BY <2>3, <2>4
  <1>4. CASE LoadKey
    <2>1. UNCHANGED <<nvs, faults>> /\ Quiet
      BY <1>4, LoadIsQuiet DEF LoadKey, flash
    <2>2. \/ boot = "nvsHost" /\ boot' = "nvsDev"
          \/ boot = "nvsDev" /\ boot' = "nvsSak"
          \/ boot = "nvsSak" /\ boot' = "done"
      BY <1>4 DEF LoadKey
    <2>3. Sound("azure", "flash") => Sound("azure", "flash")'
      BY <1>1, <2>1, QuietSound DEF Media
    <2>4. BootInv'
      BY <1>1, <1>2, <2>1, <2>2 DEF BootInv, InNvs
    <2>5. board = "fresh" /\ faults = 0 /\ ~early => nvs = Whole(BootCred)
      <3> SUFFICES ASSUME board = "fresh", faults = 0, ~early PROVE nvs = Whole(BootCred)
        OBVIOUS
      <3>1. Idle /\ Unusable("flash1")
        BY <2>2 DEF BootInv, InNvs
      <3>2. file["mqtt"]["flash"] = None
        BY <3>1, FreeIsUnwritten, PassedFirst
      <3> QED
        BY <3>1, <3>2 DEF KeysInv
    <2>6. /\ loaded \in [Fields -> Creds \union {None}]
          /\ Whole(BootCred)["host"] = BootCred /\ Whole(BootCred)["dev"] = BootCred
      BY DEF TypeOK, Whole, Fields
    <2>7. /\ boot' = "nvsDev" => loaded'["dev"] = None /\ loaded'["sak"] = None
          /\ boot' = "nvsSak" => loaded'["sak"] = None
      BY <1>4, <2>6 DEF LoadKey, KeysInv, Fields, Blank
    <2>8. board' = "fresh" /\ faults' = 0 /\ ~early' =>
              /\ boot' \in {"nvsDev", "nvsSak"} => loaded'["host"] = BootCred
              /\ boot' = "nvsSak" => loaded'["dev"] = BootCred
      BY <1>1, <1>4, <2>1, <2>5, <2>6 DEF LoadKey, KeysInv, Fields
    <2>9. /\ boot' \notin DOMAIN Places \union {"scan", "nvsHost"}
          /\ boot' \notin Fields
      BY <2>2 DEF Places, Fields
    <2>10. board' = "fresh" /\ faults' = 0 /\ file'["mqtt"]["flash"] = None /\ Idle'
             => nvs' = Whole(BootCred)
      BY <1>1, <1>2, <2>1 DEF KeysInv
    <2>11. KeysInv'
      BY <2>7, <2>8, <2>9, <2>10 DEF KeysInv
    <2> QED
      BY <2>4, <2>11
  <1>5. CASE CopyKey
    <2>1. boot \in Fields /\ boot' \in Fields \union {"done"}
      BY <1>5, NextFieldType DEF CopyKey
    <2>2. BootInv'
      BY <1>1, <1>2, <2>1 DEF BootInv, InNvs, Fields
    <2>3. board = "fresh" => file["mqtt"]["flash"] # None
      BY <2>1 DEF KeysInv
    <2>4. KeysInv'
      BY <1>1, <2>1, <2>3 DEF KeysInv, Fields, Places
    <2> QED
      BY <2>2, <2>4
  <1> QED
    BY <1>3, <1>4, <1>5, LoadFileBoot DEF Load

-------------------------------------------------------------------------------
(* The invariant holds.                                                    *)

\* At the start each board has its files, whole, and they are the factory's.
LEMMA InitIInv == Init => IInv
  <1> SUFFICES ASSUME Init PROVE IInv
    OBVIOUS
  <1>1. /\ TypeOK /\ Idle /\ ~success /\ ~early /\ faults = 0
        /\ allowed = {BootCred} /\ period = {} /\ nvs = Whole(BootCred) /\ loaded = Blank
        /\ boot = FirstPlace /\ board \in {"fresh", "legacy", "flash", "sd"}
        /\ \A s \in Savers : pc[s] = "idle" /\ name[s] = "mqtt" /\ result[s] = "OK"
    BY InitTypes DEF Init, Idle
  <1>2. BootCred \notin {None, Torn} /\ None # Torn
    BY ConstantsAssumption
  <1>3. \A k \in Files, m \in Media :
          file[k][m] = IF \/ board = "legacy" /\ m = "flash" /\ k = "legacy"
                          \/ board = "flash" /\ m = "flash" /\ k # "legacy"
                          \/ board = "sd" THEN BootCred ELSE None
    BY DEF Init
  <1>4. /\ \A k \in Written : /\ file[k]["flash"] = IF board \in {"flash", "sd"} THEN BootCred
                                                                             ELSE None
                              /\ file[k]["sd"] = IF board = "sd" THEN BootCred ELSE None
        /\ file["legacy"]["flash"] = IF board \in {"legacy", "sd"} THEN BootCred ELSE None
        /\ file["legacy"]["sd"] = IF board = "sd" THEN BootCred ELSE None
    BY <1>1, <1>3 DEF Files, Media, Written
  <1>5. ProgressInv
    BY <1>1 DEF ProgressInv, SaverInv, Active, InFile, Fields, Written, Clearing
  <1>6. \A k, m : ~Renewed(k, m)
    BY <1>1 DEF Renewed, Through, InFile
  <1>7. \A k \in Written : Sound(k, "flash") /\ (board = "sd" => Sound(k, "sd"))
    <2> SUFFICES ASSUME NEW k \in Written
                 PROVE  Sound(k, "flash") /\ (board = "sd" => Sound(k, "sd"))
      OBVIOUS
    <2>1. MayMiss("flash") \/ file[k]["flash"] = BootCred
      BY <1>1, <1>4 DEF MayMiss
    <2>2. Sound(k, "flash")
      BY <1>1, <1>2, <1>4, <1>6, <2>1 DEF Sound, KeepsUp, UpToDate, Broken
    <2>3. board = "sd" => Sound(k, "sd")
      BY <1>1, <1>2, <1>4, <1>6 DEF Sound, KeepsUp, UpToDate, Broken
    <2> QED
      BY <2>2, <2>3
  <1>8. FlashInv
    <2>1. \A s \in Savers : name[s] # "azure"
      BY <1>1
    <2> QED
      BY <1>2, <1>4, <1>7, <2>1 DEF FlashInv, Sound, Written
  <1>9. CardInv
    <2>1. CASE board = "sd"
      <3>1. CardState
        BY <1>2, <1>4, <1>7, <2>1 DEF CardState, Sound, Written
      <3> QED
        BY <2>1, <3>1, CardParts
    <2>2. CASE board # "sd"
      BY <1>4, <2>2, CardParts DEF Files, Written
    <2> QED
      BY <2>1, <2>2
  <1>10. BootInv
    BY <1>1 DEF BootInv, InNvs, FirstPlace
  <1>11. KeysInv
    BY <1>1 DEF KeysInv, FirstPlace, Fields
  <1> QED
    BY <1>1, <1>5, <1>8, <1>9, <1>10, <1>11 DEF IInv

\* Every step keeps it.
LEMMA NextIInv == IInv /\ [Next]_vars => IInv'
  <1> SUFFICES ASSUME IInv, [Next]_vars PROVE IInv'
    OBVIOUS
  <1>1. TypeOK /\ ProgressInv /\ FlashInv /\ CardInv /\ BootInv /\ KeysInv
    BY DEF IInv
  <1>2. TypeOK'
    BY <1>1, NextTypes
  <1>3. CASE UNCHANGED vars
    <2>1. UNCHANGED <<pc, name, cred, result, nvs, file, boot, loaded, board, allowed, period,
                      success, early, stale, saves, faults, reboots>>
      BY <1>3 DEF vars, flash, saving, booting, judging, card
    <2>2. ProgressInv'
      BY <1>1, <2>1 DEF ProgressInv, SaverInv, Active, InFile
    <2>3. \A k, m : /\ KeepsUp(k, m)' <=> KeepsUp(k, m)
                    /\ Broken(k, m)' <=> Broken(k, m)
                    /\ Sound(k, m)' <=> Sound(k, m)
      BY <2>1 DEF Sound, KeepsUp, UpToDate, Renewed, Through, InFile, MayMiss, Broken,
                  BeingWritten
    <2>4. FlashInv'
      BY <1>1, <2>1, <2>3 DEF FlashInv
    <2>5. CardInv'
      BY <1>1, <2>1, <2>3 DEF CardInv, Orderly
    <2>6. BootInv'
      BY <1>1, <2>1, <2>3 DEF BootInv, InNvs, Idle, Unusable, Found
    <2>7. KeysInv'
      BY <1>1, <2>1 DEF KeysInv, Idle
    <2> QED
      BY <1>2, <2>2, <2>4, <2>5, <2>6, <2>7 DEF IInv
  <1>4. ASSUME NEW s \in Savers, FileStep(s) PROVE IInv'
    BY <1>1, <1>2, <1>4, FileStepProgress, FileStepFlash, FileStepCard, FileStepBoot DEF IInv
  <1>5. ASSUME NEW s \in Savers, NEW c \in Creds, Begin(s, c) PROVE IInv'
    <2>1. Quiet /\ UNCHANGED <<file, name, stale>>
      BY <1>1, <1>5, BeginIsQuiet
    <2>2. \A t \in Savers : pc[t] = "clear2" => pc'[t] = "clear2"
      BY <1>1, <1>5 DEF Begin, Goto, TypeOK
    <2>3. FlashInv' /\ CardInv'
      BY <1>1, <2>1, <2>2, QuietFlash, QuietCard
    <2> QED
      BY <1>1, <1>2, <1>5, <2>3, OtherProgress, QuietBoot DEF IInv
  <1>6. ASSUME NEW s \in Savers, SaveKey(s) PROVE IInv'
    <2>1. Quiet /\ UNCHANGED <<file, name, stale>>
      BY <1>1, <1>6, SaveKeyIsQuiet
    <2>2. \A t \in Savers : pc[t] = "clear2" => pc'[t] = "clear2"
      BY <1>1, <1>6 DEF SaveKey, Goto, TypeOK, Fields
    <2>3. FlashInv' /\ CardInv'
      BY <1>1, <2>1, <2>2, QuietFlash, QuietCard
    <2> QED
      BY <1>1, <1>2, <1>6, <2>3, OtherProgress, QuietBoot DEF IInv
  <1>7. CASE ClearBegin
    <2>1. Quiet /\ UNCHANGED <<file, name, stale>>
      BY <1>1, <1>7, ClearBeginIsQuiet
    <2>2. \A t \in Savers : pc[t] = "clear2" => pc'[t] = "clear2"
      BY <1>1, <1>7 DEF ClearBegin, Goto, TypeOK
    <2>3. FlashInv' /\ CardInv'
      BY <1>1, <2>1, <2>2, QuietFlash, QuietCard
    <2> QED
      BY <1>1, <1>2, <1>7, <2>3, OtherProgress, QuietBoot DEF IInv
  <1>8. CASE Clear
    <2>1. FlashInv'
      BY <1>1, <1>8, ClearIsQuiet, QuietFlash
    <2> QED
      BY <1>1, <1>2, <1>8, <2>1, OtherProgress, ClearCard, QuietBoot DEF IInv
  <1>9. CASE Load
    <2>1. Quiet /\ UNCHANGED <<file, name, stale, pc>>
      BY <1>1, <1>9, LoadIsQuiet
    <2>2. FlashInv' /\ CardInv'
      BY <1>1, <2>1, QuietFlash, QuietCard
    <2> QED
      BY <1>1, <1>2, <1>9, <2>2, OtherProgress, LoadBoot DEF IInv
  <1>10. CASE Reboot
    BY <1>1, <1>2, <1>10, OtherProgress, RebootFlash, RebootCard, RebootBoot DEF IInv
  <1> QED
    BY <1>3, <1>4, <1>5, <1>6, <1>7, <1>8, <1>9, <1>10 DEF Next, FileStep, Load

\* The card, as the boot finds it when nothing went wrong that is not forgiven.
LEMMA ForgivenIs ==
  ASSUME TypeOK, Forgiven
  PROVE  /\ faults \in Nat /\ faults <= 1
         /\ board = "fresh" => faults = 0
         /\ board # "flash" => ~early
         /\ board = "sd" => Orderly
  <1>1. faults \in Nat /\ board \in {"fresh", "legacy", "flash", "sd"}
    BY ConstantsAssumption DEF TypeOK
  <1>2. CASE board = "fresh"
    BY <1>1, <1>2 DEF Forgiven
  <1>3. CASE board = "legacy"
    BY <1>1, <1>3 DEF Forgiven
  <1>4. CASE board = "flash"
    BY <1>1, <1>4 DEF Forgiven
  <1>5. CASE board = "sd"
    <2>1. faults <= 1 /\ ~early /\ (stale => faults = 0)
      BY <1>5 DEF Forgiven
    <2> QED
      BY <1>1, <1>5, <2>1 DEF Orderly
  <1> QED
    BY <1>1, <1>2, <1>3, <1>4, <1>5

\* A file that the boot finds whole holds what it may come up with.  The older third one on
\* the card it never reaches: it would have found the two others torn.
LEMMA LoadsAllowedFile ==
  ASSUME IInv, Forgiven, LoadFile, Found(boot) \in Creds
  PROVE  Found(boot) \in allowed
  <1>1. /\ TypeOK /\ FlashInv /\ CardInv /\ BootInv
        /\ None \notin Creds /\ Torn \notin Creds
    BY ConstantsAssumption DEF IInv
  <1>2. /\ boot \in {"sd1", "sd2", "sd3", "flash1", "flash2", "flash3"}
        /\ boot \in {"flash1", "flash2", "flash3"} => StorageFree
        /\ boot # "done"
    BY DEF LoadFile, Readable, Places
  <1>3. /\ Found("sd1") = file["mqtt"]["sd"] /\ Found("sd2") = file["azure"]["sd"]
        /\ Found("sd3") = file["legacy"]["sd"]
    BY DEF Found, Places
  <1>4. /\ faults \in Nat /\ faults <= 1
        /\ board # "flash" => ~early /\ Idle
        /\ board = "fresh" => faults = 0
    BY <1>1, <1>2, ForgivenIs DEF BootInv
  <1>5. \A k, m : KeepsUp(k, m) /\ file[k][m] \in Creds => file[k][m] \in allowed
    BY <1>1 DEF KeepsUp, UpToDate
  <1>6. boot \in {"sd1", "sd2", "sd3"} => board = "sd" /\ CardState /\ ~early /\ Idle
    BY <1>1, <1>4, ForgivenIs, CardParts DEF BootInv
  <1>7. CASE boot = "sd1" \/ boot = "sd2"
    BY <1>3, <1>5, <1>6, <1>7 DEF CardState, Written
  <1>8. CASE boot = "sd3"
    <2>1. file["mqtt"]["sd"] # None /\ file["azure"]["sd"] # None
      <3>1. \A s \in Savers : pc[s] # "clear2"
        BY <1>6, <1>8 DEF Idle
      <3> QED
        BY <1>1, <1>3, <1>6, <1>8, <3>1 DEF CardState, Written
    <2>2. Unusable("sd1") /\ Unusable("sd2")
      BY <1>1, <1>6, <1>8 DEF BootInv
    <2>3. file["mqtt"]["sd"] = Torn /\ file["azure"]["sd"] = Torn
      BY <1>1, <1>3, <2>1, <2>2 DEF Unusable, TypeOK, Files, Media
    <2>4. ~BeingWritten("mqtt", "sd") /\ ~BeingWritten("azure", "sd")
      BY <1>6, <1>8, FreeIsUnwritten DEF Files, Media
    <2> QED
      BY <1>6, <1>8, <2>3, <2>4 DEF CardState, Broken
  <1>9. CASE boot = "flash1"
    BY <1>1, <1>5, <1>9, FlashPlaces DEF FlashInv
  <1>10. CASE boot = "flash2"
    <2>1. Sound("azure", "flash")
      <3>1. CASE board = "flash"
        BY <1>1, <1>4, <1>10, <3>1 DEF BootInv
      <3>2. CASE board # "flash"
        <4>1. Unusable("flash1")
          BY <1>1, <1>4, <1>10, <3>2 DEF BootInv
        <4> QED
          BY <1>1, <1>2, <1>4, <1>10, <4>1, PassedFirst, FlashPlaces
      <3> QED
        BY <3>1, <3>2
    <2> QED
      BY <1>5, <1>10, <2>1, FlashPlaces DEF Sound
  <1>11. CASE boot = "flash3"
    <2>1. file["legacy"]["flash"] = BootCred /\ board # "flash"
      BY <1>1, <1>11, FlashPlaces DEF FlashInv
    <2>2. Unusable("flash1") /\ Unusable("flash2")
      BY <1>1, <1>4, <1>11, <2>1 DEF BootInv
    <2>3. BootCred \in allowed
      BY <1>1, <1>2, <1>4, <1>11, <2>2, PassedFirst, PassedSecond
    <2> QED
      BY <1>11, <2>1, <2>3, FlashPlaces
  <1> QED
    BY <1>2, <1>7, <1>8, <1>9, <1>10, <1>11

\* A scan of the card finds nothing that the boot has not found.
LEMMA ScanFindsNothing ==
  ASSUME IInv, Forgiven, Scan
  PROVE  loaded' = loaded
  <1>1. TypeOK /\ BootInv /\ boot = "scan"
    BY DEF IInv, Scan
  <1>2. board = "sd" /\ ~early
    BY <1>1, ForgivenIs DEF BootInv
  <1>3. Unusable("sd1") /\ Unusable("sd2") /\ Unusable("sd3")
    BY <1>1, <1>2 DEF BootInv
  <1>4. \A k \in Files : file[k]["sd"] \notin Creds
    BY <1>3 DEF Unusable, Found, Places, Files
  <1>5. {file[k].sd : k \in Files} \intersect Creds = {}
    BY <1>4
  <1> QED
    BY <1>5 DEF Scan

\* The keys hold one whole set when the boot comes to them: the factory's, on a device that
\* nothing has been saved on.
LEMMA LoadsAllowedKeys ==
  ASSUME IInv, Forgiven, LoadKey, \A f \in Fields : loaded'[f] # None
  PROVE  \E c \in allowed : loaded' = Whole(c)
  <1>1. TypeOK /\ FlashInv /\ BootInv /\ KeysInv
    BY DEF IInv
  <1>2. boot \in {"nvsHost", "nvsDev", "nvsSak"}
    BY DEF LoadKey
  <1>3. board = "fresh" /\ faults = 0 /\ ~early
    BY <1>1, <1>2, ForgivenIs DEF BootInv, InNvs
  <1>4. Idle /\ Unusable("flash1")
    BY <1>1, <1>2, <1>3 DEF BootInv, InNvs
  <1>5. file["mqtt"]["flash"] = None /\ BootCred \in allowed
    BY <1>1, <1>3, <1>4, FreeIsUnwritten, PassedFirst
  <1>6. nvs = Whole(BootCred)
    BY <1>1, <1>3, <1>4, <1>5 DEF KeysInv
  <1>7. loaded \in [Fields -> Creds \union {None}]
    BY <1>1 DEF TypeOK
  <1>8. boot = "nvsSak"
    BY <1>1, <1>2, <1>7 DEF LoadKey, KeysInv, Blank, Fields
  <1>9. /\ loaded' = [loaded EXCEPT !["sak"] = nvs["sak"]]
        /\ loaded["host"] = BootCred /\ loaded["dev"] = BootCred
    BY <1>1, <1>3, <1>8 DEF LoadKey, KeysInv
  <1>10. loaded' = Whole(BootCred)
    BY <1>6, <1>7, <1>9 DEF Whole, Fields
  <1> QED
    BY <1>5, <1>10

\* What a step loads it may load.
LEMMA LoadsWhatWasSavedStep ==
  ASSUME IInv, Next, loaded' # loaded, \A f \in Fields : loaded'[f] # None, Forgiven
  PROVE  \E c \in allowed : loaded' = Whole(c)
  <1>1. TypeOK
    BY DEF IInv
  <1>2. ASSUME NEW s \in Savers, NEW c \in Creds, Begin(s, c) PROVE FALSE
    BY <1>2 DEF Begin, booting
  <1>3. ASSUME NEW s \in Savers, SaveKey(s) \/ FileStep(s) PROVE FALSE
    BY <1>3 DEF SaveKey, FileStep, Open, Write, OpenSd, WriteSd, booting
  <1>4. CASE ClearBegin \/ Clear
    BY <1>4 DEF ClearBegin, Clear, booting
  <1>5. CASE LoadFile
    <2>1. Found(boot) \in Creds /\ loaded' = Whole(Found(boot))
      BY <1>5 DEF LoadFile
    <2> QED
      BY <1>5, <2>1, LoadsAllowedFile
  <1>6. CASE Scan
    BY <1>6, ScanFindsNothing
  <1>7. CASE LoadKey
    BY <1>7, LoadsAllowedKeys
  <1>8. CASE CopyKey
    BY <1>8 DEF CopyKey
  <1>9. CASE Reboot
    BY <1>1, <1>9, RebootIs DEF Blank, Fields
  <1> QED
    BY <1>2, <1>3, <1>4, <1>5, <1>6, <1>7, <1>8, <1>9 DEF Next, FileStep

-------------------------------------------------------------------------------
(* The theorems.                                                           *)

\* Every reachable state is well typed: s_lock keeps the writes of two tasks apart, and
\* the card is cleared by nobody before the boot is over.
THEOREM TypeCorrect == Spec => []TypeOK
  BY InitTypes, NextTypes, PTL DEF Spec

\* The inductive invariant: how far each save is, what that says of the age and the
\* soundness of every file, and what it says that a boot has passed a place.
THEOREM Invariance == Spec => []IInv
  BY InitIInv, NextIInv, PTL DEF Spec

\* A boot comes up with one whole set of credentials, and after a save that returned ESP_OK
\* with nothing older, whatever saves overlap and wherever one reset or failed write struck:
\* app_config_load_azure looks at the two files in the order in which app_config_save_azure
\* writes them.
THEOREM LoadsWhatWasSavedHolds == Spec => LoadsWhatWasSaved
  <1>1. IInv /\ [Next]_vars =>
          [loaded' # loaded /\ (\A f \in Fields : loaded'[f] # None) /\ Forgiven
             => \E c \in allowed : loaded' = Whole(c)]_vars
    BY LoadsWhatWasSavedStep
  <1> QED
    BY <1>1, Invariance, PTL DEF Spec, LoadsWhatWasSaved
===============================================================================
