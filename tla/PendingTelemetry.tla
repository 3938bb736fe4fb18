--------------------------- MODULE PendingTelemetry ----------------------------
(***************************************************************************)
(* Telemetry that could not be delivered: azure_iot_publish_telemetry      *)
(* saves it in a numbered file of the flash, and azure_bg drains the files *)
(* later.  Delivery is MQTT or, failing that, HTTP; either may fail, and   *)
(* HTTP may fail although the service got the message.  The number of the  *)
(* next file lives in memory: a reboot clears it, and so does              *)
(* azure_iot_init, which may run while both tasks are at work.             *)
(***************************************************************************)
EXTENDS Naturals, FiniteSets

CONSTANTS MaxMsgs,    \* messages the telemetry task publishes: 1 .. MaxMsgs
          ScanMax,    \* 16: files one drain looks at
          Torn,       \* the content of a file that was not written to its end
          NoMsg,      \* an empty buffer
          MaxFaults,  \* bound on failures of delivery and of the flash
          MaxReboots, MaxReinits

ASSUME ConstantsAssumption ==
    /\ MaxMsgs \in Nat /\ ScanMax \in Nat \ {0}
    /\ Torn \notin Nat /\ NoMsg \notin Nat /\ Torn # NoMsg
    /\ MaxFaults \in Nat /\ MaxReboots \in Nat /\ MaxReinits \in Nat

VARIABLES files,      \* [numbers in use -> content]: the pending files
          seq,        \* s.pending_seq
          next,       \* the next message to publish; next - 1 is in hand
          tele,       \* the telemetry task: "idle", "count", "open" or "write"
          name,       \* the file it is writing
          bg,         \* azure_bg: "idle", "read", "deliver" or "remove"
          todo,       \* the files of its scan it has not come to
          cur, buf,   \* the file it is at, and what it read there
          delivered,  \* what the cloud received, once or more often
          queued,     \* the messages whose save was reported as done
          cut,        \* those the flash cut short, in a write or a read reported as done
          faults, reboots, reinits

teleVars == <<next, tele, name>>
bgVars == <<bg, todo, cur, buf>>
bounds == <<reboots, reinits>>
told == <<queued, cut>>
vars == <<files, seq, teleVars, bgVars, delivered, told, faults, bounds>>

Msgs == 1 .. MaxMsgs
Content == Msgs \union {Torn}
InHand == next - 1

TypeOK ==
    /\ DOMAIN files \subseteq 0 .. MaxMsgs
    /\ \A n \in DOMAIN files : files[n] \in Content
    /\ seq \in 0 .. MaxMsgs /\ name \in 0 .. MaxMsgs /\ cur \in 0 .. MaxMsgs
    /\ next \in 1 .. MaxMsgs + 1
    /\ tele \in {"idle", "count", "open", "write"}
    /\ bg \in {"idle", "read", "deliver", "remove"}
    /\ todo \subseteq 0 .. MaxMsgs /\ Cardinality(todo) <= ScanMax
    /\ buf \in Content \union {NoMsg}
    /\ delivered \subseteq Content /\ queued \subseteq Msgs /\ cut \subseteq Msgs
    /\ faults \in 0 .. MaxFaults
    /\ reboots \in 0 .. MaxReboots /\ reinits \in 0 .. MaxReinits

Init ==
    /\ files = [n \in {} |-> Torn] /\ seq = 0
    /\ next = 1 /\ tele = "idle" /\ name = 0
    /\ bg = "idle" /\ todo = {} /\ cur = 0 /\ buf = NoMsg
    /\ delivered = {} /\ queued = {} /\ cut = {}
    /\ faults = 0 /\ reboots = 0 /\ reinits = 0
-------------------------------------------------------------------------------
Fault == faults < MaxFaults /\ faults' = faults + 1

\* deliver_payload: a failure may hide a message that arrived.
Delivered(m) == delivered' = delivered \union {m} /\ UNCHANGED faults
NotDelivered(m) == Fault /\ delivered' \in {delivered, delivered \union {m}}

\* storage.c holds s_lock while the file is open for writing.
StorageFree == tele # "write"

\* fopen(path, "w"), and the end of the write.
Stored(n, content) ==
    files' = [k \in DOMAIN files \union {n} |-> IF k = n THEN content ELSE files[k]]
Without(n) == files' = [k \in DOMAIN files \ {n} |-> files[k]]
-------------------------------------------------------------------------------
(* The telemetry task: azure_iot_publish_telemetry, save_pending_payload.  *)

Publish ==
    /\ tele = "idle"
    /\ next <= MaxMsgs
    /\ next' = next + 1
    /\ \/ Delivered(next) /\ tele' = tele
       \/ NotDelivered(next) /\ tele' = "count"
    /\ UNCHANGED <<files, seq, name, bgVars, told, bounds>>

Count ==
    /\ tele = "count"
    /\ seq' = seq + 1
    /\ tele' = "open"
    /\ UNCHANGED <<files, next, name, bgVars, delivered, told, faults, bounds>>

\* storage_write refuses when the flash is 80 % full; otherwise the file is emptied.
Open ==
    /\ tele = "open"
    /\ name' = seq
    /\ \/ Stored(seq, Torn) /\ tele' = "write" /\ UNCHANGED faults
       \/ Fault /\ tele' = "idle" /\ UNCHANGED files
    /\ UNCHANGED <<seq, next, bgVars, delivered, told, bounds>>

\* What was still buffered is written by fclose, whose result is not looked at.
Write ==
    /\ tele = "write"
    /\ tele' = "idle"
    /\ \/ Stored(name, InHand) /\ queued' = queued \union {InHand} /\ UNCHANGED <<cut, faults>>
       \/ Fault /\ UNCHANGED <<files, told>>
       \/ /\ Fault /\ UNCHANGED files
          /\ queued' = queued \union {InHand} /\ cut' = cut \union {InHand}
    /\ UNCHANGED <<seq, next, name, bgVars, delivered, bounds>>
-------------------------------------------------------------------------------
(* azure_bg: drain_pending_payloads.                                       *)

\* Mutant: the scan is not limited to its array.
Scans_Unlimited(t) == t = DOMAIN files

\* storage_list_prefix: in directory order, as many as fit.
Scans(t) ==
    /\ t \subseteq DOMAIN files
    /\ Cardinality(t) = IF Cardinality(DOMAIN files) <= ScanMax
                          THEN Cardinality(DOMAIN files) ELSE ScanMax

DrainBegin ==
    /\ bg = "idle"
    /\ StorageFree
    /\ files # [n \in {} |-> Torn]
    /\ todo' \in SUBSET DOMAIN files /\ Scans(todo')
    /\ bg' = "read"
    /\ UNCHANGED <<files, seq, teleVars, cur, buf, delivered, told, faults, bounds>>

\* storage_read takes what fread gives it for the whole file.
ReadsShort(n) == buf' = Torn /\ cut' = cut \union ({files[n]} \ {Torn})

DrainRead(n) ==
    /\ bg = "read"
    /\ StorageFree
    /\ todo' = todo \ {n}
    /\ cur' = n
    /\ \/ n \in DOMAIN files /\ buf' = files[n] /\ bg' = "deliver" /\ UNCHANGED <<cut, faults>>
       \/ n \in DOMAIN files /\ Fault /\ ReadsShort(n) /\ bg' = "deliver"
       \/ n \notin DOMAIN files /\ UNCHANGED <<buf, bg, cut, faults>>
    /\ UNCHANGED <<files, seq, teleVars, delivered, queued, bounds>>

\* Mutant: a file goes whether it was delivered or not.
DrainDeliver_Always ==
    /\ bg = "deliver"
    /\ buf' = NoMsg
    /\ (Delivered(buf) \/ NotDelivered(buf)) /\ bg' = "remove" /\ UNCHANGED todo
    /\ UNCHANGED <<files, seq, teleVars, cur, told, bounds>>

\* The first failure ends the drain.
DrainDeliver ==
    /\ bg = "deliver"
    /\ buf' = NoMsg
    /\ \/ Delivered(buf) /\ bg' = "remove" /\ UNCHANGED todo
       \/ NotDelivered(buf) /\ bg' = "idle" /\ todo' = {}
    /\ UNCHANGED <<files, seq, teleVars, cur, told, bounds>>

\* Mutant: the file is left behind.
DrainRemove_Keeps ==
    /\ bg = "remove"
    /\ bg' = "read"
    /\ UNCHANGED <<files, seq, teleVars, todo, cur, buf, delivered, told, faults, bounds>>

DrainRemove ==
    /\ bg = "remove"
    /\ StorageFree
    /\ Without(cur)
    /\ bg' = "read"
    /\ UNCHANGED <<seq, teleVars, todo, cur, buf, delivered, told, faults, bounds>>

DrainEnd ==
    /\ bg = "read"
    /\ todo = {}
    /\ bg' = "idle"
    /\ UNCHANGED <<files, seq, teleVars, todo, cur, buf, delivered, told, faults, bounds>>
-------------------------------------------------------------------------------
\* azure_iot_init clears s, the counter with it.
Reinit ==
    /\ reinits < MaxReinits
    /\ reinits' = reinits + 1
    /\ seq' = 0
    /\ UNCHANGED <<files, teleVars, bgVars, delivered, told, faults, reboots>>

\* A reset keeps the flash and nothing else.
Reboot ==
    /\ reboots < MaxReboots
    /\ reboots' = reboots + 1
    /\ seq' = 0 /\ tele' = "idle" /\ name' = 0
    /\ bg' = "idle" /\ todo' = {} /\ cur' = 0 /\ buf' = NoMsg
    /\ UNCHANGED <<files, next, delivered, told, faults, reinits>>

Next ==
    \/ Publish \/ Count \/ Open \/ Write
    \/ DrainBegin \/ (\E n \in todo : DrainRead(n)) \/ DrainDeliver \/ DrainRemove \/ DrainEnd
    \/ Reinit \/ Reboot

Spec == Init /\ [][Next]_vars

\* Both tasks run; azure_bg drains every 30 s, for ever.
Fairness ==
    /\ WF_vars(Count \/ Open \/ Write)
    /\ SF_vars(DrainBegin)
    /\ WF_vars((\E n \in todo : DrainRead(n)) \/ DrainDeliver \/ DrainRemove \/ DrainEnd)

FairSpec == Spec /\ Fairness
-------------------------------------------------------------------------------
(* Properties.                                                             *)

\* azure_iot.c:224 reports "Queued pending telemetry at" a path: what was queued is
\* in a file until it has been delivered, unless the flash cut it short and did not say so.
QueuedSurvives ==
    \A m \in queued : m \in delivered \union cut \/ \E n \in DOMAIN files : files[n] = m

\* It holds as long as the counter is never cleared: neither a reset nor a second
\* azure_iot_init, whatever fails and however the drain and the saves overlap.
QueuedSurvivesUntilReset == reboots = 0 /\ reinits = 0 => QueuedSurvives

\* Once nothing fails any more, the pending files are all drained, however many
\* there are and whatever restarted meanwhile.
QueueDrains == <>[](DOMAIN files = {})
===============================================================================
