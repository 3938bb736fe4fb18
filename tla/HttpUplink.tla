------------------------------ MODULE HttpUplink -------------------------------
(***************************************************************************)
(* Telemetry over HTTP: smartload_http_send puts payloads into a queue,    *)
(* smartload_http_task posts them one by one, and a payload that the queue *)
(* or the service does not take goes to storage_manager, which keeps the   *)
(* newest few in numbered files.  Both tasks store failures, and the       *)
(* rotation of the files, their numbering and the write are separate steps *)
(* of which only the innermost hold a lock.                                *)
(***************************************************************************)
EXTENDS Naturals, Sequences, FiniteSets

CONSTANTS MaxMsgs,     \* payloads the telemetry task sends: 1 .. MaxMsgs
          QueueDepth,  \* 4: SMARTLOAD_HTTP_QUEUE_DEPTH
          Tries,       \* 3: retry_max
          Keep,        \* 8: STORAGE_MANAGER_HTTP_KEEP_COUNT, STORAGE_CLEANUP_KEEP_SOFT
          KeepHard,    \* 4: STORAGE_CLEANUP_KEEP_HARD
          Foreign,     \* 1 when /http_config.json, of the same prefix, is on the flash
          Torn,        \* the content of a file that was not written to its end
          MaxFaults,   \* bound on failures of the network and of the flash
          MaxReboots

ASSUME ConstantsAssumption ==
    /\ MaxMsgs \in Nat /\ QueueDepth \in Nat \ {0} /\ Tries \in Nat \ {0}
    /\ Keep \in Nat /\ KeepHard \in Nat /\ KeepHard <= Keep
    /\ Foreign \in {0, 1} /\ Foreign <= KeepHard
    /\ Torn \notin Nat
    /\ MaxFaults \in Nat /\ MaxReboots \in Nat

VARIABLES queue,     \* s_queue
          next,      \* the next payload; next - 1 is the last one sent
          wifi,      \* wifi_mgr_is_connected
          http,      \* the HTTP task: "idle", "drain", "try", "store" or "ended"
          item,      \* the payload it has in hand
          attempt,   \* its tries so far
          stage,     \* stage[w]: where writer w is in store_http_failure
          victims,   \* victims[w]: the files its rotation found too old
          num,       \* num[w]: the number of its file
          files,     \* the failure files, [num, what, at]; at stands for the mtime
          made,      \* the contents ever written, in order
          seq,       \* s_http_failure_seq
          arrived,   \* what the service received, in order
          confirmed, \* the payloads whose POST returned ESP_OK
          refused,   \* the payloads neither delivered nor stored
          faults, reboots

sendVars == <<queue, next>>
httpVars == <<http, item, attempt>>
storeVars == <<stage, victims, num, files, made, seq>>
cloudVars == <<arrived, confirmed>>
vars == <<sendVars, wifi, httpVars, storeVars, cloudVars, refused, faults, reboots>>

Writers == {"telemetry", "http"}
Msgs == 1 .. MaxMsgs
Stages == {"idle", "list", "remove", "load", "bump", "write", "relist", "reremove", "rewrite"}
Last(w) == IF w = "http" THEN item ELSE next - 1

TypeOK ==
    /\ queue \in Seq(Msgs) /\ Len(queue) <= QueueDepth
    /\ next \in 1 .. MaxMsgs + 1
    /\ wifi \in BOOLEAN
    /\ http \in {"idle", "drain", "try", "store"}
    /\ item \in 0 .. MaxMsgs
    /\ attempt \in 1 .. Tries
    /\ stage \in [Writers -> Stages]
    /\ stage["http"] # "idle" <=> http = "store"
    /\ num \in [Writers -> 0 .. MaxMsgs]
    /\ seq \in 0 .. MaxMsgs
    /\ \A f \in files : f.num \in 1 .. MaxMsgs /\ f.what = made[f.at]
    /\ confirmed \union refused \subseteq Msgs
    /\ faults \in 0 .. MaxFaults /\ reboots \in 0 .. MaxReboots

Init ==
    /\ queue = <<>> /\ next = 1
    /\ wifi = FALSE
    /\ http = "idle" /\ item = 0 /\ attempt = 1
    /\ stage = [w \in Writers |-> "idle"]
    /\ victims = [w \in Writers |-> {}]
    /\ num = [w \in Writers |-> 0]
    /\ files = {} /\ made = <<>> /\ seq = 0
    /\ arrived = <<>> /\ confirmed = {} /\ refused = {}
    /\ faults = 0 /\ reboots = 0

Fault == faults < MaxFaults /\ faults' = faults + 1
-------------------------------------------------------------------------------
(* smartload_http_send, in the telemetry task.                             *)

Send ==
    /\ stage["telemetry"] = "idle"
    /\ next <= MaxMsgs
    /\ next' = next + 1
    /\ IF Len(queue) < QueueDepth
         THEN queue' = Append(queue, next) /\ UNCHANGED stage
         ELSE stage' = [stage EXCEPT !["telemetry"] = "list"] /\ UNCHANGED queue
    /\ UNCHANGED <<wifi, httpVars, victims, num, files, made, seq, cloudVars, refused,
                   faults, reboots>>
-------------------------------------------------------------------------------
(* storage_manager_store_http_failure, in either task.                     *)

\* How many failure files are left by a rotation that keeps the k newest of the prefix:
\* /http_config.json may be one of these, whatever its age, or already have been removed.
Leaves(k) == {k, k - Foreign}

\* The files a rotation that leaves the k newest removes.
Oldest(k) ==
    {f \in files : Cardinality({g \in files : g.at > f.at}) >= k}

\* Mutant: the files are sorted the wrong way round.
List_NewestFirst(w) ==
    /\ stage[w] \in {"list", "relist"}
    /\ victims' = [victims EXCEPT ![w] = {f.num : f \in
                   {f \in files : Cardinality({g \in files : g.at < f.at}) >= Keep}}]
    /\ stage' = [stage EXCEPT ![w] = IF @ = "list" THEN "remove" ELSE "reremove"]
    /\ UNCHANGED <<sendVars, wifi, httpVars, num, files, made, seq, cloudVars, refused,
                   faults, reboots>>

\* Mutant: nothing is ever found too old.
List_Nothing(w) ==
    /\ stage[w] \in {"list", "relist"}
    /\ victims' = [victims EXCEPT ![w] = {}]
    /\ stage' = [stage EXCEPT ![w] = IF @ = "list" THEN "remove" ELSE "reremove"]
    /\ UNCHANGED <<sendVars, wifi, httpVars, num, files, made, seq, cloudVars, refused,
                   faults, reboots>>

\* storage_rotate_prefix lists the files under s_lock, lets it go and sorts them.
List(w) ==
    /\ stage[w] \in {"list", "relist"}
    /\ \E k \in Leaves(Keep) :
         victims' = [victims EXCEPT ![w] = {f.num : f \in Oldest(k)}]
    /\ stage' = [stage EXCEPT ![w] = IF @ = "list" THEN "remove" ELSE "reremove"]
    /\ UNCHANGED <<sendVars, wifi, httpVars, num, files, made, seq, cloudVars, refused,
                   faults, reboots>>

\* It takes s_lock again to remove them, by name.
Remove(w) ==
    /\ stage[w] \in {"remove", "reremove"}
    /\ files' = {f \in files : f.num \notin victims[w]}
    /\ victims' = [victims EXCEPT ![w] = {}]
    /\ stage' = [stage EXCEPT ![w] = IF @ = "remove" THEN "load" ELSE "rewrite"]
    /\ UNCHANGED <<sendVars, wifi, httpVars, num, made, seq, cloudVars, refused, faults,
                   reboots>>

\* ++s_http_failure_seq, a load and a store that nothing makes one step.
Load(w) ==
    /\ stage[w] = "load"
    /\ num' = [num EXCEPT ![w] = seq + 1]
    /\ stage' = [stage EXCEPT ![w] = "bump"]
    /\ UNCHANGED <<sendVars, wifi, httpVars, victims, files, made, seq, cloudVars, refused,
                   faults, reboots>>

Bump(w) ==
    /\ stage[w] = "bump"
    /\ seq' = num[w]
    /\ stage' = [stage EXCEPT ![w] = "write"]
    /\ UNCHANGED <<sendVars, wifi, httpVars, victims, num, files, made, cloudVars, refused,
                   faults, reboots>>

\* storage_manager_write_text finds the flash 80 % full and rotates once more.
Full(w) ==
    /\ stage[w] = "write"
    /\ Fault
    /\ stage' = [stage EXCEPT ![w] = "relist"]
    /\ UNCHANGED <<sendVars, wifi, httpVars, victims, num, files, made, seq, cloudVars,
                   refused, reboots>>

\* Mutant: the HTTP task does not get back to its loop.
Stored_TaskEnds(w) ==
    /\ stage' = [stage EXCEPT ![w] = "idle"]
    /\ http' = IF w = "http" THEN "ended" ELSE http
    /\ item' = IF w = "http" THEN 0 ELSE item

\* The end of a store: back to the loop of the HTTP task, or to the telemetry task.
Stored(w) ==
    /\ stage' = [stage EXCEPT ![w] = "idle"]
    /\ http' = IF w = "http" THEN "drain" ELSE http
    /\ item' = IF w = "http" THEN 0 ELSE item

\* The files after writer w wrote its own, over one of the same name, those of kept
\* being left.
Written(w, kept, what) ==
    {f \in kept : f.num # num[w]} \union {[num |-> num[w], what |-> what, at |-> Len(made) + 1]}

\* storage_write.  A full flash is cleaned first, to Keep files or to KeepHard; the
\* write may then be refused or break off.
Write(w) ==
    /\ stage[w] \in {"write", "rewrite"}
    /\ Stored(w)
    /\ \/ /\ files' = Written(w, files, Last(w)) /\ made' = Append(made, Last(w))
          /\ UNCHANGED <<refused, faults>>
       \/ /\ Fault
          /\ \E k \in Leaves(Keep) \union Leaves(KeepHard) :
               LET kept == files \ Oldest(k) IN
               \/ /\ files' = Written(w, kept, Last(w)) /\ made' = Append(made, Last(w))
                  /\ UNCHANGED refused
               \/ /\ files' = Written(w, kept, Torn) /\ made' = Append(made, Torn)
                  /\ refused' = refused \union {Last(w)}
               \/ /\ files' = kept /\ UNCHANGED made
                  /\ refused' = refused \union {Last(w)}
    /\ UNCHANGED <<sendVars, wifi, attempt, victims, num, seq, cloudVars, reboots>>
-------------------------------------------------------------------------------
(* smartload_http_task.                                                    *)

HttpBegin ==
    /\ http = "idle"
    /\ wifi
    /\ http' = "drain"
    /\ UNCHANGED <<sendVars, wifi, item, attempt, storeVars, cloudVars, refused, faults,
                   reboots>>

HttpTake ==
    /\ http = "drain"
    /\ queue # <<>>
    /\ item' = Head(queue) /\ queue' = Tail(queue)
    /\ attempt' = 1
    /\ http' = "try"
    /\ UNCHANGED <<next, wifi, storeVars, cloudVars, refused, faults, reboots>>

\* The queue is empty; the pulls follow, then a pause.
HttpRest ==
    /\ http = "drain"
    /\ queue = <<>>
    /\ http' = "idle"
    /\ UNCHANGED <<sendVars, wifi, item, attempt, storeVars, cloudVars, refused, faults,
                   reboots>>

StoreItem ==
    /\ http' = "store"
    /\ stage' = [stage EXCEPT !["http"] = "list"]

\* Mutant: without the network the payload is given up.
PostOffline_Drops ==
    /\ http = "try"
    /\ ~wifi
    /\ http' = "drain" /\ item' = 0
    /\ UNCHANGED <<sendVars, wifi, attempt, storeVars, cloudVars, refused, faults, reboots>>

\* Every try begins with a look at the network.
PostOffline ==
    /\ http = "try"
    /\ ~wifi
    /\ StoreItem
    /\ UNCHANGED <<sendVars, wifi, item, attempt, victims, num, files, made, seq, cloudVars,
                   refused, faults, reboots>>

PostOk ==
    /\ http = "try"
    /\ wifi
    /\ arrived' = Append(arrived, item)
    /\ confirmed' = confirmed \union {item}
    /\ http' = "drain" /\ item' = 0
    /\ UNCHANGED <<sendVars, wifi, attempt, storeVars, refused, faults, reboots>>

\* Mutant: a payload to be tried again waits for its turn at the end of the queue.
PostNoStatus_Requeues ==
    /\ http = "try"
    /\ wifi
    /\ Fault
    /\ arrived' \in {arrived, Append(arrived, item)}
    /\ IF Len(queue) < QueueDepth
         THEN queue' = Append(queue, item) /\ http' = "drain" /\ item' = 0 /\ UNCHANGED stage
         ELSE StoreItem /\ UNCHANGED <<queue, item>>
    /\ UNCHANGED <<next, wifi, attempt, victims, num, files, made, seq, confirmed,
                   refused, reboots>>

\* Mutant: the tries are not counted to retry_max.
PostNoStatus_OffByOne ==
    /\ http = "try"
    /\ wifi
    /\ Fault
    /\ arrived' \in {arrived, Append(arrived, item)}
    /\ IF attempt <= Tries
         THEN attempt' = attempt + 1 /\ UNCHANGED <<http, stage>>
         ELSE StoreItem /\ UNCHANGED attempt
    /\ UNCHANGED <<sendVars, wifi, item, victims, num, files, made, seq, confirmed,
                   refused, reboots>>

\* No answer at all: the service may have the payload.  Try again, or store it.
PostNoStatus ==
    /\ http = "try"
    /\ wifi
    /\ Fault
    /\ arrived' \in {arrived, Append(arrived, item)}
    /\ IF attempt < Tries
         THEN attempt' = attempt + 1 /\ UNCHANGED <<http, stage>>
         ELSE StoreItem /\ UNCHANGED attempt
    /\ UNCHANGED <<sendVars, wifi, item, victims, num, files, made, seq, confirmed,
                   refused, reboots>>

\* An answer other than success, or one that broke off, is final.
PostRejected ==
    /\ http = "try"
    /\ wifi
    /\ Fault
    /\ arrived' \in {arrived, Append(arrived, item)}
    /\ StoreItem
    /\ UNCHANGED <<sendVars, wifi, item, attempt, victims, num, files, made, seq, confirmed,
                   refused, reboots>>
-------------------------------------------------------------------------------
(* The network and the power supply.                                       *)

WifiUp ==
    /\ ~wifi
    /\ wifi' = TRUE
    /\ UNCHANGED <<sendVars, httpVars, storeVars, cloudVars, refused, faults, reboots>>

WifiDown ==
    /\ wifi
    /\ Fault
    /\ wifi' = FALSE
    /\ UNCHANGED <<sendVars, httpVars, storeVars, cloudVars, refused, reboots>>

\* What was in memory and not yet delivered counts as refused.
Reboot ==
    /\ reboots < MaxReboots
    /\ reboots' = reboots + 1
    /\ refused' = refused \union {queue[i] : i \in DOMAIN queue}
                    \union (IF http \in {"try", "store"} THEN {item} ELSE {})
                    \union (IF stage["telemetry"] # "idle" THEN {next - 1} ELSE {})
    /\ queue' = <<>> /\ wifi' = FALSE
    /\ http' = "idle" /\ item' = 0 /\ attempt' = 1
    /\ stage' = [w \in Writers |-> "idle"]
    /\ victims' = [w \in Writers |-> {}] /\ num' = [w \in Writers |-> 0] /\ seq' = 0
    /\ UNCHANGED <<next, files, made, cloudVars, faults>>

Next ==
    \/ Send
    \/ \E w \in Writers : List(w) \/ Remove(w) \/ Load(w) \/ Bump(w) \/ Full(w) \/ Write(w)
    \/ HttpBegin \/ HttpTake \/ HttpRest
    \/ PostOffline \/ PostOk \/ PostNoStatus \/ PostRejected
    \/ WifiUp \/ WifiDown \/ Reboot

Spec == Init /\ [][Next]_vars

\* Both tasks run, a request ends within its timeout, and wifi_mgr reconnects as
\* often as the network is lost.
Fairness ==
    /\ \A w \in Writers :
         WF_vars(List(w) \/ Remove(w) \/ Load(w) \/ Bump(w) \/ Full(w) \/ Write(w))
    /\ SF_vars(HttpBegin)
    /\ WF_vars(HttpTake \/ HttpRest)
    /\ WF_vars(PostOffline \/ PostOk \/ PostNoStatus \/ PostRejected)
    /\ WF_vars(WifiUp)

FairSpec == Spec /\ Fairness
-------------------------------------------------------------------------------
(* Properties.                                                             *)

\* The failure files never outgrow the limit by more than the two tasks that may
\* be past their rotation at the same time (storage_rotate_prefix).
StoreBounded == Cardinality(files) <= Keep + Cardinality(Writers)

\* Where a payload may be: each is in exactly one of these places.
Places(m) ==
    {p \in {"queue", "posting", "rejected", "confirmed", "stored", "refused"} :
        CASE p = "queue" -> \E i \in DOMAIN queue : queue[i] = m
          [] p = "posting" -> item = m
          [] p = "rejected" -> stage["telemetry"] # "idle" /\ next - 1 = m
          [] p = "confirmed" -> m \in confirmed
          [] p = "stored" -> \E i \in DOMAIN made : made[i] = m
          [] p = "refused" -> m \in refused}

\* Every payload handed to smartload_http_send has one fate: it waits in one place,
\* its POST was confirmed, it was stored once, or it was given up for a full or
\* broken flash or a reset; none is forgotten and none both confirmed and stored.
OneFate == \A m \in 1 .. next - 1 : Cardinality(Places(m)) = 1

\* The service receives the payloads in the order they were sent in, whatever is
\* repeated or given up in between, and none more often than retry_max times.
ArrivesInOrder ==
    /\ \A i, j \in DOMAIN arrived : i < j => arrived[i] <= arrived[j]
    /\ \A m \in Msgs : Cardinality({i \in DOMAIN arrived : arrived[i] = m}) <= Tries

\* storage_manager.c:86 reports "Stored failed HTTP payload at" a path.  The newest
\* of the payloads so stored stay readable, as many as the strictest cleanup keeps, less
\* the place that /http_config.json may take.
NewestKept ==
    \A i \in DOMAIN made :
        made[i] # Torn /\ Len(made) - i < KeepHard - Foreign => \E f \in files : f.at = i

\* It holds as long as the two tasks never store at the same time and no reset clears
\* the number of the next file.
OneWriterAtATime ==
    reboots = 0 /\ \E w \in Writers : stage[w] = "idle"
NewestKeptByOne == []OneWriterAtATime => []NewestKept

\* Every payload sent is posted or stored or given up in the end: the queue does
\* not hold it for ever.
EverySendSettles ==
    \A m \in Msgs :
        m < next ~> ~(\E i \in DOMAIN queue : queue[i] = m) /\ item # m
                    /\ (stage["telemetry"] = "idle" \/ next - 1 # m)
===============================================================================
