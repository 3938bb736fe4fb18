----------------------------- MODULE RuntimeConfig ------------------------------
(***************************************************************************)
(* The runtime configuration: s_runtime_cfg of main.c, the copy that       *)
(* azure_iot.c keeps, and what app_config stores of it in NVS and in       *)
(* /runtime_config.json.  Three tasks write it: the MQTT client task (twin *)
(* documents), the HTTP task (the config pull) and, with a snapshot that   *)
(* may be old by then, whoever calls azure_iot_init.  s_runtime_lock       *)
(* covers one copy of s_runtime_cfg at a time, never a whole update, and   *)
(* nothing guards the copy in azure_iot.c.                                 *)
(***************************************************************************)
EXTENDS Naturals, Sequences, SequencesExt, FiniteSets

CONSTANTS Names,      \* fields that are strings: ro_code, device_name, device_params
          Objects,    \* the strings that hold a JSON object: device_params
          Numbers,    \* fields that are numbers: the two intervals
          TwinFields, \* the fields a twin document may set
          KeyOrder,   \* the fields in the order in which they are saved
          None,       \* a file that does not exist or that does not parse
          MaxUpdates, \* bound on the twin documents and config pulls
          MaxFaults,  \* bound on writes that fail
          MaxReboots

Fields == Names \union Numbers

ASSUME ConstantsAssumption ==
    /\ Names \intersect Numbers = {} /\ Objects \subseteq Names
    /\ TwinFields \subseteq Fields
    /\ KeyOrder \in Seq(Fields) /\ Range(KeyOrder) = Fields
    /\ Len(KeyOrder) = Cardinality(Fields)
    /\ MaxUpdates \in Nat /\ MaxFaults \in Nat /\ MaxReboots \in Nat

\* What a field holds: 0 is the empty string, or the default of an interval; Braces is
\* "{}", which stands in the file for an object that is the empty string.
Braces == MaxUpdates + 2
Vals == 0 .. Braces
Configs == [Fields -> Vals]
Blank == [f \in Fields |-> 0]

ASSUME NoneAssumption == None \notin Configs

Tasks == {"cloud", "http", "mqtt"}

VARIABLES main,     \* s_runtime_cfg of main.c
          azure,    \* s.runtime_cfg of azure_iot.c
          nvs,      \* the five keys of NVS; a missing key reads as 0
          file,     \* /runtime_config.json
          pc,       \* pc[t]: where task t is
          key,      \* key[t]: the index in KeyOrder of the key t saves next
          local,    \* local[t]: the configuration on the stack of t
          pulled,   \* s_config_pull_done
          reported, \* on_connection_string was called (ToldOnce of ConnectionPull)
          online,   \* azure_iot_init has been called, so that a client may exist
          updates, faults, reboots,
          crowd,    \* the tasks inside an update that overlapped another one
          alone,    \* the last update to end overlapped none
          mixed,    \* two updates overlapped since the reset
          given,    \* given[f]: the value last given to f
          dirty,    \* a write of the last save failed
          wiped,    \* azure_iot_init cleared the copy while the client task used it
          kept      \* kept[f]: the values of f a boot may come up with

ram == <<main, azure>>
flash == <<nvs, file>>
control == <<pc, key, local>>
flags == <<pulled, reported, online>>
overlap == <<crowd, alone, mixed>>
judging == <<given, dirty, wiped, kept>>
bounds == <<updates, faults, reboots>>
vars == <<ram, flash, control, flags, overlap, judging, bounds>>

Locations == {"idle", "start", "clear", "fill", "overlay", "save", "apply",
              "again", "set"}

\* A task is inside an update from the first copy it takes to the last it makes.
Outside == {"idle", "start"}
Inside == {t \in Tasks : pc[t] \notin Outside}

TypeOK ==
    /\ {main, azure, nvs} \subseteq Configs
    /\ file \in Configs \union {None}
    /\ pc \in [Tasks -> Locations]
    /\ key \in [Tasks -> 1 .. Len(KeyOrder) + 1]
    /\ local \in [Tasks -> Configs]
    /\ {pulled, reported, online, alone, mixed, dirty, wiped} \subseteq BOOLEAN
    /\ pulled => pc["http"] \notin {"overlay", "save", "set"}
    /\ crowd \subseteq Inside
    /\ Cardinality(Inside) > 1 => mixed
    /\ given \in Configs
    /\ kept \in [Fields -> SUBSET Vals]
    /\ updates \in 0 .. MaxUpdates /\ faults \in 0 .. MaxFaults
    /\ reboots \in 0 .. MaxReboots

\* app_config_load_runtime: the file counts only when NVS has none of the strings,
\* and then for every field.
Load(n, f) ==
    IF f = None \/ \E s \in Names : n[s] # 0 THEN n ELSE f

\* A device provisioned in NVS, with a file, or not at all.  The first key saved by
\* one that has only a file hides that file: until its first save is complete a boot
\* may find the default of a field.
Init ==
    /\ nvs \in {Blank, [f \in Fields |-> 1]}
    /\ file \in {None, [f \in Fields |-> 1]}
    /\ main = Load(nvs, file) /\ azure = Blank
    /\ pc = [t \in Tasks |-> IF t = "cloud" THEN "start" ELSE "idle"]
    /\ key = [t \in Tasks |-> 1] /\ local = [t \in Tasks |-> Blank]
    /\ pulled = FALSE /\ reported = FALSE /\ online = FALSE
    /\ updates = 0 /\ faults = 0 /\ reboots = 0
    /\ crowd = {} /\ alone = FALSE /\ mixed = FALSE
    /\ given = main /\ dirty = FALSE /\ wiped = FALSE
    /\ kept = [f \in Fields |-> {main[f], nvs[f]}]

Goto(t, l) == pc' = [pc EXCEPT ![t] = l]

\* History: an update begins or ends.
Enter(t) ==
    /\ crowd' = IF Inside = {} THEN crowd ELSE crowd \union Inside \union {t}
    /\ mixed' = (mixed \/ Inside # {})
    /\ UNCHANGED alone
Leave(t) ==
    /\ crowd' = crowd \ {t}
    /\ alone' = (t \notin crowd)
    /\ UNCHANGED mixed
-------------------------------------------------------------------------------
(* app_config_save_runtime, called by t with the configuration Saved(t).     *)

\* The client task passes a pointer to s.runtime_cfg itself, which others may
\* change while the keys are written one by one.
Saved(t) == IF t = "mqtt" THEN azure ELSE local[t]

\* The value and its fields become what a boot may come up with.
Offer(cfg) == kept' = [f \in Fields |-> kept[f] \union {cfg[f]}]

\* nvs_manager_set_str and nvs_manager_set_i32: the key has the new value, or an
\* error is returned.
SetKey(f, value) ==
    \/ nvs' = [nvs EXCEPT ![f] = value] /\ UNCHANGED <<faults, dirty>>
    \/ /\ faults < MaxFaults
       /\ faults' = faults + 1
       /\ dirty' = TRUE
       /\ UNCHANGED nvs

\* Mutant: an empty string is not written.
SaveKey_NotEmpty(t) ==
    /\ pc[t] \in {"save", "again"}
    /\ key[t] <= Len(KeyOrder)
    /\ LET f == KeyOrder[key[t]] IN
         SetKey(f, IF Saved(t)[f] = 0 /\ f \in Names THEN nvs[f] ELSE Saved(t)[f])
    /\ key' = [key EXCEPT ![t] = @ + 1]
    /\ UNCHANGED <<ram, file, pc, local, flags, overlap, given, wiped, kept, updates, reboots>>

\* The next key; an error is only logged.
SaveKey(t) ==
    /\ pc[t] \in {"save", "again"}
    /\ key[t] <= Len(KeyOrder)
    /\ SetKey(KeyOrder[key[t]], Saved(t)[KeyOrder[key[t]]])
    /\ key' = [key EXCEPT ![t] = @ + 1]
    /\ UNCHANGED <<ram, file, pc, local, flags, overlap, given, wiped, kept, updates, reboots>>

\* What the file says of a configuration.
Printed(cfg) == [f \in Fields |-> IF f \in Objects /\ cfg[f] = 0 THEN Braces ELSE cfg[f]]

\* The file comes last.  Its result is what the save returns, and no caller looks
\* at it; a write that fails leaves the old file or one that does not parse.
SaveFile(t) ==
    \/ file' = Printed(Saved(t)) /\ UNCHANGED <<faults, dirty>>
    \/ /\ faults < MaxFaults
       /\ faults' = faults + 1
       /\ dirty' = TRUE
       /\ file' \in {file, None}

\* A save begins: what it is about to write may be read at the next boot.
StartSave(t) == key' = [key EXCEPT ![t] = 1] /\ dirty' = FALSE

\* The last save of t is over.  Unless something went wrong, or got in between, it
\* made history of everything older.
Settle(t) ==
    kept' = IF t \notin crowd /\ ~dirty' THEN [f \in Fields |-> {Saved(t)[f]}] ELSE kept
-------------------------------------------------------------------------------
(* handle_twin_message, in the client task, with on_twin_update.             *)

\* The named fields are overwritten in place, then the first save starts.
Twin ==
    /\ pc["mqtt"] = "idle" /\ online
    /\ updates < MaxUpdates
    /\ updates' = updates + 1
    /\ \E S \in (SUBSET TwinFields) \ {{}} : \E v \in {0, updates + 2} :
         /\ azure' = [f \in Fields |-> IF f \in S THEN v ELSE azure[f]]
         /\ given' = [f \in Fields |-> IF f \in S THEN v ELSE given[f]]
    /\ Offer(azure')
    /\ wiped' = (wiped \/ \E t \in Tasks : pc[t] = "fill")
    /\ Goto("mqtt", "save") /\ StartSave("mqtt") /\ Enter("mqtt")
    /\ UNCHANGED <<main, flash, local, flags, faults, reboots>>

TwinSaved ==
    /\ pc["mqtt"] = "save" /\ key["mqtt"] > Len(KeyOrder)
    /\ SaveFile("mqtt")
    /\ Goto("mqtt", "apply")
    /\ UNCHANGED <<ram, nvs, key, local, flags, overlap, given, wiped, kept, updates, reboots>>

\* Mutant: main.c saves the document and goes on with what it had.
TwinApply_SavesOnly ==
    /\ pc["mqtt"] = "apply"
    /\ Offer(azure)
    /\ Goto("mqtt", "again") /\ StartSave("mqtt")
    /\ UNCHANGED <<ram, flash, local, flags, overlap, given, wiped, bounds>>

\* s_twin_cb: apply_runtime_config copies s.runtime_cfg to s_runtime_cfg, under
\* s_runtime_lock, and saves it once more.
TwinApply ==
    /\ pc["mqtt"] = "apply"
    /\ main' = azure
    /\ Offer(azure)
    /\ Goto("mqtt", "again") /\ StartSave("mqtt")
    /\ UNCHANGED <<azure, flash, local, flags, overlap, given, wiped, bounds>>

\* The end of the second save; azure_iot_set_runtime_config copies s.runtime_cfg to
\* itself.
TwinEnd ==
    /\ pc["mqtt"] = "again" /\ key["mqtt"] > Len(KeyOrder)
    /\ SaveFile("mqtt") /\ Settle("mqtt")
    /\ Goto("mqtt", "idle") /\ Leave("mqtt")
    /\ UNCHANGED <<ram, nvs, key, local, flags, given, wiped, updates, reboots>>
-------------------------------------------------------------------------------
(* smartload_http_process_config_pull, once per boot.                        *)

\* Mutant: every round of the task pulls.
PullSnapshot_Again ==
    /\ pc["http"] = "idle"
    /\ updates < MaxUpdates
    /\ updates' = updates + 1
    /\ local' = [local EXCEPT !["http"] = main]
    /\ Goto("http", "overlay") /\ Enter("http")
    /\ UNCHANGED <<ram, flash, key, flags, given, dirty, wiped, kept, faults, reboots>>

\* An answer arrived, and get_runtime_snapshot copies s_runtime_cfg.
PullSnapshot ==
    /\ pc["http"] = "idle" /\ ~pulled
    /\ updates < MaxUpdates
    /\ updates' = updates + 1
    /\ local' = [local EXCEPT !["http"] = main]
    /\ Goto("http", "overlay") /\ Enter("http")
    /\ UNCHANGED <<ram, flash, key, flags, given, dirty, wiped, kept, faults, reboots>>

\* The named fields are laid over the snapshot, an empty string counting as none except
\* for device_params, and apply_runtime_config makes the result s_runtime_cfg.
PullApply ==
    /\ pc["http"] = "overlay"
    /\ \E S \in (SUBSET Fields) \ {{}} : \E v \in {0, updates + 1} :
         /\ v = 0 => S \intersect Names \subseteq Objects
         /\ local' = [local EXCEPT !["http"] = [f \in Fields |-> IF f \in S THEN v ELSE @[f]]]
         /\ given' = [f \in Fields |-> IF f \in S THEN v ELSE given[f]]
    /\ main' = local'["http"]
    /\ Offer(local'["http"])
    /\ Goto("http", "save") /\ StartSave("http")
    /\ UNCHANGED <<azure, flash, flags, overlap, wiped, updates, faults, reboots>>

PullSaved ==
    /\ pc["http"] = "save" /\ key["http"] > Len(KeyOrder)
    /\ SaveFile("http") /\ Settle("http")
    /\ Goto("http", "set")
    /\ UNCHANGED <<ram, nvs, key, local, flags, overlap, given, wiped, updates, reboots>>

\* Mutant: azure_iot.c is not told.
PullSet_NotCalled ==
    /\ pc["http"] = "set"
    /\ pulled' = TRUE
    /\ Goto("http", "idle") /\ Leave("http")
    /\ local' = [local EXCEPT !["http"] = Blank]
    /\ UNCHANGED <<ram, flash, key, reported, online, judging, bounds>>

\* azure_iot_set_runtime_config, without a lock.
PullSet ==
    /\ pc["http"] = "set"
    /\ azure' = local["http"]
    /\ pulled' = TRUE
    /\ Goto("http", "idle") /\ Leave("http")
    /\ local' = [local EXCEPT !["http"] = Blank]
    /\ UNCHANGED <<main, flash, key, reported, online, judging, bounds>>
-------------------------------------------------------------------------------
(* connect_azure_if_possible, in cloud_init and in on_http_connection_update. *)

\* The snapshot comes first; loading the credentials and checking Wi-Fi follow, and
\* may end it all.  A second report never comes.
ConnectSnapshot(t) ==
    /\ \/ t = "cloud" /\ pc[t] = "start" /\ UNCHANGED reported
       \/ t = "http" /\ pc[t] = "idle" /\ ~reported /\ reported' = TRUE
    /\ \/ /\ local' = [local EXCEPT ![t] = main]
          /\ Goto(t, "clear") /\ Enter(t)
       \/ /\ Goto(t, "idle")
          /\ UNCHANGED <<local, overlap>>
    /\ UNCHANGED <<ram, flash, key, pulled, online, judging, bounds>>

\* memset(&s, 0, sizeof(s)) in azure_iot_init, with or without a client at work.
ConnectClear(t) ==
    /\ pc[t] = "clear"
    /\ azure' = Blank
    /\ wiped' = (wiped \/ pc["mqtt"] # "idle")
    /\ Goto(t, "fill")
    /\ UNCHANGED <<main, flash, key, local, flags, overlap, given, dirty, kept, bounds>>

ConnectFill(t) ==
    /\ pc[t] = "fill"
    /\ azure' = local[t]
    /\ online' = TRUE
    /\ local' = [local EXCEPT ![t] = Blank]
    /\ Goto(t, "idle") /\ Leave(t)
    /\ UNCHANGED <<main, flash, key, pulled, reported, judging, bounds>>
-------------------------------------------------------------------------------
\* A reset, at any step; a file that was being written may be torn.
Reboot ==
    /\ reboots < MaxReboots
    /\ reboots' = reboots + 1
    /\ \/ UNCHANGED file
       \/ /\ \E t \in Tasks : pc[t] \in {"save", "again"} /\ key[t] > Len(KeyOrder)
          /\ file' = None
    /\ main' = Load(nvs, file') /\ azure' = Blank
    /\ pc' = [t \in Tasks |-> IF t = "cloud" THEN "start" ELSE "idle"]
    /\ key' = [t \in Tasks |-> 1] /\ local' = [t \in Tasks |-> Blank]
    /\ pulled' = FALSE /\ reported' = FALSE /\ online' = FALSE
    /\ crowd' = {} /\ alone' = FALSE /\ mixed' = FALSE
    /\ given' = main' /\ dirty' = FALSE
    /\ UNCHANGED <<nvs, wiped, kept, updates, faults>>

Next ==
    \/ \E t \in Tasks : SaveKey(t) \/ ConnectSnapshot(t) \/ ConnectClear(t) \/ ConnectFill(t)
    \/ Twin \/ TwinSaved \/ TwinApply \/ TwinEnd
    \/ PullSnapshot \/ PullApply \/ PullSaved \/ PullSet
    \/ Reboot

Spec == Init /\ [][Next]_vars
-------------------------------------------------------------------------------
(* Properties.                                                             *)

\* Updates that overlap may leave main.c and azure_iot.c with different
\* configurations, but not for good: after the next update that overlaps none, twin,
\* pull or azure_iot_init, the telemetry carries what main.c works with.
CopiesAgree == Inside = {} /\ alone => azure = main

\* As long as no two updates overlap, no update is lost: each field has the value that
\* was last given to it, by the twin or by the pull, since the reset.
NothingLost == Inside = {} /\ ~mixed => main = given

\* What was saved when a boot reads v.
Means(f, v) == IF f \in Objects /\ v = Braces THEN {v, 0} ELSE {v}

\* A boot comes up, in each field, with the value of the last save all of whose writes
\* succeeded and that no other one overlapped, or with one of a later update, whatever
\* write failed and whenever the reset came.  Only when azure_iot_init has cleared the
\* copy under the hands of the client task can it come up with nothing.  An object that
\* was saved as the empty string may come back as "{}".
BootsWithWhatWasSaved ==
    [][reboots' # reboots /\ ~wiped =>
         \A f \in Fields : kept[f] \intersect Means(f, main'[f]) # {}]_vars
===============================================================================
