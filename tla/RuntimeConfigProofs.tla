-------------------------- MODULE RuntimeConfigProofs --------------------------
(***************************************************************************)
(* Theorems about RuntimeConfig, for any fields saved in any order, and    *)
(* any number of updates, failed writes and resets.                        *)
(***************************************************************************)
EXTENDS RuntimeConfig, FiniteSetTheorems, SequenceTheorems, TLAPS

\* TypeOK, one variable at a time: the configurations, then what guides the tasks.
CopyTypes ==
    /\ main \in Configs /\ azure \in Configs /\ nvs \in Configs /\ given \in Configs
    /\ file \in Configs \union {None}
    /\ local \in [Tasks -> Configs]
    /\ kept \in [Fields -> SUBSET Vals]

ControlTypes ==
    /\ pc \in [Tasks -> Locations]
    /\ key \in [Tasks -> 1 .. Len(KeyOrder) + 1]
    /\ updates \in 0 .. MaxUpdates /\ faults \in 0 .. MaxFaults
    /\ reboots \in 0 .. MaxReboots

FlagTypes ==
    /\ pulled \in BOOLEAN /\ reported \in BOOLEAN /\ online \in BOOLEAN
    /\ alone \in BOOLEAN /\ mixed \in BOOLEAN /\ dirty \in BOOLEAN /\ wiped \in BOOLEAN
    /\ pulled => pc["http"] \notin {"overlay", "save", "set"}

\* Who may be where: azure_iot_init runs in cloud_init and in the HTTP task, the pull in
\* the HTTP task, the twin in the client task.
PlaceInv ==
    /\ pc["cloud"] \in {"start", "idle", "clear", "fill"}
    /\ pc["http"] \in {"idle", "overlay", "save", "set", "clear", "fill"}
    /\ pc["mqtt"] \in {"idle", "save", "apply", "again"}

\* The update of t has been by itself so far.
Solo(t) == t \in Inside /\ t \notin crowd

\* Such an update is the only one there is, and until the first two overlap all are so.
OverlapInv ==
    /\ crowd \subseteq Inside
    /\ \A t, u \in Inside : t # u => t \in crowd
    /\ ~mixed => crowd = {}

\* What an update that is by itself has made of the two copies.
CopyOf(t) ==
    Solo(t) =>
      /\ pc[t] = "again" => main = azure
      /\ t = "http" /\ pc[t] \in {"save", "set"} => main = local[t]
      /\ pc[t] \in {"clear", "fill"} => main = local[t]

CopyInv == CopiesAgree /\ \A t \in Tasks : CopyOf(t)

\* Where the value last given to each field is, as long as no two updates overlapped.
Given ==
    /\ pc["mqtt"] \in {"idle", "again"} => main = given
    /\ pc["mqtt"] # "idle" => azure = given
    /\ pc["http"] = "overlay" => main = local["http"]
    /\ Inside = {} /\ online => azure = given

GivenInv == ~mixed => Given

\* What an update that is by itself has written of its configuration.
WrittenOf(t) ==
    Solo(t) /\ pc[t] \in {"save", "again"} /\ ~dirty =>
      \A i \in 1 .. Len(KeyOrder) : i < key[t] => nvs[KeyOrder[i]] = Saved(t)[KeyOrder[i]]

WrittenInv == \A t \in Tasks : WrittenOf(t)

\* A boot that finds v in field f has found one of the values that were saved.
Known(values, f, v) == values \intersect Means(f, v) # {}

\* A boot may come up with whatever is, or may yet be, written.
KeptAt(f) ==
    /\ Known(kept[f], f, nvs[f]) /\ Known(kept[f], f, main[f])
    /\ file # None => Known(kept[f], f, file[f])
    /\ pc["mqtt"] # "idle" => Known(kept[f], f, azure[f])
    /\ pc["http"] \in {"save", "set"} => Known(kept[f], f, local["http"][f])
    /\ \A t \in Tasks : pc[t] \in {"clear", "fill"} => Known(kept[f], f, local[t][f])

KeptInv == ~wiped => \A f \in Fields : KeptAt(f)

IInv == /\ CopyTypes /\ ControlTypes /\ FlagTypes /\ PlaceInv /\ OverlapInv
        /\ CopyInv /\ GivenInv /\ WrittenInv /\ KeptInv
-------------------------------------------------------------------------------
(* One update at a time.                                                   *)

\* The keys are the fields, each of which has its turn.
LEMMA Keys ==
  /\ Len(KeyOrder) \in Nat
  /\ \A i \in 1 .. Len(KeyOrder) : KeyOrder[i] \in Fields
  /\ \A f \in Fields : \E i \in 1 .. Len(KeyOrder) : KeyOrder[i] = f
<1>1. DOMAIN KeyOrder = 1 .. Len(KeyOrder) /\ Len(KeyOrder) \in Nat
  BY ConstantsAssumption, LenProperties
<1> QED
  BY <1>1, ConstantsAssumption, ElementOfSeq DEF Range

\* Who is inside an update, task by task.
LEMMA Insides ==
  /\ \A t \in Tasks : t \in Inside <=> pc[t] \notin Outside
  /\ Inside \subseteq Tasks
  /\ Inside = {} <=> \A t \in Tasks : pc[t] \in Outside
  BY DEF Inside

\* The same after a step.
LEMMA InsidesAfter ==
  /\ \A t \in Tasks : t \in Inside' <=> pc'[t] \notin Outside
  /\ Inside' \subseteq Tasks
  /\ Inside' = {} <=> \A t \in Tasks : pc'[t] \in Outside
  BY DEF Inside, Outside

\* A step of an update: t enters one, goes on inside it, or leaves it.
Enters(t) == pc[t] \in Outside /\ pc'[t] \notin Outside /\ Enter(t)
GoesOn(t) == pc[t] \notin Outside /\ pc'[t] \notin Outside /\ UNCHANGED overlap
Leaves(t) == pc[t] \notin Outside /\ pc'[t] \in Outside /\ Leave(t)
Acts(t) ==
    /\ Enters(t) \/ GoesOn(t) \/ Leaves(t)
    /\ \A u \in Tasks \ {t} : pc'[u] = pc[u]

\* After a step of t every other update there is has been overlapped, and without any
\* overlap there is none.
LEMMA OneActor ==
  ASSUME OverlapInv, NEW t \in Tasks, Acts(t)
  PROVE  /\ OverlapInv'
         /\ \A u \in Tasks \ {t} : ~Solo(u)'
         /\ ~mixed' => ~mixed /\ \A u \in Tasks \ {t} : pc[u] \in Outside
         /\ Solo(t)' => Solo(t) \/ Inside = {}
<1> USE Insides, InsidesAfter DEF OverlapInv, Solo
<1>1. CASE Enters(t)
  <2>1. ASSUME NEW u \in Tasks \ {t} PROVE ~Solo(u)'
    BY <1>1, <2>1 DEF Enters, Enter, Acts
  <2>2. crowd' \subseteq Inside'
    BY <1>1 DEF Enters, Enter, Acts
  <2>3. ASSUME NEW u \in Inside', NEW v \in Inside', u # v PROVE u \in crowd'
    BY <1>1, <2>3 DEF Enters, Enter, Acts
  <2>4. ~mixed' => ~mixed /\ Inside = {} /\ crowd' = {}
    BY <1>1 DEF Enters, Enter, Acts
  <2>5. Solo(t)' => Inside = {}
    BY <1>1 DEF Enters, Enter, Acts
  <2> QED
    BY <2>1, <2>2, <2>3, <2>4, <2>5
<1>2. CASE GoesOn(t)
  BY <1>2 DEF GoesOn, overlap, Acts
<1>3. CASE Leaves(t)
  BY <1>3 DEF Leaves, Leave, Acts
<1> QED
  BY <1>1, <1>2, <1>3 DEF Acts

\* Two updates at once are counted as overlapping.
LEMMA MixedWhenTwo == OverlapInv => (Cardinality(Inside) > 1 => mixed)
<1> SUFFICES ASSUME OverlapInv, ~mixed PROVE ~(Cardinality(Inside) > 1)
  OBVIOUS
<1>1. CASE Inside = {}
  BY <1>1, FS_EmptySet
<1>2. CASE Inside # {}
  <2>1. PICK t \in Inside : TRUE
    BY <1>2
  <2>2. Inside = {t}
    BY <2>1 DEF OverlapInv
  <2> QED
    BY <2>2, FS_Singleton
<1> QED
  BY <1>1, <1>2

\* The parts of the invariant give TypeOK.
LEMMA TypeParts == IInv => TypeOK
  BY MixedWhenTwo DEF IInv, TypeOK, CopyTypes, ControlTypes, FlagTypes, OverlapInv

\* ConnectSnapshot, when there is something to connect with and when there is not.
Connects(t) ==
    /\ t \in {"cloud", "http"} /\ pc[t] \in Outside
    /\ local' = [local EXCEPT ![t] = main]
    /\ Goto(t, "clear") /\ Enter(t)
    /\ UNCHANGED <<ram, flash, key, pulled, online, judging, bounds>>
GivesUp(t) ==
    /\ t \in {"cloud", "http"} /\ pc[t] \in Outside
    /\ Goto(t, "idle")
    /\ UNCHANGED <<ram, flash, key, local, pulled, online, overlap, judging, bounds>>

\* Every step is one of an update, or gives up, or is a reset.
LEMMA Actors ==
  ASSUME PlaceInv, pc \in [Tasks -> Locations]
  PROVE
  /\ \A t \in Tasks : SaveKey(t) => Acts(t) /\ t \in {"http", "mqtt"}
  /\ \A t \in Tasks : ConnectSnapshot(t) => Connects(t) \/ GivesUp(t)
  /\ \A t \in Tasks : Connects(t) => Acts(t)
  /\ \A t \in Tasks : ConnectClear(t) \/ ConnectFill(t) => Acts(t) /\ t \in {"cloud", "http"}
  /\ Twin \/ TwinSaved \/ TwinApply \/ TwinEnd => Acts("mqtt")
  /\ PullSnapshot \/ PullApply \/ PullSaved \/ PullSet => Acts("http")
<1> USE DEF Acts, Enters, GoesOn, Leaves, Goto, Outside, PlaceInv, Tasks, overlap
<1>1. ASSUME NEW t \in Tasks, SaveKey(t) PROVE Acts(t) /\ t \in {"http", "mqtt"}
  BY <1>1 DEF SaveKey, control
<1>2. ASSUME NEW t \in Tasks
      PROVE  /\ ConnectSnapshot(t) => Connects(t) \/ GivesUp(t)
             /\ Connects(t) => Acts(t)
  BY DEF ConnectSnapshot, Connects, GivesUp
<1>3. ASSUME NEW t \in Tasks, ConnectClear(t) \/ ConnectFill(t)
      PROVE  Acts(t) /\ t \in {"cloud", "http"}
  BY <1>3 DEF ConnectClear, ConnectFill
<1>4. Twin \/ TwinSaved \/ TwinApply \/ TwinEnd => Acts("mqtt")
  BY DEF Twin, TwinSaved, TwinApply, TwinEnd
<1>5. PullSnapshot \/ PullApply \/ PullSaved \/ PullSet => Acts("http")
  BY DEF PullSnapshot, PullApply, PullSaved, PullSet
<1> QED
  BY <1>1, <1>2, <1>3, <1>4, <1>5
-------------------------------------------------------------------------------
(* Types and places.                                                       *)

\* No step takes the tasks, or the counters, where they cannot be.
LEMMA ControlStep ==
  ASSUME ControlTypes, PlaceInv, [Next]_vars PROVE ControlTypes'
<1> USE Keys, ConstantsAssumption DEF ControlTypes, Locations, Tasks
<1>1. ASSUME NEW t \in Tasks, SaveKey(t) PROVE ControlTypes'
  <2>1. key' \in [Tasks -> 1 .. Len(KeyOrder) + 1]
    BY <1>1 DEF SaveKey
  <2>2. faults' = faults \/ (faults < MaxFaults /\ faults' = faults + 1)
    BY <1>1, Zenon DEF SaveKey, SetKey
  <2>3. faults' \in 0 .. MaxFaults
    BY <2>2
  <2> QED
    BY <1>1, <2>1, <2>3 DEF SaveKey
<1>2. ASSUME NEW t \in Tasks, ConnectSnapshot(t) PROVE ControlTypes'
  BY <1>2 DEF ConnectSnapshot, ram, flash, overlap, judging, bounds, Goto, Enter
<1>3. ASSUME NEW t \in Tasks, ConnectClear(t) PROVE ControlTypes'
  BY <1>3 DEF ConnectClear, flash, flags, overlap, bounds, Goto
<1>4. ASSUME NEW t \in Tasks, ConnectFill(t) PROVE ControlTypes'
  BY <1>4 DEF ConnectFill, flash, judging, bounds, Goto, Leave
<1>5. CASE Twin
  BY <1>5 DEF Twin, flash, flags, Goto, Enter, Offer, StartSave
<1>6. CASE TwinSaved
  BY <1>6 DEF TwinSaved, ram, flags, overlap, Goto, SaveFile, Saved
<1>7. CASE TwinApply
  BY <1>7 DEF TwinApply, flash, flags, overlap, bounds, Goto, Offer, StartSave
<1>8. CASE TwinEnd
  BY <1>8 DEF TwinEnd, ram, flags, Goto, Leave, SaveFile, Settle, Saved
<1>9. CASE PullSnapshot
  BY <1>9 DEF PullSnapshot, ram, flash, flags, Goto, Enter
<1>10. CASE PullApply
  BY <1>10 DEF PullApply, flash, flags, overlap, Goto, Offer, StartSave
<1>11. CASE PullSaved
  BY <1>11 DEF PullSaved, ram, flags, overlap, Goto, SaveFile, Settle, Saved
<1>12. CASE PullSet
  BY <1>12 DEF PullSet, flash, judging, bounds, Goto, Leave
<1>13. CASE Reboot
  BY <1>13 DEF Reboot, Load
<1>14. CASE UNCHANGED vars
  BY <1>14 DEF vars, ram, flash, control, flags, overlap, judging, bounds
<1> QED
  BY <1>1, <1>2, <1>3, <1>4, <1>5, <1>6, <1>7, <1>8, <1>9, <1>10, <1>11, <1>12, <1>13, <1>14
     DEF Next

\* No task gets to where another one belongs.
LEMMA PlaceStep ==
  ASSUME ControlTypes, PlaceInv, [Next]_vars PROVE PlaceInv'
<1> USE DEF ControlTypes, PlaceInv, Tasks
<1>1. ASSUME NEW t \in Tasks, SaveKey(t) PROVE PlaceInv'
  BY <1>1 DEF SaveKey, ram, flags, overlap, Saved, SetKey
<1>2. ASSUME NEW t \in Tasks, ConnectSnapshot(t) PROVE PlaceInv'
  BY <1>2 DEF ConnectSnapshot, ram, flash, overlap, judging, bounds, Goto, Enter
<1>3. ASSUME NEW t \in Tasks, ConnectClear(t) PROVE PlaceInv'
  BY <1>3 DEF ConnectClear, flash, flags, overlap, bounds, Goto
<1>4. ASSUME NEW t \in Tasks, ConnectFill(t) PROVE PlaceInv'
  BY <1>4 DEF ConnectFill, flash, judging, bounds, Goto, Leave
<1>5. CASE Twin
  BY <1>5 DEF Twin, flash, flags, Goto, Enter, Offer, StartSave
<1>6. CASE TwinSaved
  BY <1>6 DEF TwinSaved, ram, flags, overlap, Goto, SaveFile, Saved
<1>7. CASE TwinApply
  BY <1>7 DEF TwinApply, flash, flags, overlap, bounds, Goto, Offer, StartSave
<1>8. CASE TwinEnd
  BY <1>8 DEF TwinEnd, ram, flags, Goto, Leave, SaveFile, Settle, Saved
<1>9. CASE PullSnapshot
  BY <1>9 DEF PullSnapshot, ram, flash, flags, Goto, Enter
<1>10. CASE PullApply
  BY <1>10 DEF PullApply, flash, flags, overlap, Goto, Offer, StartSave
<1>11. CASE PullSaved
  BY <1>11 DEF PullSaved, ram, flags, overlap, Goto, SaveFile, Settle, Saved
<1>12. CASE PullSet
  BY <1>12 DEF PullSet, flash, judging, bounds, Goto, Leave
<1>13. CASE Reboot
  BY <1>13 DEF Reboot, Load
<1>14. CASE UNCHANGED vars
  BY <1>14 DEF vars, ram, flash, control, flags, overlap, judging, bounds
<1> QED
  BY <1>1, <1>2, <1>3, <1>4, <1>5, <1>6, <1>7, <1>8, <1>9, <1>10, <1>11, <1>12, <1>13, <1>14
     DEF Next

\* The flags stay flags, and a pull that is done is not begun again.
LEMMA FlagStep ==
  ASSUME ControlTypes, FlagTypes, PlaceInv, [Next]_vars PROVE FlagTypes'
<1> USE DEF ControlTypes, FlagTypes, PlaceInv, Tasks
<1>1. ASSUME NEW t \in Tasks, SaveKey(t) PROVE FlagTypes'
  BY <1>1 DEF SaveKey, ram, flags, overlap, Saved, SetKey
<1>2. ASSUME NEW t \in Tasks, ConnectSnapshot(t) PROVE FlagTypes'
  BY <1>2 DEF ConnectSnapshot, ram, flash, overlap, judging, bounds, Goto, Enter
<1>3. ASSUME NEW t \in Tasks, ConnectClear(t) PROVE FlagTypes'
  BY <1>3 DEF ConnectClear, flash, flags, overlap, bounds, Goto
<1>4. ASSUME NEW t \in Tasks, ConnectFill(t) PROVE FlagTypes'
  BY <1>4 DEF ConnectFill, flash, judging, bounds, Goto, Leave
<1>5. CASE Twin
  BY <1>5 DEF Twin, flash, flags, Goto, Enter, Offer, StartSave
<1>6. CASE TwinSaved
  BY <1>6 DEF TwinSaved, ram, flags, overlap, Goto, SaveFile, Saved
<1>7. CASE TwinApply
  BY <1>7 DEF TwinApply, flash, flags, overlap, bounds, Goto, Offer, StartSave
<1>8. CASE TwinEnd
  BY <1>8 DEF TwinEnd, ram, flags, Goto, Leave, SaveFile, Settle, Saved
<1>9. CASE PullSnapshot
  BY <1>9 DEF PullSnapshot, ram, flash, flags, Goto, Enter
<1>10. CASE PullApply
  BY <1>10 DEF PullApply, flash, flags, overlap, Goto, Offer, StartSave
<1>11. CASE PullSaved
  BY <1>11 DEF PullSaved, ram, flags, overlap, Goto, SaveFile, Settle, Saved
<1>12. CASE PullSet
  BY <1>12 DEF PullSet, flash, judging, bounds, Goto, Leave
<1>13. CASE Reboot
  BY <1>13 DEF Reboot, Load
<1>14. CASE UNCHANGED vars
  BY <1>14 DEF vars, ram, flash, control, flags, overlap, judging, bounds
<1> QED
  BY <1>1, <1>2, <1>3, <1>4, <1>5, <1>6, <1>7, <1>8, <1>9, <1>10, <1>11, <1>12, <1>13, <1>14
     DEF Next

\* A step starts at most one update, and counts it as overlapping those there are.
LEMMA OverlapStep ==
  ASSUME ControlTypes, PlaceInv, OverlapInv, [Next]_vars PROVE OverlapInv'
<1>1. ASSUME NEW t \in Tasks, Acts(t) PROVE OverlapInv'
  BY <1>1, OneActor
<1>2. ASSUME NEW t \in Tasks, GivesUp(t) PROVE OverlapInv'
  <2>1. Inside' = Inside
    BY <1>2 DEF GivesUp, Goto, Inside, Outside, ControlTypes
  <2> QED
    BY <1>2, <2>1 DEF GivesUp, OverlapInv, overlap
<1>3. CASE Reboot
  <2>1. Inside' = {}
    BY <1>3 DEF Reboot, Inside, Outside
  <2> QED
    BY <1>3, <2>1 DEF Reboot, OverlapInv
<1>4. CASE UNCHANGED vars
  BY <1>4 DEF vars, control, overlap, OverlapInv, Inside
<1>5. "mqtt" \in Tasks /\ "http" \in Tasks /\ pc \in [Tasks -> Locations]
  BY DEF Tasks, ControlTypes
<1>6. Next => Reboot \/ \E t \in Tasks : Acts(t) \/ GivesUp(t)
  BY <1>5, Actors DEF Next
<1> QED
  BY <1>1, <1>2, <1>3, <1>4, <1>6
-------------------------------------------------------------------------------
(* The copies.                                                             *)

\* Where the tasks are, as a function.
LEMMA PcType == ControlTypes => pc \in [Tasks -> Locations] /\ {"cloud", "http", "mqtt"} = Tasks
  BY DEF ControlTypes, Tasks

\* The values a twin document or a pull may give, in the order they come in.
LEMMA NewValues ==
  ASSUME NEW n \in 0 .. MaxUpdates, NEW v,
         v \in {0, n + 1} \/ (n < MaxUpdates /\ v \in {0, n + 2})
  PROVE  v \in Vals
  BY ConstantsAssumption DEF Vals, Braces

\* Offering a configuration adds values of the fields to what a boot may come up with.
LEMMA Offered ==
  ASSUME CopyTypes, NEW cfg \in Configs, Offer(cfg)
  PROVE  kept' \in [Fields -> SUBSET Vals]
  BY DEF CopyTypes, Configs, Offer

\* The empty configuration is one.
LEMMA BlankType == Blank \in Configs
  BY ConstantsAssumption DEF Blank, Configs, Vals, Braces

\* The file holds a configuration, too.
LEMMA PrintedType == ASSUME NEW cfg \in Configs PROVE Printed(cfg) \in Configs
  BY ConstantsAssumption DEF Printed, Configs, Vals, Braces

\* Every copy of the configuration, and every value a boot may come up with, is of its
\* type.
LEMMA CopyStep ==
  ASSUME ControlTypes, CopyTypes, PlaceInv, [Next]_vars PROVE CopyTypes'
<1>0. Blank \in [Fields -> Vals]
  BY BlankType DEF Configs
<1> USE <1>0, Keys, ConstantsAssumption DEF ControlTypes, CopyTypes, Configs, Tasks
<1>1. ASSUME NEW t \in Tasks, SaveKey(t) PROVE CopyTypes'
  <2>1. KeyOrder[key[t]] \in Fields
    BY <1>1 DEF SaveKey
  <2>2. Saved(t) \in [Fields -> Vals]
    BY DEF Saved
  <2>3. SetKey(KeyOrder[key[t]], Saved(t)[KeyOrder[key[t]]])
    BY <1>1 DEF SaveKey
  <2>4. nvs' = nvs \/ nvs' = [nvs EXCEPT ![KeyOrder[key[t]]] = Saved(t)[KeyOrder[key[t]]]]
    BY <2>3, Zenon DEF SetKey
  <2>5. nvs' \in Configs
    BY <2>1, <2>2, <2>4
  <2> QED
    BY <1>1, <2>5 DEF SaveKey, ram
<1>2. ASSUME NEW t \in Tasks, ConnectSnapshot(t) PROVE CopyTypes'
  <2>1. local' \in [Tasks -> Configs]
    BY <1>2 DEF ConnectSnapshot
  <2> QED
    BY <1>2, <2>1 DEF ConnectSnapshot, ram, flash, judging
<1>3. ASSUME NEW t \in Tasks, ConnectClear(t) PROVE CopyTypes'
  BY <1>3 DEF ConnectClear, flash, flags, overlap, bounds, Goto
<1>4. ASSUME NEW t \in Tasks, ConnectFill(t) PROVE CopyTypes'
  BY <1>4 DEF ConnectFill, flash, judging, bounds, Goto, Leave
<1>5. CASE Twin
  <2>0. PICK S \in (SUBSET TwinFields) \ {{}} : \E v \in {0, updates + 2} :
           /\ azure' = [f \in Fields |-> IF f \in S THEN v ELSE azure[f]]
           /\ given' = [f \in Fields |-> IF f \in S THEN v ELSE given[f]]
    BY <1>5, Zenon DEF Twin
  <2>1. PICK v \in {0, updates + 2} :
           /\ azure' = [f \in Fields |-> IF f \in S THEN v ELSE azure[f]]
           /\ given' = [f \in Fields |-> IF f \in S THEN v ELSE given[f]]
    BY <2>0, Zenon
  <2>2. v \in Vals
    <3>1. updates \in 0 .. MaxUpdates /\ updates < MaxUpdates
      BY <1>5 DEF Twin
    <3> QED
      BY <2>1, <3>1, NewValues
  <2>3. azure' \in Configs /\ given' \in Configs
    BY <2>1, <2>2
  <2>4. kept' \in [Fields -> SUBSET Vals]
    BY <1>5, <2>3, Offered DEF Twin
  <2> QED
    BY <1>5, <2>3, <2>4 DEF Twin, flash
<1>6. CASE TwinSaved
  <2>1. Saved("mqtt") \in Configs
    BY DEF Saved
  <2>2. file' \in Configs \union {None}
    BY <1>6, <2>1, PrintedType DEF TwinSaved, SaveFile
  <2> QED
    BY <1>6, <2>2 DEF TwinSaved, ram
<1>7. CASE TwinApply
  <2>1. kept' \in [Fields -> SUBSET Vals]
    BY <1>7, Offered DEF TwinApply
  <2> QED
    BY <1>7, <2>1 DEF TwinApply, flash
<1>8. CASE TwinEnd
  <2>1. Saved("mqtt") \in Configs
    BY DEF Saved
  <2>2. file' \in Configs \union {None}
    BY <1>8, <2>1, PrintedType DEF TwinEnd, SaveFile
  <2>3. kept' \in [Fields -> SUBSET Vals]
    BY <1>8, <2>1 DEF TwinEnd, Settle
  <2> QED
    BY <1>8, <2>2, <2>3 DEF TwinEnd, ram
<1>9. CASE PullSnapshot
  BY <1>9 DEF PullSnapshot, ram, flash, flags, Goto, Enter
<1>10. CASE PullApply
  <2>0. PICK S \in (SUBSET Fields) \ {{}} : \E v \in {0, updates + 1} :
           /\ v = 0 => S \intersect Names \subseteq Objects
           /\ local' = [local EXCEPT !["http"] = [f \in Fields |-> IF f \in S THEN v ELSE @[f]]]
           /\ given' = [f \in Fields |-> IF f \in S THEN v ELSE given[f]]
    BY <1>10 DEF PullApply
  <2>1. PICK v \in {0, updates + 1} :
           /\ v = 0 => S \intersect Names \subseteq Objects
           /\ local' = [local EXCEPT !["http"] = [f \in Fields |-> IF f \in S THEN v ELSE @[f]]]
           /\ given' = [f \in Fields |-> IF f \in S THEN v ELSE given[f]]
    BY <2>0, Zenon
  <2>2. v \in Vals
    BY <2>1, NewValues
  <2>3. given' \in Configs /\ local'["http"] \in Configs
    BY <2>1, <2>2
  <2>4. local' \in [Tasks -> Configs] /\ main' \in Configs
    BY <1>10, <2>1, <2>3 DEF PullApply
  <2>5. kept' \in [Fields -> SUBSET Vals]
    BY <1>10, <2>3, Offered DEF PullApply
  <2> QED
    BY <1>10, <2>3, <2>4, <2>5 DEF PullApply, flash
<1>11. CASE PullSaved
  <2>1. Saved("http") \in Configs
    BY DEF Saved
  <2>2. file' \in Configs \union {None}
    BY <1>11, <2>1, PrintedType DEF PullSaved, SaveFile
  <2>3. kept' \in [Fields -> SUBSET Vals]
    BY <1>11, <2>1 DEF PullSaved, Settle
  <2> QED
    BY <1>11, <2>2, <2>3 DEF PullSaved, ram
<1>12. CASE PullSet
  BY <1>12 DEF PullSet, flash, judging, bounds, Goto, Leave
<1>13. CASE Reboot
  BY <1>13 DEF Reboot, Load
<1>14. CASE UNCHANGED vars
  BY <1>14 DEF vars, ram, flash, control, flags, overlap, judging, bounds
<1> QED
  BY <1>1, <1>2, <1>3, <1>4, <1>5, <1>6, <1>7, <1>8, <1>9, <1>10, <1>11, <1>12, <1>13, <1>14
     DEF Next

\* A step of t leaves alone what the others made of the copies, as none is by itself.
LEMMA CopyFrame ==
  ASSUME OverlapInv, CopyInv, NEW t \in Tasks, Acts(t), CopyOf(t)', Leaves(t) => CopiesAgree'
  PROVE  CopyInv'
<1>1. ASSUME NEW u \in Tasks \ {t} PROVE CopyOf(u)'
  BY OneActor, <1>1 DEF CopyOf
<1>2. CopiesAgree'
  BY InsidesAfter DEF Acts, Enters, GoesOn, CopiesAgree
<1> QED
  BY <1>1, <1>2 DEF CopyInv

\* An update that is by itself leaves main.c and azure_iot.c with the same configuration.
LEMMA CopiesStep ==
  ASSUME ControlTypes, CopyTypes, PlaceInv, OverlapInv, CopyInv, [Next]_vars PROVE CopyInv'
<1>1. ASSUME NEW t \in Tasks, SaveKey(t) PROVE CopyInv'
  <2>1. t \in Tasks /\ Acts(t)
    BY <1>1, Actors, PcType
  <2>2. Solo(t)' => Solo(t)
    BY <1>1, <2>1, OneActor, Insides DEF SaveKey, Outside
  <2>3. CopyOf(t)'
    BY <1>1, <2>1, <2>2, PcType DEF SaveKey, ram, overlap, CopyOf, CopyInv, CopyTypes, PlaceInv
  <2>4. Leaves(t) => CopiesAgree'
    BY <1>1, <2>1, PcType, Insides DEF SaveKey, ram, overlap, CopiesAgree, CopyOf, CopyInv,
       PlaceInv, Leaves, Solo, Outside
  <2> QED
    BY <2>1, <2>3, <2>4, CopyFrame
<1>2. ASSUME NEW t \in Tasks, Connects(t) PROVE CopyInv'
  <2>1. t \in Tasks /\ Acts(t)
    BY <1>2, Actors, PcType
  <2>3. CopyOf(t)'
    BY <1>2, <2>1, PcType DEF Connects, Goto, ram, CopyOf, CopyInv, CopyTypes, PlaceInv
  <2>4. Leaves(t) => CopiesAgree'
    BY <1>2, <2>1, PcType, Insides DEF Connects, Goto, ram, CopiesAgree, CopyOf, CopyInv,
       PlaceInv, Leaves, Solo, Outside
  <2> QED
    BY <2>1, <2>3, <2>4, CopyFrame
<1>3. ASSUME NEW t \in Tasks, GivesUp(t) PROVE CopyInv'
  <2>1. Inside' = Inside /\ \A u \in Tasks : pc'[u] = pc[u] \/ pc'[u] = "idle"
    BY <1>3, PcType DEF GivesUp, Goto, Inside, Outside
  <2> QED
    BY <1>3, <2>1 DEF GivesUp, CopyInv, CopyOf, CopiesAgree, Solo, ram, overlap
<1>4. ASSUME NEW t \in Tasks, ConnectClear(t) PROVE CopyInv'
  <2>1. t \in Tasks /\ Acts(t)
    BY <1>4, Actors, PcType
  <2>2. Solo(t)' => Solo(t)
    BY <1>4, <2>1, OneActor, Insides DEF ConnectClear, Outside
  <2>3. CopyOf(t)'
    BY <1>4, <2>1, <2>2, PcType DEF ConnectClear, overlap, Goto, CopyOf, CopyInv,
       CopyTypes, PlaceInv
  <2>4. Leaves(t) => CopiesAgree'
    BY <1>4, <2>1, PcType, Insides DEF ConnectClear, overlap, Goto, CopiesAgree, CopyOf,
       CopyInv,
       PlaceInv, Leaves, Solo, Outside
  <2> QED
    BY <2>1, <2>3, <2>4, CopyFrame
<1>5. ASSUME NEW t \in Tasks, ConnectFill(t) PROVE CopyInv'
  <2>1. t \in Tasks /\ Acts(t)
    BY <1>5, Actors, PcType
  <2>2. Solo(t)' => Solo(t)
    BY <1>5, <2>1, OneActor, Insides DEF ConnectFill, Outside
  <2>3. CopyOf(t)'
    BY <1>5, <2>1, <2>2, PcType DEF ConnectFill, Goto, Leave, CopyOf, CopyInv, CopyTypes,
       PlaceInv
  <2>4. Leaves(t) => CopiesAgree'
    BY <1>5, <2>1, PcType, Insides DEF ConnectFill, Goto, Leave, CopiesAgree, CopyOf, CopyInv,
       PlaceInv, Leaves, Solo, Outside
  <2> QED
    BY <2>1, <2>3, <2>4, CopyFrame
<1>6. CASE Twin
  <2>1. "mqtt" \in Tasks /\ Acts("mqtt")
    BY <1>6, Actors, PcType
  <2>3. CopyOf("mqtt")'
    BY <1>6, <2>1, PcType DEF Twin, Goto, Enter, CopyOf, CopyInv, CopyTypes, PlaceInv
  <2>4. Leaves("mqtt") => CopiesAgree'
    BY <1>6, <2>1, PcType, Insides DEF Twin, Goto, Enter, CopiesAgree, CopyOf, CopyInv,
       PlaceInv, Leaves, Solo, Outside
  <2> QED
    BY <2>1, <2>3, <2>4, CopyFrame
<1>7. CASE TwinSaved
  <2>1. "mqtt" \in Tasks /\ Acts("mqtt")
    BY <1>7, Actors, PcType
  <2>2. Solo("mqtt")' => Solo("mqtt")
    BY <1>7, <2>1, OneActor, Insides DEF TwinSaved, Outside
  <2>3. CopyOf("mqtt")'
    BY <1>7, <2>1, <2>2, PcType DEF TwinSaved, ram, overlap, Goto, CopyOf, CopyInv,
       CopyTypes, PlaceInv
  <2>4. Leaves("mqtt") => CopiesAgree'
    BY <1>7, <2>1, PcType, Insides DEF TwinSaved, ram, overlap, Goto, CopiesAgree, CopyOf,
       CopyInv,
       PlaceInv, Leaves, Solo, Outside
  <2> QED
    BY <2>1, <2>3, <2>4, CopyFrame
<1>8. CASE TwinApply
  <2>1. "mqtt" \in Tasks /\ Acts("mqtt")
    BY <1>8, Actors, PcType
  <2>2. Solo("mqtt")' => Solo("mqtt")
    BY <1>8, <2>1, OneActor, Insides DEF TwinApply, Outside
  <2>3. CopyOf("mqtt")'
    BY <1>8, <2>1, <2>2, PcType DEF TwinApply, overlap, Goto, CopyOf, CopyInv, CopyTypes,
       PlaceInv
  <2>4. Leaves("mqtt") => CopiesAgree'
    BY <1>8, <2>1, PcType, Insides DEF TwinApply, overlap, Goto, CopiesAgree, CopyOf, CopyInv,
       PlaceInv, Leaves, Solo, Outside
  <2> QED
    BY <2>1, <2>3, <2>4, CopyFrame
<1>9. CASE TwinEnd
  <2>1. "mqtt" \in Tasks /\ Acts("mqtt")
    BY <1>9, Actors, PcType
  <2>2. Solo("mqtt")' => Solo("mqtt")
    BY <1>9, <2>1, OneActor, Insides DEF TwinEnd, Outside
  <2>3. CopyOf("mqtt")'
    BY <1>9, <2>1, <2>2, PcType DEF TwinEnd, ram, Goto, Leave, CopyOf, CopyInv, CopyTypes,
       PlaceInv
  <2>4. Leaves("mqtt") => CopiesAgree'
    BY <1>9, <2>1, PcType, Insides DEF TwinEnd, ram, Goto, Leave, CopiesAgree, CopyOf, CopyInv,
       PlaceInv, Leaves, Solo, Outside
  <2> QED
    BY <2>1, <2>3, <2>4, CopyFrame
<1>10. CASE PullSnapshot
  <2>1. "http" \in Tasks /\ Acts("http")
    BY <1>10, Actors, PcType
  <2>3. CopyOf("http")'
    BY <1>10, <2>1, PcType DEF PullSnapshot, ram, Goto, Enter, CopyOf, CopyInv, CopyTypes,
       PlaceInv
  <2>4. Leaves("http") => CopiesAgree'
    BY <1>10, <2>1, PcType, Insides DEF PullSnapshot, ram, Goto, Enter, CopiesAgree,
       CopyOf, CopyInv,
       PlaceInv, Leaves, Solo, Outside
  <2> QED
    BY <2>1, <2>3, <2>4, CopyFrame
<1>11. CASE PullApply
  <2>1. "http" \in Tasks /\ Acts("http")
    BY <1>11, Actors, PcType
  <2>2. Solo("http")' => Solo("http")
    BY <1>11, <2>1, OneActor, Insides DEF PullApply, Outside
  <2>3. CopyOf("http")'
    BY <1>11, <2>1, <2>2, PcType DEF PullApply, overlap, Goto, CopyOf, CopyInv, CopyTypes,
       PlaceInv
  <2>4. Leaves("http") => CopiesAgree'
    BY <1>11, <2>1, PcType, Insides DEF PullApply, overlap, Goto, CopiesAgree, CopyOf, CopyInv,
       PlaceInv, Leaves, Solo, Outside
  <2> QED
    BY <2>1, <2>3, <2>4, CopyFrame
<1>12. CASE PullSaved
  <2>1. "http" \in Tasks /\ Acts("http")
    BY <1>12, Actors, PcType
  <2>2. Solo("http")' => Solo("http")
    BY <1>12, <2>1, OneActor, Insides DEF PullSaved, Outside
  <2>3. CopyOf("http")'
    BY <1>12, <2>1, <2>2, PcType DEF PullSaved, ram, overlap, Goto, CopyOf, CopyInv,
       CopyTypes, PlaceInv
  <2>4. Leaves("http") => CopiesAgree'
    BY <1>12, <2>1, PcType, Insides DEF PullSaved, ram, overlap, Goto, CopiesAgree,
       CopyOf, CopyInv,
       PlaceInv, Leaves, Solo, Outside
  <2> QED
    BY <2>1, <2>3, <2>4, CopyFrame
<1>13. CASE PullSet
  <2>1. "http" \in Tasks /\ Acts("http")
    BY <1>13, Actors, PcType
  <2>2. Solo("http")' => Solo("http")
    BY <1>13, <2>1, OneActor, Insides DEF PullSet, Outside
  <2>3. CopyOf("http")'
    BY <1>13, <2>1, <2>2, PcType DEF PullSet, Goto, Leave, CopyOf, CopyInv, CopyTypes, PlaceInv
  <2>4. Leaves("http") => CopiesAgree'
    BY <1>13, <2>1, PcType, Insides DEF PullSet, Goto, Leave, CopiesAgree, CopyOf, CopyInv,
       PlaceInv, Leaves, Solo, Outside
  <2> QED
    BY <2>1, <2>3, <2>4, CopyFrame
<1>14. CASE Reboot
  <2>1. Inside' = {}
    BY <1>14 DEF Reboot, Inside, Outside
  <2> QED
    BY <1>14, <2>1 DEF Reboot, CopyInv, CopyOf, CopiesAgree, Solo
<1>15. CASE UNCHANGED vars
  BY <1>15 DEF vars, ram, flash, control, flags, overlap, judging, bounds, CopyInv, CopyOf,
     CopiesAgree, Solo, Inside
<1> QED
  BY <1>1, <1>2, <1>3, <1>4, <1>5, <1>6, <1>7, <1>8, <1>9, <1>10, <1>11, <1>12, <1>13, <1>14,
     <1>15, Actors, PcType DEF Next

\* Until two updates overlap, s_runtime_cfg has the values last given.
LEMMA GivenStep ==
  ASSUME ControlTypes, CopyTypes, PlaceInv, OverlapInv, CopyInv, GivenInv, [Next]_vars
  PROVE  GivenInv'
<1>1. ASSUME NEW t \in Tasks, SaveKey(t) PROVE GivenInv'
  <2> SUFFICES ASSUME ~mixed' PROVE Given'
    BY DEF GivenInv
  <2>1. t \in Tasks /\ Acts(t)
    BY <1>1, Actors, PcType
  <2>2. /\ ~mixed /\ Given
        /\ \A u \in Tasks \ {t} : pc[u] \in Outside /\ pc'[u] = pc[u]
    BY <2>1, OneActor DEF GivenInv, Acts
  <2>3. CopyOf(t) /\ Solo(t)
    BY <1>1, <2>1, <2>2, Insides DEF CopyInv, OverlapInv, Solo, SaveKey, Outside
  <2>4. pc["mqtt"] \in Outside => pc["mqtt"] = "idle"
    BY DEF PlaceInv, Outside
  <2> QED
    BY <1>1, <2>1, <2>2, <2>3, <2>4, PcType, Insides, InsidesAfter DEF SaveKey, ram,
       Given, CopyOf,
       CopyTypes, PlaceInv, Outside
<1>2. ASSUME NEW t \in Tasks, Connects(t) PROVE GivenInv'
  <2> SUFFICES ASSUME ~mixed' PROVE Given'
    BY DEF GivenInv
  <2>1. t \in Tasks /\ Acts(t)
    BY <1>2, Actors, PcType
  <2>2. /\ ~mixed /\ Given
        /\ \A u \in Tasks \ {t} : pc[u] \in Outside /\ pc'[u] = pc[u]
    BY <2>1, OneActor DEF GivenInv, Acts
  <2>4. pc["mqtt"] \in Outside => pc["mqtt"] = "idle"
    BY DEF PlaceInv, Outside
  <2> QED
    BY <1>2, <2>1, <2>2, <2>4, PcType, Insides, InsidesAfter DEF Connects, Goto, ram,
       judging, Given, CopyOf,
       CopyTypes, PlaceInv, Outside
<1>3. ASSUME NEW t \in Tasks, GivesUp(t) PROVE GivenInv'
  <2>1. Inside' = Inside /\ \A u \in Tasks : pc'[u] = pc[u] \/ (u # "mqtt" /\ pc'[u] = "idle")
    BY <1>3, PcType DEF GivesUp, Goto, Inside, Outside
  <2>2. pc'["mqtt"] = pc["mqtt"]
    BY <1>3, PcType DEF GivesUp, Goto
  <2> QED
    BY <1>3, <2>1, <2>2, PcType DEF GivesUp, GivenInv, Given, ram, overlap, judging
<1>4. ASSUME NEW t \in Tasks, ConnectClear(t) PROVE GivenInv'
  <2> SUFFICES ASSUME ~mixed' PROVE Given'
    BY DEF GivenInv
  <2>1. t \in Tasks /\ Acts(t)
    BY <1>4, Actors, PcType
  <2>2. /\ ~mixed /\ Given
        /\ \A u \in Tasks \ {t} : pc[u] \in Outside /\ pc'[u] = pc[u]
    BY <2>1, OneActor DEF GivenInv, Acts
  <2>3. CopyOf(t) /\ Solo(t)
    BY <1>4, <2>1, <2>2, Insides DEF CopyInv, OverlapInv, Solo, ConnectClear, Outside
  <2>4. pc["mqtt"] \in Outside => pc["mqtt"] = "idle"
    BY DEF PlaceInv, Outside
  <2> QED
    BY <1>4, <2>1, <2>2, <2>3, <2>4, PcType, Insides, InsidesAfter DEF ConnectClear, Goto,
       Given, CopyOf,
       CopyTypes, PlaceInv, Outside
<1>5. ASSUME NEW t \in Tasks, ConnectFill(t) PROVE GivenInv'
  <2> SUFFICES ASSUME ~mixed' PROVE Given'
    BY DEF GivenInv
  <2>1. t \in Tasks /\ Acts(t)
    BY <1>5, Actors, PcType
  <2>2. /\ ~mixed /\ Given
        /\ \A u \in Tasks \ {t} : pc[u] \in Outside /\ pc'[u] = pc[u]
    BY <2>1, OneActor DEF GivenInv, Acts
  <2>3. CopyOf(t) /\ Solo(t)
    BY <1>5, <2>1, <2>2, Insides DEF CopyInv, OverlapInv, Solo, ConnectFill, Outside
  <2>4. pc["mqtt"] \in Outside => pc["mqtt"] = "idle"
    BY DEF PlaceInv, Outside
  <2> QED
    BY <1>5, <2>1, <2>2, <2>3, <2>4, PcType, Insides, InsidesAfter DEF ConnectFill,
       judging, Goto, Leave, Given, CopyOf,
       CopyTypes, PlaceInv, Outside
<1>6. CASE Twin
  <2> SUFFICES ASSUME ~mixed' PROVE Given'
    BY DEF GivenInv
  <2>1. "mqtt" \in Tasks /\ Acts("mqtt")
    BY <1>6, Actors, PcType
  <2>2. /\ ~mixed /\ Given
        /\ \A u \in Tasks \ {"mqtt"} : pc[u] \in Outside /\ pc'[u] = pc[u]
    BY <2>1, OneActor DEF GivenInv, Acts
  <2>4. pc["mqtt"] \in Outside => pc["mqtt"] = "idle"
    BY DEF PlaceInv, Outside
  <2> QED
    BY <1>6, <2>1, <2>2, <2>4, PcType, Insides, InsidesAfter DEF Twin, Goto, Enter, Given,
       CopyOf,
       CopyTypes, PlaceInv, Outside
<1>7. CASE TwinSaved
  <2> SUFFICES ASSUME ~mixed' PROVE Given'
    BY DEF GivenInv
  <2>1. "mqtt" \in Tasks /\ Acts("mqtt")
    BY <1>7, Actors, PcType
  <2>2. /\ ~mixed /\ Given
        /\ \A u \in Tasks \ {"mqtt"} : pc[u] \in Outside /\ pc'[u] = pc[u]
    BY <2>1, OneActor DEF GivenInv, Acts
  <2>3. CopyOf("mqtt") /\ Solo("mqtt")
    BY <1>7, <2>1, <2>2, Insides DEF CopyInv, OverlapInv, Solo, TwinSaved, Outside
  <2>4. pc["mqtt"] \in Outside => pc["mqtt"] = "idle"
    BY DEF PlaceInv, Outside
  <2> QED
    BY <1>7, <2>1, <2>2, <2>3, <2>4, PcType, Insides, InsidesAfter DEF TwinSaved, ram,
       Goto, Given, CopyOf,
       CopyTypes, PlaceInv, Outside
<1>8. CASE TwinApply
  <2> SUFFICES ASSUME ~mixed' PROVE Given'
    BY DEF GivenInv
  <2>1. "mqtt" \in Tasks /\ Acts("mqtt")
    BY <1>8, Actors, PcType
  <2>2. /\ ~mixed /\ Given
        /\ \A u \in Tasks \ {"mqtt"} : pc[u] \in Outside /\ pc'[u] = pc[u]
    BY <2>1, OneActor DEF GivenInv, Acts
  <2>3. CopyOf("mqtt") /\ Solo("mqtt")
    BY <1>8, <2>1, <2>2, Insides DEF CopyInv, OverlapInv, Solo, TwinApply, Outside
  <2>4. pc["mqtt"] \in Outside => pc["mqtt"] = "idle"
    BY DEF PlaceInv, Outside
  <2> QED
    BY <1>8, <2>1, <2>2, <2>3, <2>4, PcType, Insides, InsidesAfter DEF TwinApply, Goto,
       Given, CopyOf,
       CopyTypes, PlaceInv, Outside
<1>9. CASE TwinEnd
  <2> SUFFICES ASSUME ~mixed' PROVE Given'
    BY DEF GivenInv
  <2>1. "mqtt" \in Tasks /\ Acts("mqtt")
    BY <1>9, Actors, PcType
  <2>2. /\ ~mixed /\ Given
        /\ \A u \in Tasks \ {"mqtt"} : pc[u] \in Outside /\ pc'[u] = pc[u]
    BY <2>1, OneActor DEF GivenInv, Acts
  <2>3. CopyOf("mqtt") /\ Solo("mqtt")
    BY <1>9, <2>1, <2>2, Insides DEF CopyInv, OverlapInv, Solo, TwinEnd, Outside
  <2>4. pc["mqtt"] \in Outside => pc["mqtt"] = "idle"
    BY DEF PlaceInv, Outside
  <2> QED
    BY <1>9, <2>1, <2>2, <2>3, <2>4, PcType, Insides, InsidesAfter DEF TwinEnd, ram, Goto,
       Leave, Given, CopyOf,
       CopyTypes, PlaceInv, Outside
<1>10. CASE PullSnapshot
  <2> SUFFICES ASSUME ~mixed' PROVE Given'
    BY DEF GivenInv
  <2>1. "http" \in Tasks /\ Acts("http")
    BY <1>10, Actors, PcType
  <2>2. /\ ~mixed /\ Given
        /\ \A u \in Tasks \ {"http"} : pc[u] \in Outside /\ pc'[u] = pc[u]
    BY <2>1, OneActor DEF GivenInv, Acts
  <2>4. pc["mqtt"] \in Outside => pc["mqtt"] = "idle"
    BY DEF PlaceInv, Outside
  <2> QED
    BY <1>10, <2>1, <2>2, <2>4, PcType, Insides, InsidesAfter DEF PullSnapshot, ram, Goto,
       Enter, Given, CopyOf,
       CopyTypes, PlaceInv, Outside
<1>11. CASE PullApply
  <2> SUFFICES ASSUME ~mixed' PROVE Given'
    BY DEF GivenInv
  <2>1. "http" \in Tasks /\ Acts("http")
    BY <1>11, Actors, PcType
  <2>2. /\ ~mixed /\ Given
        /\ \A u \in Tasks \ {"http"} : pc[u] \in Outside /\ pc'[u] = pc[u]
    BY <2>1, OneActor DEF GivenInv, Acts
  <2>3. CopyOf("http") /\ Solo("http")
    BY <1>11, <2>1, <2>2, Insides DEF CopyInv, OverlapInv, Solo, PullApply, Outside
  <2>4. pc["mqtt"] \in Outside => pc["mqtt"] = "idle"
    BY DEF PlaceInv, Outside
  <2> QED
    BY <1>11, <2>1, <2>2, <2>3, <2>4, PcType, Insides, InsidesAfter DEF PullApply, Goto,
       Given, CopyOf,
       CopyTypes, PlaceInv, Outside
<1>12. CASE PullSaved
  <2> SUFFICES ASSUME ~mixed' PROVE Given'
    BY DEF GivenInv
  <2>1. "http" \in Tasks /\ Acts("http")
    BY <1>12, Actors, PcType
  <2>2. /\ ~mixed /\ Given
        /\ \A u \in Tasks \ {"http"} : pc[u] \in Outside /\ pc'[u] = pc[u]
    BY <2>1, OneActor DEF GivenInv, Acts
  <2>3. CopyOf("http") /\ Solo("http")
    BY <1>12, <2>1, <2>2, Insides DEF CopyInv, OverlapInv, Solo, PullSaved, Outside
  <2>4. pc["mqtt"] \in Outside => pc["mqtt"] = "idle"
    BY DEF PlaceInv, Outside
  <2> QED
    BY <1>12, <2>1, <2>2, <2>3, <2>4, PcType, Insides, InsidesAfter DEF PullSaved, ram,
       Goto, Given, CopyOf,
       CopyTypes, PlaceInv, Outside
<1>13. CASE PullSet
  <2> SUFFICES ASSUME ~mixed' PROVE Given'
    BY DEF GivenInv
  <2>1. "http" \in Tasks /\ Acts("http")
    BY <1>13, Actors, PcType
  <2>2. /\ ~mixed /\ Given
        /\ \A u \in Tasks \ {"http"} : pc[u] \in Outside /\ pc'[u] = pc[u]
    BY <2>1, OneActor DEF GivenInv, Acts
  <2>3. CopyOf("http") /\ Solo("http")
    BY <1>13, <2>1, <2>2, Insides DEF CopyInv, OverlapInv, Solo, PullSet, Outside
  <2>4. pc["mqtt"] \in Outside => pc["mqtt"] = "idle"
    BY DEF PlaceInv, Outside
  <2> QED
    BY <1>13, <2>1, <2>2, <2>3, <2>4, PcType, Insides, InsidesAfter DEF PullSet, judging,
       Goto, Leave, Given, CopyOf,
       CopyTypes, PlaceInv, Outside
<1>14. CASE Reboot
  <2>1. Inside' = {}
    BY <1>14 DEF Reboot, Inside, Outside
  <2> QED
    BY <1>14, <2>1, PcType DEF Reboot, GivenInv, Given, Tasks
<1>15. CASE UNCHANGED vars
  BY <1>15 DEF vars, ram, flash, control, flags, overlap, judging, bounds, GivenInv, Given,
     Inside
<1> QED
  BY <1>1, <1>2, <1>3, <1>4, <1>5, <1>6, <1>7, <1>8, <1>9, <1>10, <1>11, <1>12, <1>13, <1>14,
     <1>15, Actors, PcType DEF Next
-------------------------------------------------------------------------------
(* The saves.                                                              *)

\* A step of t leaves alone what the others have written, as none is by itself.
LEMMA WrittenFrame ==
  ASSUME OverlapInv, NEW t \in Tasks, Acts(t), WrittenOf(t)'
  PROVE  WrittenInv'
  BY OneActor DEF WrittenInv, WrittenOf

\* An update that is by itself, and whose writes all succeed, leaves the keys as it has
\* them, up to the one it is at.
LEMMA WrittenStep ==
  ASSUME ControlTypes, CopyTypes, PlaceInv, OverlapInv, WrittenInv, [Next]_vars
  PROVE  WrittenInv'
<1>1. ASSUME NEW t \in Tasks, SaveKey(t) PROVE WrittenInv'
  <2>1. t \in Tasks /\ Acts(t)
    BY <1>1, Actors, PcType
  <2>2. WrittenOf(t)'
    <3> SUFFICES ASSUME Solo(t)', ~dirty', NEW i \in 1 .. Len(KeyOrder), i < key'[t]
                 PROVE  nvs'[KeyOrder[i]] = Saved(t)'[KeyOrder[i]]
      BY DEF WrittenOf
    <3>1. Saved(t)' = Saved(t) /\ Solo(t)
      BY <1>1, <2>1, OneActor, Insides DEF SaveKey, Saved, ram, Outside
    <3>2. nvs' = [nvs EXCEPT ![KeyOrder[key[t]]] = Saved(t)[KeyOrder[key[t]]]] /\ ~dirty
      BY <1>1 DEF SaveKey, SetKey
    <3>3. key[t] \in 1 .. Len(KeyOrder) /\ key'[t] = key[t] + 1
      BY <1>1 DEF SaveKey, ControlTypes
    <3>4. KeyOrder[i] \in Fields /\ nvs \in [Fields -> Vals]
      BY Keys DEF CopyTypes, Configs
    <3>5. CASE KeyOrder[i] = KeyOrder[key[t]]
      BY <3>1, <3>2, <3>4, <3>5
    <3>6. CASE KeyOrder[i] # KeyOrder[key[t]]
      <4>1. i < key[t]
        BY <3>3, <3>6, Keys
      <4>2. nvs[KeyOrder[i]] = Saved(t)[KeyOrder[i]]
        BY <1>1, <3>1, <3>2, <4>1 DEF WrittenInv, WrittenOf, SaveKey
      <4> QED
        BY <3>1, <3>2, <3>4, <3>6, <4>2
    <3> QED
      BY <3>5, <3>6
  <2> QED
    BY <2>1, <2>2, WrittenFrame
<1>2. ASSUME NEW t \in Tasks, Connects(t) PROVE WrittenInv'
  <2>1. t \in Tasks /\ Acts(t)
    BY <1>2, Actors, PcType
  <2>2. pc'[t] \notin {"save", "again"}
    BY <1>2, <2>1, PcType DEF Connects, Goto
  <2>3. WrittenOf(t)'
    BY <2>2 DEF WrittenOf
  <2> QED
    BY <2>1, <2>3, WrittenFrame
<1>3. ASSUME NEW t \in Tasks, GivesUp(t) PROVE WrittenInv'
  <2>1. Inside' = Inside /\ \A u \in Tasks : pc'[u] = pc[u] \/ pc'[u] = "idle"
    BY <1>3, PcType DEF GivesUp, Goto, Inside, Outside
  <2> QED
    BY <1>3, <2>1 DEF GivesUp, WrittenInv, WrittenOf, Solo, Saved, ram, flash, overlap, judging
<1>4. ASSUME NEW t \in Tasks, ConnectClear(t) PROVE WrittenInv'
  <2>1. t \in Tasks /\ Acts(t)
    BY <1>4, Actors, PcType
  <2>2. pc'[t] \notin {"save", "again"}
    BY <1>4, <2>1, PcType DEF ConnectClear, Goto
  <2>3. WrittenOf(t)'
    BY <2>2 DEF WrittenOf
  <2> QED
    BY <2>1, <2>3, WrittenFrame
<1>5. ASSUME NEW t \in Tasks, ConnectFill(t) PROVE WrittenInv'
  <2>1. t \in Tasks /\ Acts(t)
    BY <1>5, Actors, PcType
  <2>2. pc'[t] \notin {"save", "again"}
    BY <1>5, <2>1, PcType DEF ConnectFill, Goto
  <2>3. WrittenOf(t)'
    BY <2>2 DEF WrittenOf
  <2> QED
    BY <2>1, <2>3, WrittenFrame
<1>6. CASE Twin
  <2>1. "mqtt" \in Tasks /\ Acts("mqtt")
    BY <1>6, Actors, PcType
  <2>2. key'["mqtt"] = 1
    BY <1>6, PcType DEF Twin, StartSave, ControlTypes
  <2>3. WrittenOf("mqtt")'
    BY <2>2, Keys DEF WrittenOf
  <2> QED
    BY <2>1, <2>3, WrittenFrame
<1>7. CASE TwinSaved
  <2>1. "mqtt" \in Tasks /\ Acts("mqtt")
    BY <1>7, Actors, PcType
  <2>2. pc'["mqtt"] \notin {"save", "again"}
    BY <1>7, <2>1, PcType DEF TwinSaved, Goto
  <2>3. WrittenOf("mqtt")'
    BY <2>2 DEF WrittenOf
  <2> QED
    BY <2>1, <2>3, WrittenFrame
<1>8. CASE TwinApply
  <2>1. "mqtt" \in Tasks /\ Acts("mqtt")
    BY <1>8, Actors, PcType
  <2>2. key'["mqtt"] = 1
    BY <1>8, PcType DEF TwinApply, StartSave, ControlTypes
  <2>3. WrittenOf("mqtt")'
    BY <2>2, Keys DEF WrittenOf
  <2> QED
    BY <2>1, <2>3, WrittenFrame
<1>9. CASE TwinEnd
  <2>1. "mqtt" \in Tasks /\ Acts("mqtt")
    BY <1>9, Actors, PcType
  <2>2. pc'["mqtt"] \notin {"save", "again"}
    BY <1>9, <2>1, PcType DEF TwinEnd, Goto
  <2>3. WrittenOf("mqtt")'
    BY <2>2 DEF WrittenOf
  <2> QED
    BY <2>1, <2>3, WrittenFrame
<1>10. CASE PullSnapshot
  <2>1. "http" \in Tasks /\ Acts("http")
    BY <1>10, Actors, PcType
  <2>2. pc'["http"] \notin {"save", "again"}
    BY <1>10, <2>1, PcType DEF PullSnapshot, Goto
  <2>3. WrittenOf("http")'
    BY <2>2 DEF WrittenOf
  <2> QED
    BY <2>1, <2>3, WrittenFrame
<1>11. CASE PullApply
  <2>1. "http" \in Tasks /\ Acts("http")
    BY <1>11, Actors, PcType
  <2>2. key'["http"] = 1
    BY <1>11, PcType DEF PullApply, StartSave, ControlTypes
  <2>3. WrittenOf("http")'
    BY <2>2, Keys DEF WrittenOf
  <2> QED
    BY <2>1, <2>3, WrittenFrame
<1>12. CASE PullSaved
  <2>1. "http" \in Tasks /\ Acts("http")
    BY <1>12, Actors, PcType
  <2>2. pc'["http"] \notin {"save", "again"}
    BY <1>12, <2>1, PcType DEF PullSaved, Goto
  <2>3. WrittenOf("http")'
    BY <2>2 DEF WrittenOf
  <2> QED
    BY <2>1, <2>3, WrittenFrame
<1>13. CASE PullSet
  <2>1. "http" \in Tasks /\ Acts("http")
    BY <1>13, Actors, PcType
  <2>2. pc'["http"] \notin {"save", "again"}
    BY <1>13, <2>1, PcType DEF PullSet, Goto
  <2>3. WrittenOf("http")'
    BY <2>2 DEF WrittenOf
  <2> QED
    BY <2>1, <2>3, WrittenFrame
<1>14. CASE Reboot
  <2>1. Inside' = {}
    BY <1>14 DEF Reboot, Inside, Outside
  <2> QED
    BY <1>14, <2>1 DEF WrittenInv, WrittenOf, Solo
<1>15. CASE UNCHANGED vars
  BY <1>15 DEF vars, ram, flash, control, flags, overlap, judging, bounds, WrittenInv,
     WrittenOf, Solo, Saved, Inside
<1> QED
  BY <1>1, <1>2, <1>3, <1>4, <1>5, <1>6, <1>7, <1>8, <1>9, <1>10, <1>11, <1>12, <1>13, <1>14,
     <1>15, Actors, PcType DEF Next

\* A save that was by itself and whose writes all succeeded has left every key, and the
\* file, with what it saved.
LEMMA Settled ==
  ASSUME ControlTypes, WrittenInv, NEW t \in Tasks, Solo(t), pc[t] \in {"save", "again"},
         key[t] > Len(KeyOrder), SaveFile(t), ~dirty'
  PROVE  file' = Printed(Saved(t)) /\ \A f \in Fields : nvs[f] = Saved(t)[f]
<1>1. file' = Printed(Saved(t)) /\ ~dirty
  BY DEF SaveFile
<1>2. ASSUME NEW f \in Fields PROVE nvs[f] = Saved(t)[f]
  <2>1. PICK i \in 1 .. Len(KeyOrder) : KeyOrder[i] = f
    BY Keys
  <2>2. i < key[t]
    BY Keys DEF ControlTypes
  <2> QED
    BY <1>1, <2>1, <2>2 DEF WrittenInv, WrittenOf
<1> QED
  BY <1>1, <1>2

\* What was saved is known, stays known, and is known by what the file says of it.
LEMMA KnownSelf == ASSUME NEW f, NEW v PROVE Known({v}, f, v)
  BY DEF Known, Means

LEMMA KnownPrinted ==
  ASSUME NEW values, NEW f \in Fields, NEW cfg, Known(values, f, cfg[f])
  PROVE  Known(values, f, Printed(cfg)[f])
  BY DEF Known, Means, Printed

LEMMA KnownAfterOffer ==
  ASSUME CopyTypes, NEW cfg, Offer(cfg), NEW f \in Fields
  PROVE  /\ Known(kept'[f], f, cfg[f])
         /\ \A v : Known(kept[f], f, v) => Known(kept'[f], f, v)
<1>1. kept'[f] = kept[f] \union {cfg[f]}
  BY DEF Offer
<1> QED
  BY <1>1, Zenon DEF Known, Means

\* Whatever is written or about to be written is among what a boot may come up with, and
\* a save forgets older values only once they are nowhere to be found.
LEMMA KeptStep ==
  ASSUME ControlTypes, CopyTypes, PlaceInv, OverlapInv, CopyInv, WrittenInv, KeptInv,
         [Next]_vars
  PROVE  KeptInv'
<1>1. ASSUME NEW t \in Tasks, SaveKey(t) PROVE KeptInv'
  <2> SUFFICES ASSUME ~wiped', NEW f \in Fields PROVE KeptAt(f)'
    BY DEF KeptInv
  <2>1. KeptAt(f)
    BY <1>1 DEF SaveKey, KeptInv
  <2> QED
    BY <1>1, <2>1, PcType DEF SaveKey, ram, Saved, SetKey, KeptAt, CopyTypes, Configs, PlaceInv
<1>2. ASSUME NEW t \in Tasks, Connects(t) PROVE KeptInv'
  <2> SUFFICES ASSUME ~wiped', NEW f \in Fields PROVE KeptAt(f)'
    BY DEF KeptInv
  <2>1. KeptAt(f)
    BY <1>2 DEF Connects, judging, KeptInv
  <2> QED
    BY <1>2, <2>1, PcType DEF Connects, Goto, ram, flash, judging, KeptAt, CopyTypes,
       Configs, PlaceInv
<1>3. ASSUME NEW t \in Tasks, GivesUp(t) PROVE KeptInv'
  <2> SUFFICES ASSUME ~wiped', NEW f \in Fields PROVE KeptAt(f)'
    BY DEF KeptInv
  <2>1. KeptAt(f)
    BY <1>3 DEF GivesUp, judging, KeptInv
  <2> QED
    BY <1>3, <2>1, PcType DEF GivesUp, Goto, ram, flash, judging, KeptAt, CopyTypes,
       Configs, PlaceInv
<1>4. ASSUME NEW t \in Tasks, ConnectClear(t) PROVE KeptInv'
  <2> SUFFICES ASSUME ~wiped', NEW f \in Fields PROVE KeptAt(f)'
    BY DEF KeptInv
  <2>1. KeptAt(f)
    BY <1>4 DEF ConnectClear, KeptInv
  <2> QED
    BY <1>4, <2>1, PcType DEF ConnectClear, Goto, flash, KeptAt, CopyTypes, Configs, PlaceInv
<1>5. ASSUME NEW t \in Tasks, ConnectFill(t) PROVE KeptInv'
  <2> SUFFICES ASSUME ~wiped', NEW f \in Fields PROVE KeptAt(f)'
    BY DEF KeptInv
  <2>1. KeptAt(f)
    BY <1>5 DEF ConnectFill, judging, KeptInv
  <2> QED
    BY <1>5, <2>1, PcType DEF ConnectFill, Goto, flash, judging, KeptAt, CopyTypes,
       Configs, PlaceInv
<1>6. CASE Twin
  <2> SUFFICES ASSUME ~wiped', NEW f \in Fields PROVE KeptAt(f)'
    BY DEF KeptInv
  <2>1. KeptAt(f)
    BY <1>6 DEF Twin, KeptInv
  <2> QED
    <3>1. /\ Known(kept'[f], f, azure'[f])
          /\ \A v : Known(kept[f], f, v) => Known(kept'[f], f, v)
      BY <1>6, KnownAfterOffer DEF Twin
    <3> QED
      BY <1>6, <2>1, <3>1, PcType DEF Twin, Goto, flash, KeptAt, PlaceInv
<1>7. CASE TwinSaved
  <2> SUFFICES ASSUME ~wiped', NEW f \in Fields PROVE KeptAt(f)'
    BY DEF KeptInv
  <2>1. KeptAt(f)
    BY <1>7 DEF TwinSaved, KeptInv
  <2> QED
    <3>1. Known(kept[f], f, Printed(azure)[f])
      BY <1>7, <2>1, KnownPrinted DEF TwinSaved, KeptAt
    <3>2. file' \in {Printed(azure), file, None}
      BY <1>7 DEF TwinSaved, SaveFile, Saved
    <3> QED
      BY <1>7, <2>1, <3>1, <3>2, PcType DEF TwinSaved, Goto, ram, KeptAt, PlaceInv
<1>8. CASE TwinApply
  <2> SUFFICES ASSUME ~wiped', NEW f \in Fields PROVE KeptAt(f)'
    BY DEF KeptInv
  <2>1. KeptAt(f)
    BY <1>8 DEF TwinApply, KeptInv
  <2> QED
    <3>1. /\ Known(kept'[f], f, azure[f])
          /\ \A v : Known(kept[f], f, v) => Known(kept'[f], f, v)
      BY <1>8, KnownAfterOffer DEF TwinApply
    <3> QED
      BY <1>8, <2>1, <3>1, PcType DEF TwinApply, Goto, flash, KeptAt, PlaceInv
<1>9. CASE TwinEnd
  <2> SUFFICES ASSUME ~wiped', NEW f \in Fields PROVE KeptAt(f)'
    BY DEF KeptInv
  <2>1. KeptAt(f)
    BY <1>9 DEF TwinEnd, KeptInv
  <2>2. /\ Saved("mqtt") = azure /\ file' \in {Printed(Saved("mqtt")), file, None}
        /\ main' = main /\ azure' = azure /\ nvs' = nvs /\ local' = local
    BY <1>9 DEF TwinEnd, SaveFile, Saved, ram
  <2>3. \A u \in Tasks \ {"mqtt"} : pc'[u] = pc[u]
    BY <1>9, PcType DEF TwinEnd, Goto
  <2>4. pc["mqtt"] = "again" /\ pc'["mqtt"] = "idle"
    BY <1>9, PcType DEF TwinEnd, Goto
  <2>5. CASE kept' = kept
    <3>1. Known(kept[f], f, Printed(azure)[f])
      BY <2>1, <2>2, <2>4, KnownPrinted DEF KeptAt
    <3> QED
      BY <2>1, <2>2, <2>3, <2>4, <2>5, <3>1, PcType DEF KeptAt
  <2>6. CASE "mqtt" \notin crowd /\ ~dirty' /\ kept' = [g \in Fields |-> {Saved("mqtt")[g]}]
    <3>1. Solo("mqtt") /\ "mqtt" \in Tasks
      BY <2>4, <2>6, Insides, PcType DEF Solo, Outside
    <3>2. file' = Printed(azure) /\ nvs[f] = azure[f]
      BY <1>9, <2>2, <2>4, <2>6, <3>1, Settled DEF TwinEnd
    <3>3. main = azure
      BY <2>4, <3>1 DEF CopyInv, CopyOf
    <3>4. \A u \in Tasks \ {"mqtt"} : pc'[u] \in Outside
      BY <2>3, <3>1, Insides DEF OverlapInv, Solo
    <3>5. kept'[f] = {azure[f]}
      BY <2>2, <2>6
    <3>6. Known(kept'[f], f, azure[f]) /\ Known(kept'[f], f, Printed(azure)[f])
      BY <3>5, KnownSelf, KnownPrinted
    <3> QED
      BY <2>2, <2>4, <3>2, <3>3, <3>4, <3>6, PcType DEF KeptAt, Outside
  <2> QED
    BY <1>9, <2>5, <2>6 DEF TwinEnd, Settle
<1>10. CASE PullSnapshot
  <2> SUFFICES ASSUME ~wiped', NEW f \in Fields PROVE KeptAt(f)'
    BY DEF KeptInv
  <2>1. KeptAt(f)
    BY <1>10 DEF PullSnapshot, KeptInv
  <2> QED
    BY <1>10, <2>1, PcType DEF PullSnapshot, Goto, ram, flash, KeptAt, CopyTypes, Configs,
       PlaceInv
<1>11. CASE PullApply
  <2> SUFFICES ASSUME ~wiped', NEW f \in Fields PROVE KeptAt(f)'
    BY DEF KeptInv
  <2>1. KeptAt(f)
    BY <1>11 DEF PullApply, KeptInv
  <2> QED
    <3>1. /\ Known(kept'[f], f, local'["http"][f])
          /\ \A v : Known(kept[f], f, v) => Known(kept'[f], f, v)
      BY <1>11, KnownAfterOffer DEF PullApply
    <3>2. \A t \in Tasks \ {"http"} : local'[t] = local[t]
      BY <1>11, Zenon DEF PullApply, CopyTypes
    <3> QED
      BY <1>11, <2>1, <3>1, <3>2, PcType DEF PullApply, Goto, flash, KeptAt, PlaceInv
<1>12. CASE PullSaved
  <2> SUFFICES ASSUME ~wiped', NEW f \in Fields PROVE KeptAt(f)'
    BY DEF KeptInv
  <2>1. KeptAt(f)
    BY <1>12 DEF PullSaved, KeptInv
  <2>2. /\ Saved("http") = local["http"] /\ file' \in {Printed(Saved("http")), file, None}
        /\ main' = main /\ azure' = azure /\ nvs' = nvs /\ local' = local
    BY <1>12 DEF PullSaved, SaveFile, Saved, ram
  <2>3. \A u \in Tasks \ {"http"} : pc'[u] = pc[u]
    BY <1>12, PcType DEF PullSaved, Goto
  <2>4. pc["http"] = "save" /\ pc'["http"] = "set"
    BY <1>12, PcType DEF PullSaved, Goto
  <2>5. CASE kept' = kept
    <3>1. Known(kept[f], f, Printed(local["http"])[f])
      BY <2>1, <2>2, <2>4, KnownPrinted DEF KeptAt
    <3> QED
      BY <2>1, <2>2, <2>3, <2>4, <2>5, <3>1, PcType DEF KeptAt
  <2>6. CASE "http" \notin crowd /\ ~dirty' /\ kept' = [g \in Fields |-> {Saved("http")[g]}]
    <3>1. Solo("http") /\ "http" \in Tasks
      BY <2>4, <2>6, Insides, PcType DEF Solo, Outside
    <3>2. file' = Printed(local["http"]) /\ nvs[f] = local["http"][f]
      BY <1>12, <2>2, <2>4, <2>6, <3>1, Settled DEF PullSaved
    <3>3. main = local["http"]
      BY <2>4, <3>1 DEF CopyInv, CopyOf
    <3>4. \A u \in Tasks \ {"http"} : pc'[u] \in Outside
      BY <2>3, <3>1, Insides DEF OverlapInv, Solo
    <3>5. kept'[f] = {local["http"][f]}
      BY <2>2, <2>6
    <3>6. pc'["mqtt"] = "idle" /\ \A u \in Tasks : pc'[u] \notin {"clear", "fill"}
      BY <2>3, <2>4, <3>4, PcType DEF Outside, PlaceInv
    <3>7. /\ Known(kept'[f], f, local["http"][f])
          /\ Known(kept'[f], f, Printed(local["http"])[f])
      BY <3>5, KnownSelf, KnownPrinted
    <3> QED
      BY <2>2, <3>2, <3>3, <3>6, <3>7 DEF KeptAt
  <2> QED
    BY <1>12, <2>5, <2>6 DEF PullSaved, Settle
<1>13. CASE PullSet
  <2> SUFFICES ASSUME ~wiped', NEW f \in Fields PROVE KeptAt(f)'
    BY DEF KeptInv
  <2>1. KeptAt(f)
    BY <1>13 DEF PullSet, judging, KeptInv
  <2> QED
    BY <1>13, <2>1, PcType DEF PullSet, Goto, flash, judging, KeptAt, CopyTypes, Configs,
       PlaceInv
<1>14. CASE Reboot
  <2> SUFFICES ASSUME ~wiped', NEW f \in Fields PROVE KeptAt(f)'
    BY DEF KeptInv
  <2>1. KeptAt(f) /\ Known(kept[f], f, main'[f])
    BY <1>14 DEF Reboot, KeptInv, KeptAt, Load
  <2>2. nvs' = nvs /\ kept' = kept /\ file' \in {file, None}
    BY <1>14 DEF Reboot, flash
  <2>3. \A t \in Tasks : pc'[t] \in {"start", "idle"}
    BY <1>14 DEF Reboot
  <2>4. pc'["mqtt"] = "idle"
    BY <1>14, PcType DEF Reboot
  <2> QED
    BY <2>1, <2>2, <2>3, <2>4, PcType DEF KeptAt
<1>15. CASE UNCHANGED vars
  BY <1>15 DEF vars, ram, flash, control, flags, overlap, judging, bounds, KeptInv, KeptAt
<1> QED
  BY <1>1, <1>2, <1>3, <1>4, <1>5, <1>6, <1>7, <1>8, <1>9, <1>10, <1>11, <1>12, <1>13, <1>14,
     <1>15, Actors, PcType DEF Next
-------------------------------------------------------------------------------
(* The theorems.                                                           *)

\* The initial state satisfies every part of the invariant.
LEMMA InitInvariant == Init => IInv
<1> SUFFICES ASSUME Init PROVE IInv
  OBVIOUS
<1>1. Blank \in Configs /\ [f \in Fields |-> 1] \in Configs
  BY ConstantsAssumption DEF Blank, Configs, Vals, Braces
<1>2. main \in Configs /\ nvs \in Configs /\ file \in Configs \union {None}
  BY <1>1 DEF Init, Load
<1>3. kept \in [Fields -> SUBSET Vals]
  BY <1>2 DEF Init, Configs
<1>4. CopyTypes
  BY <1>1, <1>2, <1>3 DEF Init, CopyTypes
<1>5. ControlTypes
  BY ConstantsAssumption, Keys DEF Init, ControlTypes, Locations
<1>6. FlagTypes /\ PlaceInv
  BY DEF Init, FlagTypes, PlaceInv, Tasks
<1>7. Inside = {}
  BY DEF Init, Inside, Outside
<1>8. OverlapInv /\ CopyInv /\ WrittenInv
  BY <1>7 DEF Init, OverlapInv, CopyInv, CopyOf, CopiesAgree, WrittenInv, WrittenOf, Solo
<1>9. GivenInv
  BY DEF Init, GivenInv, Given, Tasks
<1>10. KeptInv
  <2>1. ASSUME NEW f \in Fields
        PROVE  Known(kept[f], f, main[f]) /\ Known(kept[f], f, nvs[f])
    BY DEF Init, Known, Means
  <2>2. ASSUME NEW f \in Fields, file # None PROVE file[f] = main[f]
    BY <2>2 DEF Init, Load, Blank, Fields
  <2>3. \A t \in Tasks : pc[t] \in {"start", "idle"}
    BY DEF Init
  <2>4. pc["mqtt"] = "idle"
    BY DEF Init, Tasks
  <2> QED
    BY <2>1, <2>2, <2>3, <2>4 DEF KeptInv, KeptAt, Tasks
<1> QED
  BY <1>4, <1>5, <1>6, <1>8, <1>9, <1>10 DEF IInv

\* The invariant holds in every reachable state.
THEOREM Invariance == Spec => []IInv
<1>1. ASSUME IInv, [Next]_vars PROVE IInv'
  BY <1>1, ControlStep, PlaceStep, FlagStep, OverlapStep, CopyStep, CopiesStep, GivenStep,
     WrittenStep, KeptStep DEF IInv
<1> QED
  BY <1>1, InitInvariant, PTL DEF Spec

\* Every variable keeps to its type; the pull is not under way once it is done, and two
\* updates at once are counted as overlapping.
THEOREM TypeCorrect == Spec => []TypeOK
  BY Invariance, TypeParts, PTL

\* Whatever updates overlapped before, one that overlaps none leaves main.c and
\* azure_iot.c with the same configuration.
THEOREM CopiesAgreeHolds == Spec => []CopiesAgree
<1>1. IInv => CopiesAgree
  BY DEF IInv, CopyInv
<1> QED
  BY <1>1, Invariance, PTL

\* Until two updates overlap, each field of s_runtime_cfg has the value last given to it.
THEOREM NothingLostHolds == Spec => []NothingLost
<1>1. IInv => NothingLost
  BY Insides, PcType DEF IInv, GivenInv, Given, PlaceInv, NothingLost, Outside
<1> QED
  BY <1>1, Invariance, PTL

\* Whichever writes failed and whenever the reset comes, a boot comes up in each field
\* with the value of the last save that went through undisturbed, or a later one.
THEOREM BootsWithWhatWasSavedHolds == Spec => BootsWithWhatWasSaved
<1>1. ASSUME IInv, [Next]_vars
      PROVE  reboots' # reboots /\ ~wiped =>
               \A f \in Fields : kept[f] \intersect Means(f, main'[f]) # {}
  <2>1. reboots' # reboots => Reboot
    BY <1>1 DEF Next, vars, bounds, SaveKey, ConnectSnapshot, ConnectClear, ConnectFill, Twin,
       TwinSaved, TwinApply, TwinEnd, PullSnapshot, PullApply, PullSaved, PullSet
  <2>2. ASSUME Reboot, ~wiped, NEW f \in Fields
        PROVE  kept[f] \intersect Means(f, main'[f]) # {}
    <3>1. Known(kept[f], f, main'[f])
      BY <1>1, <2>2 DEF Reboot, Load, IInv, KeptInv, KeptAt
    <3> QED
      BY <3>1 DEF Known
  <2> QED
    BY <2>1, <2>2
<1>2. IInv /\ [Next]_vars =>
        [reboots' # reboots /\ ~wiped =>
           \A f \in Fields : kept[f] \intersect Means(f, main'[f]) # {}]_vars
  BY <1>1
<1> QED
  BY <1>2, Invariance, PTL DEF Spec, BootsWithWhatWasSaved
===============================================================================
