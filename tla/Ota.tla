--------------------------------- MODULE Ota -----------------------------------
(***************************************************************************)
(* ota.c: the ota method asks for an update, ota_start compares versions   *)
(* and starts a task, which downloads the image and restarts the device.   *)
(* A version is the sequence of the numbers in its name: <<1, 10>> for     *)
(* "v1.10", <<>> for a name without digits and for a request that names no *)
(* version.                                                                *)
(***************************************************************************)
EXTENDS Integers, Sequences, FiniteSetsExt

CONSTANTS Versions, \* the versions there are
          MaxInt,   \* what an int holds
          NoUpdate  \* no update is under way

ConstantsOK ==
    /\ Versions \subseteq Seq(Nat) /\ Versions # {}
    /\ NoUpdate \notin Versions
    /\ MaxInt \in Nat

VARIABLES firmware, \* the version that runs
          target    \* the version the update under way was asked to install; s_running

TypeOK ==
    /\ firmware \in Versions
    /\ target \in Versions \union {NoUpdate}

Init == firmware \in Versions /\ target = NoUpdate

Running == target # NoUpdate
-------------------------------------------------------------------------------
(* ota_parse_version and ota_cmp_version.                                  *)

\* Missing fields are 0; the digits of one that does not fit an int overflow it, which
\* may leave anything: what is above, between and below the fields there are.
Field(v, i) ==
    IF i > Len(v) THEN {0} ELSE IF v[i] <= MaxInt THEN {v[i]} ELSE {-1, 0, MaxInt}

\* Four fields, the rest is not read.
Parses(v) ==
    {<<a, b, c, d>> : a \in Field(v, 1), b \in Field(v, 2), c \in Field(v, 3), d \in Field(v, 4)}

\* Mutant: the fields are compared from the last.
Compare_LastFirst(a, b) ==
    LET D == {i \in 1 .. 4 : a[i] # b[i]} IN
    IF D = {} THEN 0 ELSE IF a[Max(D)] > b[Max(D)] THEN 1 ELSE -1

Compare(a, b) ==
    LET D == {i \in 1 .. 4 : a[i] # b[i]} IN
    IF D = {} THEN 0 ELSE IF a[Min(D)] > b[Min(D)] THEN 1 ELSE -1

\* A name without digits, on either side, allows the update.
Accepts(v) ==
    \/ v = <<>> \/ firmware = <<>>
    \/ \E t \in Parses(v), c \in Parses(firmware) : Compare(t, c) > 0
-------------------------------------------------------------------------------
\* ota_start.  Nothing changes when an update is under way, when the version is not
\* newer, or when there is no memory for the task.
Begin(v) ==
    /\ ~Running
    /\ Accepts(v)
    /\ target' = v
    /\ UNCHANGED firmware

\* ota_task: the download fails, or the image is not whole.
Fails ==
    /\ Running
    /\ target' = NoUpdate
    /\ UNCHANGED firmware

\* The image is in place and is the one the device boots next.  It is what the URL
\* serves: its version is not compared with the one the request named.
Installs ==
    /\ Running
    /\ firmware' \in Versions
    /\ target' = NoUpdate

\* A reset ends an update that is under way.
Restart ==
    /\ target' = NoUpdate
    /\ UNCHANGED firmware
===============================================================================
