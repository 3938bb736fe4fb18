----------------------------- MODULE AtomicJobs --------------------------------
(***************************************************************************)
(* What s_modbus_lock promises to the callers of main.c: a job (a direct   *)
(* method, the quick test) acts on the dispenser as one indivisible block. *)
(* It carries out a beginning of its list of writes, in order and each     *)
(* once, with no write of another job in between, and a job that reports   *)
(* ESP_OK carried out the whole list.  A reset cuts off one job at most in *)
(* the middle, and loses those that wait.                                  *)
(***************************************************************************)
EXTENDS Naturals, Sequences

CONSTANTS Plans,    \* the lists of writes a job may be asked for
          MaxJobs   \* bound on the jobs that write

VARIABLES plan,    \* plan[i]: the writes job i was asked for
          log,     \* the writes the dispenser carried out, [id, what]
          result   \* result[i]: "OK" or "FAIL" once job i has returned, "LOST" if a
                  \* reset ended it, else "none"

vars == <<plan, log, result>>

Init == plan = <<>> /\ log = <<>> /\ result = <<>>

Ask(writes) ==
    /\ Len(plan) < MaxJobs
    /\ plan' = Append(plan, writes)
    /\ result' = Append(result, "none")
    /\ UNCHANGED log

\* The writes w of job i, as the dispenser sees them.
Tagged(i, w) == [k \in 1 .. Len(w) |-> [id |-> i, what |-> w[k]]]

Perform(i, n) ==
    /\ result[i] = "none"
    /\ log' = log \o Tagged(i, SubSeq(plan[i], 1, n))
    /\ \E r \in {"FAIL"} \union (IF n = Len(plan[i]) THEN {"OK"} ELSE {}) :
         result' = [result EXCEPT ![i] = r]
    /\ UNCHANGED plan

Lost == [i \in DOMAIN result |-> IF result[i] = "none" THEN "LOST" ELSE result[i]]

Crash ==
    /\ result' = Lost
    /\ \/ UNCHANGED log
       \/ \E i \in DOMAIN plan : \E n \in 1 .. Len(plan[i]) :
            result[i] = "none" /\ log' = log \o Tagged(i, SubSeq(plan[i], 1, n))
    /\ UNCHANGED plan

Next ==
    \/ Crash
    \/ \E w \in Plans : Ask(w)
    \/ \E i \in DOMAIN plan : \E n \in 0 .. Len(plan[i]) : Perform(i, n)

Spec == Init /\ [][Next]_vars
===============================================================================
