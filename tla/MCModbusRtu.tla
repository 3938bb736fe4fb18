---------------------------- MODULE MCModbusRtu ------------------------------
(***************************************************************************)
(* Instances of ModbusRtu for TLC: two tasks and a slave with two          *)
(* registers.  The requests include two reads that only their address      *)
(* tells apart, a write of the same register with either value, the block  *)
(* read whose answer does not fit the buffer of a write, and a count the   *)
(* protocol cannot carry.  Requests of the slave's whole map are out of    *)
(* range here, so the limits 125 and 123 are scaled to 8.                  *)
(***************************************************************************)
EXTENDS ModbusRtu, TLC

Read(a, n) == [fc |-> "read", addr |-> a, count |-> n, val |-> 0]
Write(a, v) == [fc |-> "write", addr |-> a, count |-> 1, val |-> v]

AllReqs == {Read(0, 1), Read(1, 1), Read(0, 6), Read(0, 0), Write(0, 0), Write(0, 1)}
Symmetry == Permutations(Tasks)

\* Without symmetry, for liveness: one request of each kind that is told apart.
FewReqs == {Read(0, 1), Read(0, 6), Write(0, 1)}
===============================================================================
