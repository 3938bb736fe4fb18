---------------------------- MODULE MCSmartloadApp ----------------------------
(***************************************************************************)
(* Instances of SmartloadApp for TLC: the three tasks, one triple and one  *)
(* batch, which differ in every register from what the dispenser holds at  *)
(* first, and one method of each kind that writes.                         *)
(***************************************************************************)
EXTENDS SmartloadApp

OneTriple == {[recipe |-> 1, additive |-> 1, side |-> 1]}
\* 65536 + 2: the two halves differ.
OneBatch == {[preset |-> 65538, components |-> 3]}

AnyAuthorize == {[op |-> "authorize", arg |-> p] : p \in Triples}
AnyBatch == {[op |-> "auth_batch", arg |-> p] : p \in Batches}

AllMethods == AnyAuthorize \union AnyBatch \union
    {Job("start_batch"), Job("send_all_commands")}
===============================================================================
