--------------------------- MODULE MCConnectionPull -----------------------------
(***************************************************************************)
(* Instances of ConnectionPull for TLC: two Azure identities, two ids of   *)
(* the device-details service, and every form of its answer.               *)
(***************************************************************************)
EXTENDS ConnectionPull

\* Answers that name the id HTTP is to use beside the fields of the identity.
Proper == {p \in Answers : p.conn = NoId /\ p.fields # NoId /\ p.id # NoId}
===============================================================================
