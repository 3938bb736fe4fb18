------------------------------- MODULE MCDevice --------------------------------
(***************************************************************************)
(* Instances of Device for TLC: provisioned with either Azure identity or  *)
(* none, while the service hands out the second one in every form.         *)
(***************************************************************************)
EXTENDS Device

SomeAnswers ==
    {[conn |-> c, fields |-> f, id |-> i] :
        c \in {"az2", NoId}, f \in {"az2", NoId}, i \in BackendIds \union {NoId}}
    \union {[conn |-> "az2", fields |-> "az1", id |-> i] : i \in BackendIds \union {NoId}}
===============================================================================
