-------------------------- MODULE MCPendingTelemetry ---------------------------
(***************************************************************************)
(* Instances of PendingTelemetry for TLC: more messages than one scan of   *)
(* the directory holds.                                                    *)
(***************************************************************************)
EXTENDS PendingTelemetry
===============================================================================
