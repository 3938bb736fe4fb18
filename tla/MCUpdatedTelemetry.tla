-------------------------- MODULE MCUpdatedTelemetry ---------------------------
(***************************************************************************)
(* Instances of UpdatedTelemetry for TLC: more messages than one scan of   *)
(* the directory holds; versions of two and of three fields, one with a    *)
(* field that does not fit an int, and one without a number.               *)
(***************************************************************************)
EXTENDS UpdatedTelemetry

MCVersions == {<<>>, <<1, 9, 1>>, <<1, 10>>, <<1, 99>>}
===============================================================================
