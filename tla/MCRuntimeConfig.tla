--------------------------- MODULE MCRuntimeConfig -----------------------------
(***************************************************************************)
(* Instances of RuntimeConfig for TLC: device_params, which only the pull  *)
(* sets, and a number that the twin sets as well.                          *)
(***************************************************************************)
EXTENDS RuntimeConfig

Order == <<"device_params", "telemetry">>
===============================================================================
