----------------------------- MODULE MCHttpUplink ------------------------------
(***************************************************************************)
(* Instances of HttpUplink for TLC.  The limits of the queue and of the    *)
(* store are scaled down so that a few payloads reach them.                *)
(***************************************************************************)
EXTENDS HttpUplink
===============================================================================
