---------------------------- MODULE MCAzureSession ----------------------------
(***************************************************************************)
(* Instances of AzureSession for TLC: the identity loaded at boot and two  *)
(* the connection service may hand out, one of which cannot be signed for. *)
(***************************************************************************)
EXTENDS AzureSession
===============================================================================
