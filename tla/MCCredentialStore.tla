-------------------------- MODULE MCCredentialStore ----------------------------
(***************************************************************************)
(* Instances of CredentialStore for TLC: the credentials of the factory    *)
(* and two sets that are saved later, which are alike.                     *)
(***************************************************************************)
EXTENDS CredentialStore, TLC

Alike == Permutations(Creds \ {BootCred})
===============================================================================
