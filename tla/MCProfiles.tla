----------------------------- MODULE MCProfiles -----------------------------
(***************************************************************************)
(* Profiles on a small instance.                                           *)
(***************************************************************************)
EXTENDS Profiles
=============================================================================
