---------------------------- MODULE MCResolution ----------------------------
(***************************************************************************)
(* Resolution on small instances.                                          *)
(***************************************************************************)
EXTENDS Resolution, TLC

\* Callers, friends and values are only compared.
MCSymmetry == Permutations(Callers) \cup Permutations(Friends) \cup Permutations(Values)
=============================================================================
