---------------------------- MODULE MCFriends3DS ----------------------------
(***************************************************************************)
(* Friends3DS on small instances.                                          *)
(***************************************************************************)
EXTENDS Friends3DS, TLC

\* People with an account are only compared.
MCSymmetry == Permutations(PIDs \ Unresolved)
=============================================================================
