--------------------------- MODULE MCCoreEvents ---------------------------
(***************************************************************************)
(* CoreEvents on small instances: pages of two events, so that a log of    *)
(* four has full, partial and empty pages.                                 *)
(***************************************************************************)
EXTENDS CoreEvents
=============================================================================
