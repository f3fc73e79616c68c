---------------------------- MODULE MCCrossNotify ----------------------------
(***************************************************************************)
(* CrossNotify on small instances:  two viewers of one friend.             *)
(***************************************************************************)
EXTENDS CrossNotify
=============================================================================
