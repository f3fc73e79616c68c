---------------------------- MODULE MCPublisher ----------------------------
(***************************************************************************)
(* Publisher on small instances.                                           *)
(***************************************************************************)
EXTENDS Publisher

\* How tight the bounds are: neither holds with one unit or one pass more.
TwoLosses == \A p \in steady : lost[p] <= 2 => Shown(p, online[p])
GoneSooner == \A p \in PIDs : online[p] = Off /\ away[p] >= Lease - 1 => \A s \in Shows : ~Shown(p, s)
=============================================================================
