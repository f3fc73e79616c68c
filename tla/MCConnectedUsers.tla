-------------------------- MODULE MCConnectedUsers --------------------------
(***************************************************************************)
(* ConnectedUsers on small instances.  One person has a Wii U, which may   *)
(* reconnect before its old connection is gone, and another console, which *)
(* is of the same account or of another one.                               *)
(***************************************************************************)
EXTENDS ConnectedUsers

CONSTANTS w1, w2, t1, wii, ctr, ann, bob

MCOverlap == {w1, w2}
MCTwoConsoles == {w1, t1}
MCPids == {wii, ctr}
MCPidOf == [c \in Conns |-> IF c = t1 THEN ctr ELSE wii]
MCCTRs == {t1} \cap Conns
MCOneAccount == [p \in PIDs |-> ann]
MCTwoAccounts == [p \in PIDs |-> IF p = wii THEN ann ELSE bob]

\* docs/protocol.md: when the core's account_banned event arrives the live
\* connections of the account are dropped.  Whoever is connected is on the
\* list of PIDs the ban goes through.
BanReachesConnected ==
    [][\A a \in Accounts : DropAccount(a) =>
        \A p \in PIDs : (AccountOf[p] = a /\ users[p] # NoConn) => p \in dropping']_vars

=============================================================================
