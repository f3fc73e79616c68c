-------------------------- MODULE MCFriendRequests --------------------------
(***************************************************************************)
(* FriendRequests on small instances, and one comment that does not hold.  *)
(***************************************************************************)
EXTENDS FriendRequests, FiniteSets, TLC

\* Rows are only compared, and so are people with an account behind the PID.
MCSymmetry == Permutations(PIDs \ Unresolved) \cup Permutations(Rows)

\* Bound: who has anything to do with anybody else.
Involved ==
    UNION {{p[1], p[2]} : p \in pending \cup friends \cup blocks \cup blacklist \cup refused \cup strays}
    \cup {rows[r].from : r \in {r \in Rows : Exists(r)}}
    \cup {rows[r].to : r \in {r \in Rows : Exists(r)}}
    \cup {handled[i].to : i \in DOMAIN handled} \cup {handled[i].about : i \in DOMAIN handled}
    \cup UNION {{From(s), To(s)} : s \in {s \in Callers : call[s] # Idle}}

Aged == {r \in Rows : Exists(r) /\ rows[r].expired}

\* Bound: two people at a time.  A failure, a restart or requests grown old, and
\* other clients of the core, are looked at apart from denials and blocks, and from
\* PIDs without an account, which have one row to themselves.
MCBound ==
    /\ Cardinality(Involved) <= 2
    /\ \/ /\ blocks \cup blacklist \cup refused = {} /\ \A s \in Slots : ~At(s, "unblock")
          /\ Involved \cap Unresolved = {} /\ fails + restarts <= (IF Aged = {} THEN 1 ELSE 0)
       \/ /\ fails = 0 /\ restarts = 0 /\ elsewhere = 0 /\ Aged = {}
          /\ Cardinality({r \in Rows : Exists(r)}) <= 1

\* database/wiiu/get_user_friend_requests_in.go:70: "superseded/denied/removed
\* requests disappear from the listing even if metadata rows linger."
\* A denied request stays away until it is made again.
DeniedDisappears ==
    [][\A s \in Callers : (ShowList(s) /\ ~call[s].out) =>
        \A q \in Listed(s) : <<q, From(s)>> \notin refused]_vars
=============================================================================
