---------------------------- MODULE AccountGraph ----------------------------
(***************************************************************************)
(* The friend graph in the account core, as package coregraph uses it:     *)
(* pending requests, friendships and blocks, and the events it publishes.  *)
(* The core is external; its clients elsewhere (the website, a Switch, a   *)
(* phone) change the graph too.  People are named by their PIDs: those of  *)
(* Unresolved have no account the Resolution service knows.                *)
(*                                                                         *)
(* Each operator is one call that reached the core.  The operators with    *)
(* the names of coregraph's methods leave the rest of the state to the     *)
(* caller.                                                                 *)
(***************************************************************************)
EXTENDS Naturals, Sequences

CONSTANTS
    PIDs,
    Unresolved,
    MaxQueue     \* bound: events published and not yet handled; with 0 an
                 \* instance leaves the events out

ASSUME UnresolvedAssumption == Unresolved \subseteq PIDs
ASSUME QueueAssumption == MaxQueue \in Nat

VARIABLES
    pending,     \* <<a, b>>: a asked b
    friends,     \* <<a, b>>, with <<b, a>>
    blocks,      \* <<a, b>>: a blocks b
    events       \* published, oldest first

graph == <<pending, friends, blocks>>

Pairs  == {p \in PIDs \X PIDs : p[1] # p[2]}
Event  == [type : {"friend_requested", "friend_accepted", "friend_removed"}, to : PIDs, about : PIDs]
Both(a, b) == {<<a, b>>, <<b, a>>}
Related(a, b) == (pending \cup friends) \cap Both(a, b) # {}

GraphInit == pending = {} /\ friends = {} /\ blocks = {} /\ events = <<>>

Publish(type, to, about) ==
    IF MaxQueue = 0 THEN UNCHANGED events
    ELSE /\ Len(events) < MaxQueue
         /\ events' = Append(events, [type |-> type, to |-> to, about |-> about])

-----------------------------------------------------------------------------
Resolved(a, b) == {a, b} \cap Unresolved = {}

\* coregraph.IsBlocked: either blocks the other.
IsBlocked(a, b) == Resolved(a, b) /\ blocks \cap Both(a, b) # {}

\* RequestFriend refuses: one blocks the other, or the other asked already
\* (FailedPrecondition, after which coregraph.Request accepts instead).
Refuses(a, b)  == blocks \cap Both(a, b) # {}
AskedBack(a, b) == <<b, a>> \in pending

\* coregraph.Request: a asks b.  Asking a friend, or asking again, is no news.
Request(a, b) ==
    /\ IF Related(a, b) THEN UNCHANGED <<pending, events>>
       ELSE pending' = pending \cup {<<a, b>>} /\ Publish("friend_requested", b, a)
    /\ UNCHANGED <<friends, blocks>>

\* coregraph.AcceptRequest: b accepts what a asked.
AcceptRequest(b, a) ==
    /\ <<a, b>> \in pending
    /\ pending' = pending \ Both(a, b)
    /\ friends' = friends \cup Both(a, b)
    /\ Publish("friend_accepted", a, b)
    /\ UNCHANGED blocks

\* The relationship of a and b ends, by a's doing.
Part(a, b) ==
    /\ pending' = pending \ Both(a, b)
    /\ friends' = friends \ Both(a, b)
    /\ IF Related(a, b) THEN Publish("friend_removed", b, a) ELSE UNCHANGED events

\* coregraph.Remove.
Remove(a, b) == Part(a, b) /\ UNCHANGED blocks

\* coregraph.Block: whether the core also ends the relationship is its affair.
Block(a, b) ==
    /\ blocks' = blocks \cup {<<a, b>>}
    /\ Part(a, b) \/ UNCHANGED <<pending, friends, events>>

\* coregraph.Unblock.
Unblock(a, b) ==
    /\ blocks' = blocks \ {<<a, b>>}
    /\ UNCHANGED <<pending, friends, events>>

\* coregraph.FriendPIDs and those below: people whose PID does not resolve have
\* none, and are nobody's.
FriendPIDs(p) == {q \in PIDs \ Unresolved : p \notin Unresolved /\ <<p, q>> \in friends}

\* coregraph.IncomingRequesterPIDs and OutgoingAddresseePIDs: those whose PID does
\* not resolve are left out.
IncomingRequesterPIDs(p) == {q \in PIDs \ Unresolved : p \notin Unresolved /\ <<q, p>> \in pending}
OutgoingAddresseePIDs(p) == {q \in PIDs \ Unresolved : p \notin Unresolved /\ <<p, q>> \in pending}

\* What other clients of the core do.
Elsewhere ==
    \E p \in Pairs :
        \/ ~Refuses(p[1], p[2]) /\ ~AskedBack(p[1], p[2]) /\ Request(p[1], p[2])
        \/ AcceptRequest(p[1], p[2])
        \/ Related(p[1], p[2]) /\ Remove(p[1], p[2])
        \/ Block(p[1], p[2])
        \/ Unblock(p[1], p[2])

-----------------------------------------------------------------------------
\* What the graph never is, whoever works on it: friends one way only, nobody
\* both a friend and asking, and no two who ask each other.
GraphOK ==
    /\ pending \in SUBSET Pairs /\ friends \in SUBSET Pairs /\ blocks \in SUBSET Pairs
    /\ events \in Seq(Event)
    /\ \A p \in friends : <<p[2], p[1]>> \in friends /\ p \notin pending
    /\ \A p \in pending : <<p[2], p[1]>> \notin pending
=============================================================================
