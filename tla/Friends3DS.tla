----------------------------- MODULE Friends3DS -----------------------------
(***************************************************************************)
(* Friends of a 3DS: no table of its own, only calls into the core's       *)
(* graph.  A console adds and removes people, asks for its list, and on    *)
(* sign-in sends the list it holds, which the graph is made to agree with, *)
(* one round trip after the other, while other consoles and other clients  *)
(* of the core go on.  Complete is a friendship, incomplete a request of   *)
(* the console's own that is pending.  No event changes anything a 3DS     *)
(* call reads, so instances leave them out (MaxQueue = 0).                 *)
(***************************************************************************)
EXTENDS AccountGraph

CONSTANTS
    Slots,       \* bound: calls at one time
    Idle,
    MaxElsewhere \* bound: steps of other clients of the core

ASSUME BoundAssumption == MaxElsewhere \in Nat
ASSUME IdleAssumption == Idle \notin Slots

VARIABLES
    call,        \* the call in progress in a slot
    elsewhere,
    touched,     \* history: pairs something else changed since the call began
    asked        \* history: <<a, b>>: a's console was told that b is added, and
                 \* the relationship has not ended since

vars == <<graph, events, call, elsewhere, touched, asked>>

\* list is what the console sent, have the relationships found or made, todo
\* those to end, to the person a refused request was for.
Call == [op : {"sync", "list", "add"}, at : {"friends", "outgoing", "work", "complete"},
         from : PIDs, to : PIDs, list : SUBSET PIDs, have : SUBSET PIDs, todo : SUBSET PIDs]

Init ==
    /\ GraphInit
    /\ call = [s \in Slots |-> Idle]
    /\ elsewhere = 0
    /\ touched = [s \in Slots |-> {}]
    /\ asked = {}

-----------------------------------------------------------------------------
At(s, step) == call[s] # Idle /\ call[s].at = step
From(s) == call[s].from
Return(s) == call' = [call EXCEPT ![s] = Idle] /\ touched' = [touched EXCEPT ![s] = {}]

\* The relationships of p that p's console is shown.
Mine(p) == {q \in PIDs : <<p, q>> \in pending \cup friends}

\* The histories follow a step of s that changed the graph, and told s's
\* console that the pairs of told are added.
Moved == {p \in Pairs : (p \in pending) # (p \in pending') \/ (p \in friends) # (p \in friends')}
Lasting == {p \in Pairs : Both(p[1], p[2]) \cap (pending' \cup friends') # {}}
Follow(s, told) ==
    /\ touched' = [t \in Slots |-> IF call[t] = Idle \/ t = s THEN touched[t] ELSE touched[t] \cup Moved]
    /\ asked' = (asked \cup told) \cap Lasting

Begin(s, op, at, p, list) ==
    /\ call[s] = Idle
    /\ call' = [call EXCEPT ![s] = [op |-> op, at |-> at, from |-> p, to |-> p,
                                    list |-> list, have |-> {}, todo |-> {}]]
    /\ UNCHANGED <<graph, events, elsewhere, touched, asked>>

SyncFriend(s, p, list) == Begin(s, "sync", "friends", p, list)
GetAllFriends(s, p) == Begin(s, "list", "friends", p, {})
AddFriendByPrincipalID(s, p, q) == Begin(s, "add", "work", p, {q})

-----------------------------------------------------------------------------
(***************************************************************************)
(* GetUserFriends: two questions to the core.                              *)
(***************************************************************************)
AskFriends(s) ==
    /\ At(s, "friends")
    /\ call' = [call EXCEPT ![s].have = FriendPIDs(From(s)), ![s].at = "outgoing"]
    /\ UNCHANGED <<graph, events, elsewhere, touched, asked>>

\* Faulty: whoever is found is removed, to be saved again.
AskOutgoingAnew(s) ==
    /\ At(s, "outgoing")
    /\ LET all == call[s].have \cup OutgoingAddresseePIDs(From(s)) IN
        call' = [call EXCEPT ![s].have = all, ![s].at = "work",
                             ![s].todo = IF call[s].op = "sync" THEN all ELSE {}]
    /\ UNCHANGED <<graph, events, elsewhere, touched, asked>>

\* Faulty: forgets the requests of the console's own.
AskOutgoingNobody(s) ==
    /\ At(s, "outgoing")
    /\ call' = [call EXCEPT ![s].at = "work",
                            ![s].todo = IF call[s].op = "sync" THEN call[s].have \ call[s].list ELSE {}]
    /\ UNCHANGED <<graph, events, elsewhere, touched, asked>>

\* Nobody at all is ErrEmptyList, which no handler takes for a list.
AskOutgoing(s) ==
    /\ At(s, "outgoing")
    /\ LET all == call[s].have \cup OutgoingAddresseePIDs(From(s)) IN
        \/ all = {} /\ Return(s)
        \/ /\ all # {}
           /\ call' = [call EXCEPT ![s].have = all, ![s].at = "work",
                                   ![s].todo = IF call[s].op = "sync" THEN all \ call[s].list ELSE {}]
           /\ UNCHANGED touched
    /\ UNCHANGED <<graph, events, elsewhere, asked>>

-----------------------------------------------------------------------------
(***************************************************************************)
(* SyncFriend: whom the console does not list any more is removed, then    *)
(* whom it lists is saved.  What was found stays in the reply.             *)
(***************************************************************************)
\* Faulty: one look at the list for all of them.
RemovingOne(s, q) ==
    /\ At(s, "work") /\ q \in call[s].todo
    /\ Remove(From(s), q)
    /\ call' = [call EXCEPT ![s].todo = {}]
    /\ Follow(s, {})
    /\ UNCHANGED elsewhere

Removing(s, q) ==
    /\ At(s, "work") /\ q \in call[s].todo
    /\ Remove(From(s), q)
    /\ call' = [call EXCEPT ![s].todo = @ \ {q}]
    /\ Follow(s, {})
    /\ UNCHANGED elsewhere

\* SaveFriendship asks the core; a person it does not know is an invalid
\* relationship of the reply.
ToSave(s) == IF At(s, "work") /\ call[s].todo = {} THEN call[s].list \ call[s].have ELSE {}
Saved(s, q) == call' = [call EXCEPT ![s].have = @ \cup {q}, ![s].at = "work", ![s].to = From(s)]

SaveUnknown(s, q) ==
    /\ q \in ToSave(s) /\ ~Resolved(From(s), q)
    /\ Saved(s, q)
    /\ UNCHANGED <<graph, events, elsewhere, touched, asked>>

SaveAsk(s, q) ==
    /\ q \in ToSave(s) /\ Resolved(From(s), q)
    /\ ~Refuses(From(s), q) /\ ~AskedBack(From(s), q)
    /\ Request(From(s), q)
    /\ Saved(s, q)
    /\ Follow(s, {<<From(s), q>>})
    /\ UNCHANGED elsewhere

\* Faulty: takes a refusal for a request that is already pending.
SaveRefusedIncomplete(s, q) ==
    /\ q \in ToSave(s) /\ Resolved(From(s), q)
    /\ Refuses(From(s), q) \/ AskedBack(From(s), q)
    /\ Saved(s, q)
    /\ asked' = asked \cup {<<From(s), q>>}
    /\ UNCHANGED <<graph, events, elsewhere, touched>>

\* The core refuses: the other may have asked, which is to be accepted.
SaveRefused(s, q) ==
    /\ q \in ToSave(s) /\ Resolved(From(s), q)
    /\ Refuses(From(s), q) \/ AskedBack(From(s), q)
    /\ call' = [call EXCEPT ![s].to = q, ![s].at = "complete"]
    /\ UNCHANGED <<graph, events, elsewhere, touched, asked>>

\* A request that is gone by now, or that a block holds up, is an error and
\* the end of the call, whatever it did so far.
SaveComplete(s) ==
    /\ At(s, "complete")
    /\ LET p == From(s)  q == call[s].to IN
        \/ AcceptRequest(p, q) /\ Saved(s, q) /\ Follow(s, {<<p, q>>})
        \/ /\ <<q, p>> \notin pending \/ Refuses(p, q)
           /\ Return(s)
           /\ UNCHANGED <<graph, events, asked>>
    /\ UNCHANGED elsewhere

\* All of the list is dealt with.
Reply(s) ==
    /\ At(s, "work") /\ call[s].todo = {} /\ ToSave(s) = {}
    /\ Return(s)
    /\ UNCHANGED <<graph, events, elsewhere, asked>>

-----------------------------------------------------------------------------
\* RemoveFriendByPrincipalID: one call to the core.
RemoveFriendByPrincipalID(p, q) ==
    /\ Resolved(p, q) /\ Related(p, q)
    /\ Remove(p, q)
    /\ Follow(Idle, {})
    /\ UNCHANGED <<call, elsewhere>>

\* A round trip fails, or the process dies: the call is over.
CallFails(s) ==
    /\ call[s] # Idle
    /\ Return(s)
    /\ UNCHANGED <<graph, events, elsewhere, asked>>

ElsewhereStep ==
    /\ elsewhere < MaxElsewhere
    /\ elsewhere' = elsewhere + 1
    /\ Elsewhere
    /\ Follow(Idle, {})
    /\ UNCHANGED call

Console(s) ==
    \/ \E p \in PIDs : \E list \in SUBSET (PIDs \ {p}) : SyncFriend(s, p, list)
    \/ \E p \in PIDs : GetAllFriends(s, p)
    \/ \E p \in Pairs : AddFriendByPrincipalID(s, p[1], p[2])

Go(s) ==
    \/ AskFriends(s) \/ AskOutgoing(s) \/ SaveComplete(s) \/ Reply(s)
    \/ \E q \in PIDs : Removing(s, q) \/ SaveUnknown(s, q) \/ SaveAsk(s, q) \/ SaveRefused(s, q)

Next ==
    \/ \E s \in Slots : Console(s) \/ Go(s) \/ CallFails(s)
    \/ \E p \in Pairs : RemoveFriendByPrincipalID(p[1], p[2])
    \/ ElsewhereStep

Spec == Init /\ [][Next]_vars

-----------------------------------------------------------------------------
TypeOK ==
    /\ GraphOK
    /\ call \in [Slots -> Call \cup {Idle}]
    /\ \A s \in Slots : call[s] # Idle => call[s].todo \subseteq call[s].have \ call[s].list
    /\ elsewhere \in 0..MaxElsewhere
    /\ touched \in [Slots -> SUBSET Pairs] /\ asked \in SUBSET Pairs

\* coregraph.Request: the second of two requests completes the friendship.
\* Two people whose consoles were both told that the other is added are friends,
\* however their calls met, until somebody ends it.
MutualAddCompletes ==
    \A p \in asked : <<p[2], p[1]>> \in asked => p \in friends

\* A sync that is answered leaves the core with the console's list: everybody
\* listed and known is related, nobody else is, but for those somebody else
\* changed meanwhile.
Untouched(s, q) == touched[s] \cap Both(From(s), q) = {}
SyncSettles ==
    [][\A s \in Slots : (Reply(s) /\ call[s].op = "sync") =>
        \A q \in PIDs \ (Unresolved \cup {From(s)}) :
            (Untouched(s, q) /\ From(s) \notin Unresolved) =>
                (q \in Mine(From(s)) <=> q \in call[s].list)]_vars

\* The list a console gets is made of two answers of different times, and right
\* about everybody whose relationship stayed as it was meanwhile.
ListedAsTheyAre ==
    [][\A s \in Slots : (Reply(s) /\ call[s].op = "list") =>
        \A q \in PIDs \ Unresolved :
            Untouched(s, q) => (q \in Mine(From(s)) <=> q \in call[s].have)]_vars
=============================================================================
