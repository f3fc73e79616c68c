--------------------------- MODULE Friends3DSProofs ---------------------------
(***************************************************************************)
(* What is proved of Friends3DS, for any people, any number of calls at a  *)
(* time and any steps of other clients: its type, that two consoles which  *)
(* add each other end up as friends, that an answered sync leaves the      *)
(* core with the console's list, and that a list is right about everybody  *)
(* whom nothing happened to.                                               *)
(***************************************************************************)
EXTENDS Friends3DS, AccountGraphProofs

\* A console does not list itself, and removals are decided and done between the
\* questions and the first save.
CallOK(c) ==
    /\ c \in Call
    /\ c.from \notin c.list
    /\ c.todo \subseteq c.have \ c.list
    /\ c.at # "work" => c.todo = {}

CallsOK == call \in [Slots -> {c \in Call : CallOK(c)} \cup {Idle}]

\* What a console was told is added, is: its own request or a friendship.
AskedStand == asked \subseteq pending \cup friends

Inv == TypeOK /\ CallsOK /\ AskedStand

-----------------------------------------------------------------------------
LEMMA InitInv == Init => Inv
    BY GraphInitOK, BoundAssumption DEF Init, GraphInit, Inv, TypeOK, CallsOK, AskedStand

\* A call's own state is what changes when the graph does not.
LEMMA CallStep ==
    ASSUME Inv, UNCHANGED <<graph, events, elsewhere, asked>>, CallsOK',
           touched' \in [Slots -> SUBSET Pairs]
    PROVE  Inv'
<1>1. GraphOK'
    BY SameGraph DEF Inv, TypeOK
<1>2. \A s \in Slots : call'[s] # Idle => call'[s].todo \subseteq call'[s].have \ call'[s].list
    BY DEF CallsOK, CallOK
<1>3. call' \in [Slots -> Call \cup {Idle}]
    BY DEF CallsOK
<1> QED BY <1>1, <1>2, <1>3 DEF Inv, TypeOK, AskedStand, graph

LEMMA FollowOK ==
    ASSUME Inv, GraphOK', StaysOrEnds, NEW s, NEW told,
           told \in SUBSET Pairs, told \subseteq pending' \cup friends', Follow(s, told)
    PROVE  /\ touched' \in [Slots -> SUBSET Pairs]
           /\ asked' \in SUBSET Pairs
           /\ AskedStand'
<1>1. Moved \in SUBSET Pairs
    BY DEF Moved
<1>2. touched' \in [Slots -> SUBSET Pairs]
    BY <1>1 DEF Inv, TypeOK, Follow
<1>3. asked' \in SUBSET Pairs
    BY DEF Inv, TypeOK, Follow
<1>4. AskedStand'
    <2> SUFFICES ASSUME NEW p \in asked' PROVE p \in pending' \cup friends'
        BY DEF AskedStand
    <2>1. p \in Pairs /\ Both(p[1], p[2]) \cap (pending' \cup friends') # {}
        BY DEF Follow, Lasting
    <2>2. p \in asked \/ p \in told
        BY DEF Follow
    <2> QED BY <2>1, <2>2 DEF StaysOrEnds, Inv, AskedStand
<1> QED BY <1>2, <1>3, <1>4

\* A step that changes the graph, and the histories with it.
LEMMA GraphStep ==
    ASSUME Inv, GraphOK', StaysOrEnds, NEW s, NEW told,
           told \in SUBSET Pairs, told \subseteq pending' \cup friends', Follow(s, told),
           CallsOK', elsewhere' \in 0..MaxElsewhere
    PROVE  Inv'
<1>1. \A t \in Slots : call'[t] # Idle => call'[t].todo \subseteq call'[t].have \ call'[t].list
    BY DEF CallsOK, CallOK
<1>2. call' \in [Slots -> Call \cup {Idle}]
    BY DEF CallsOK
<1> QED BY <1>1, <1>2, FollowOK DEF Inv, TypeOK

-----------------------------------------------------------------------------
\* A call ends.
LEMMA ReturnOK ==
    ASSUME Inv, NEW s \in Slots, Return(s)
    PROVE  CallsOK' /\ touched' \in [Slots -> SUBSET Pairs]
    BY DEF Return, Inv, TypeOK, CallsOK

\* A call goes on with another state of its own.
LEMMA ProceedOK ==
    ASSUME Inv, NEW s \in Slots, NEW c, CallOK(c), call' = [call EXCEPT ![s] = c]
    PROVE  CallsOK'
    BY DEF Inv, CallsOK, CallOK

LEMMA CallAt ==
    ASSUME Inv, NEW s \in Slots, call[s] # Idle
    PROVE  CallOK(call[s]) /\ From(s) \in PIDs
    BY DEF Inv, CallsOK, CallOK, Call, From

LEMMA BeginOK ==
    ASSUME Inv, NEW s \in Slots, NEW op \in {"sync", "list", "add"}, NEW at \in {"friends", "work"},
           NEW p \in PIDs, NEW list \in SUBSET (PIDs \ {p}), Begin(s, op, at, p, list)
    PROVE  Inv'
<1> DEFINE c == [op |-> op, at |-> at, from |-> p, to |-> p, list |-> list, have |-> {}, todo |-> {}]
<1>1. CallOK(c)
    BY DEF CallOK, Call
<1>2. CallsOK'
    BY <1>1, ProceedOK DEF Begin
<1> QED BY <1>2, CallStep DEF Begin, Inv, TypeOK

\* Somebody is saved, and the call goes on.
LEMMA SavedOK ==
    ASSUME Inv, NEW s \in Slots, NEW q \in PIDs, call[s] # Idle, call[s].todo = {}, Saved(s, q)
    PROVE  CallsOK'
<1> DEFINE c == [call[s] EXCEPT !.have = @ \cup {q}, !.at = "work", !.to = From(s)]
<1>1. CallOK(c)
    BY CallAt DEF CallOK, Call
<1>2. call' = [call EXCEPT ![s] = c]
    BY DEF Saved
<1> QED BY <1>1, <1>2, ProceedOK

LEMMA ToSaveOK ==
    ASSUME Inv, NEW s \in Slots, NEW q \in ToSave(s)
    PROVE  /\ call[s] # Idle /\ call[s].at = "work" /\ call[s].todo = {}
           /\ q \in PIDs /\ From(s) \in PIDs /\ q # From(s)
<1>1. call[s] # Idle /\ call[s].at = "work" /\ call[s].todo = {} /\ q \in call[s].list
    BY DEF ToSave, At
<1> QED BY <1>1, CallAt DEF CallOK, Call, From

-----------------------------------------------------------------------------
LEMMA ConsoleInv ==
    ASSUME Inv, NEW s \in Slots, Console(s)
    PROVE  Inv'
<1>1. ASSUME NEW p \in PIDs, NEW list \in SUBSET (PIDs \ {p}), SyncFriend(s, p, list) PROVE Inv'
    BY <1>1, BeginOK DEF SyncFriend
<1>2. ASSUME NEW p \in PIDs, GetAllFriends(s, p) PROVE Inv'
    BY <1>2, BeginOK DEF GetAllFriends
<1>3. ASSUME NEW p \in Pairs, AddFriendByPrincipalID(s, p[1], p[2]) PROVE Inv'
    <2>1. p[1] \in PIDs /\ {p[2]} \in SUBSET (PIDs \ {p[1]})
        BY DEF Pairs
    <2> QED BY <1>3, <2>1, BeginOK DEF AddFriendByPrincipalID
<1> QED BY <1>1, <1>2, <1>3 DEF Console

\* The two questions of GetUserFriends.
LEMMA AskInv ==
    ASSUME Inv, NEW s \in Slots, AskFriends(s) \/ AskOutgoing(s)
    PROVE  Inv'
<1>1. call[s] # Idle /\ CallOK(call[s]) /\ call[s].at # "work"
    BY CallAt DEF AskFriends, AskOutgoing, At
<1>2. CASE AskFriends(s)
    <2> DEFINE c == [call[s] EXCEPT !.have = FriendPIDs(From(s)), !.at = "outgoing"]
    <2>1. CallOK(c)
        BY <1>1 DEF CallOK, Call, FriendPIDs
    <2>2. CallsOK'
        BY <1>2, <2>1, ProceedOK DEF AskFriends
    <2> QED BY <1>2, <2>2, CallStep DEF AskFriends, Inv, TypeOK
<1>3. CASE AskOutgoing(s)
    <2> DEFINE all == call[s].have \cup OutgoingAddresseePIDs(From(s))
               c == [call[s] EXCEPT !.have = all, !.at = "work",
                                    !.todo = IF call[s].op = "sync" THEN all \ call[s].list ELSE {}]
    <2>1. CallOK(c)
        BY <1>1 DEF CallOK, Call, OutgoingAddresseePIDs
    <2>2. CASE Return(s)
        BY <1>3, <2>2, ReturnOK, CallStep DEF AskOutgoing
    <2>3. CASE call' = [call EXCEPT ![s] = c] /\ UNCHANGED touched
        BY <1>3, <2>1, <2>3, ProceedOK, CallStep DEF AskOutgoing, Inv, TypeOK
    <2> QED BY <1>3, <2>2, <2>3 DEF AskOutgoing
<1> QED BY <1>2, <1>3

LEMMA RemovingInv ==
    ASSUME Inv, NEW s \in Slots, NEW q \in PIDs, Removing(s, q)
    PROVE  Inv'
<1> DEFINE c == [call[s] EXCEPT !.todo = @ \ {q}]
<1>1. CallOK(call[s]) /\ From(s) \in PIDs
    BY CallAt DEF Removing, At
<1>2. CallOK(c)
    BY <1>1 DEF CallOK, Call
<1>3. CallsOK'
    BY <1>2, ProceedOK DEF Removing
<1>4. GraphOK' /\ StaysOrEnds
    BY <1>1, RemoveOK DEF Removing, Inv, TypeOK
<1> QED BY <1>3, <1>4, GraphStep DEF Removing, Inv, TypeOK

\* SaveFriendship, up to the core's answer.
LEMMA SaveInv ==
    ASSUME Inv, NEW s \in Slots, NEW q \in PIDs, SaveUnknown(s, q) \/ SaveAsk(s, q) \/ SaveRefused(s, q)
    PROVE  Inv'
<1>1. /\ call[s] # Idle /\ call[s].at = "work" /\ call[s].todo = {}
      /\ From(s) \in PIDs /\ q # From(s)
    BY ToSaveOK DEF SaveUnknown, SaveAsk, SaveRefused
<1>2. CASE SaveUnknown(s, q)
    BY <1>1, <1>2, SavedOK, CallStep DEF SaveUnknown, Inv, TypeOK
<1>3. CASE SaveAsk(s, q)
    <2>1. GraphOK' /\ StaysOrEnds /\ <<From(s), q>> \in pending' \cup friends'
        BY <1>1, <1>3, RequestOK DEF SaveAsk, Inv, TypeOK
    <2>2. {<<From(s), q>>} \in SUBSET Pairs
        BY <1>1 DEF Pairs
    <2>3. CallsOK'
        BY <1>1, <1>3, SavedOK DEF SaveAsk
    <2>4. {<<From(s), q>>} \subseteq pending' \cup friends'
        BY <2>1
    <2> QED BY <1>3, <2>1, <2>2, <2>3, <2>4, GraphStep DEF SaveAsk, Inv, TypeOK
<1>4. CASE SaveRefused(s, q)
    <2> DEFINE c == [call[s] EXCEPT !.to = q, !.at = "complete"]
    <2>1. CallOK(c)
        BY <1>1, CallAt DEF CallOK, Call
    <2>2. CallsOK'
        BY <1>4, <2>1, ProceedOK DEF SaveRefused
    <2> QED BY <1>4, <2>2, CallStep DEF SaveRefused, Inv, TypeOK
<1> QED BY <1>2, <1>3, <1>4

\* ... and the mutual add.
LEMMA SaveCompleteInv ==
    ASSUME Inv, NEW s \in Slots, SaveComplete(s)
    PROVE  Inv'
<1> DEFINE p == From(s)
           q == call[s].to
<1>1. call[s] # Idle /\ call[s].at = "complete" /\ CallOK(call[s]) /\ p \in PIDs
    BY CallAt DEF SaveComplete, At
<1>2. q \in PIDs /\ call[s].todo = {}
    BY <1>1 DEF CallOK, Call
<1>3. CASE AcceptRequest(p, q) /\ Saved(s, q) /\ Follow(s, {<<p, q>>})
    <2>1. GraphOK' /\ StaysOrEnds /\ <<p, q>> \in friends'
        BY <1>1, <1>2, <1>3, AcceptOK DEF Inv, TypeOK
    <2>2. {<<p, q>>} \in SUBSET Pairs /\ {<<p, q>>} \subseteq pending' \cup friends'
        BY <2>1 DEF GraphOK
    <2>3. CallsOK'
        BY <1>1, <1>2, <1>3, SavedOK
    <2>4. elsewhere' \in 0..MaxElsewhere
        BY DEF SaveComplete, Inv, TypeOK
    <2> HIDE DEF p, q
    <2> QED BY <1>3, <2>1, <2>2, <2>3, <2>4, GraphStep
<1>4. CASE Return(s) /\ UNCHANGED <<graph, events, asked>>
    BY <1>4, ReturnOK, CallStep DEF SaveComplete
<1> QED BY <1>3, <1>4 DEF SaveComplete

LEMMA EndInv ==
    ASSUME Inv, NEW s \in Slots, Reply(s) \/ CallFails(s)
    PROVE  Inv'
    BY ReturnOK, CallStep DEF Reply, CallFails

\* A console removes somebody, or another client of the core does something.
LEMMA OthersInv ==
    ASSUME Inv, ElsewhereStep \/ \E p \in Pairs : RemoveFriendByPrincipalID(p[1], p[2])
    PROVE  Inv'
<1>1. CASE ElsewhereStep
    <2>1. GraphOK' /\ StaysOrEnds
        BY <1>1, ElsewhereOK DEF ElsewhereStep, Inv, TypeOK
    <2>2. elsewhere' \in 0..MaxElsewhere
        BY <1>1, BoundAssumption DEF ElsewhereStep, Inv, TypeOK
    <2>3. CallsOK'
        BY <1>1 DEF ElsewhereStep, Inv, CallsOK
    <2> QED BY <1>1, <2>1, <2>2, <2>3, GraphStep DEF ElsewhereStep
<1>2. ASSUME NEW p \in Pairs, RemoveFriendByPrincipalID(p[1], p[2]) PROVE Inv'
    <2>1. p[1] \in PIDs /\ p[2] \in PIDs
        BY DEF Pairs
    <2>2. GraphOK' /\ StaysOrEnds
        BY <1>2, <2>1, RemoveOK DEF RemoveFriendByPrincipalID, Inv, TypeOK
    <2>3. CallsOK' /\ elsewhere' \in 0..MaxElsewhere
        BY <1>2 DEF RemoveFriendByPrincipalID, Inv, CallsOK, TypeOK
    <2> QED BY <1>2, <2>2, <2>3, GraphStep DEF RemoveFriendByPrincipalID
<1> QED BY <1>1, <1>2

LEMMA NextInv == Inv /\ [Next]_vars => Inv'
<1> SUFFICES ASSUME Inv, [Next]_vars PROVE Inv'
    OBVIOUS
<1>1. CASE UNCHANGED vars
    <2>1. CallsOK'
        BY <1>1 DEF vars, Inv, CallsOK
    <2> QED BY <1>1, <2>1, CallStep DEF vars, graph, Inv, TypeOK
<1>2. ASSUME NEW s \in Slots, Go(s) PROVE Inv'
    BY <1>2, AskInv, RemovingInv, SaveInv, SaveCompleteInv, EndInv DEF Go
<1> QED BY <1>1, <1>2, ConsoleInv, EndInv, OthersInv DEF Next

\* For any people, calls and other clients, the graph stays one (GraphOK), and no
\* call is to remove anybody its console lists.
THEOREM TypeCorrect == Spec => []TypeOK
<1>1. Inv => TypeOK
    BY DEF Inv
<1> QED BY <1>1, InitInv, NextInv, PTL DEF Spec

\* Requests that meet complete: whatever the calls of two consoles interleave
\* with, when both were told the other is added, they are friends until one of
\* them or another client ends it.
THEOREM MutualAdds == Spec => []MutualAddCompletes
<1>1. Inv => MutualAddCompletes
    BY DEF Inv, TypeOK, GraphOK, AskedStand, MutualAddCompletes, Pairs
<1> QED BY <1>1, InitInv, NextInv, PTL DEF Spec

-----------------------------------------------------------------------------
\* What a call has found of q, as long as nobody else changed the relationship:
\* a friend, after the first question; whoever is listed, after the second; and in
\* a sync, found or made and to be kept.
Told(c, q, asking, friendly) ==
    LET mine == <<c.from, q>> \in asking \cup friendly IN
    /\ c.at = "outgoing" => (q \in c.have <=> <<c.from, q>> \in friendly)
    /\ c.at \in {"work", "complete"} /\ c.op = "list" => (mine <=> q \in c.have)
    /\ c.at \in {"work", "complete"} /\ c.op = "sync" => (mine <=> q \in c.have /\ (q \in c.list \/ q \in c.todo))

\* Of a person without an account nothing is found, and the call ends; a refused
\* request was for somebody listed; and only a sync has a list.
Known(c) ==
    /\ c.at = "outgoing" => c.op \in {"sync", "list"} /\ (c.from \in Unresolved => c.have = {})
    /\ c.at = "friends" => c.op \in {"sync", "list"}
    /\ c.at \in {"work", "complete"} /\ c.op \in {"sync", "list"} => c.from \notin Unresolved
    /\ c.at = "complete" => c.to \in c.list
    /\ c.op = "list" => c.list = {} /\ c.todo = {}

Settled(c, moved, asking, friendly) ==
    /\ Known(c)
    /\ \A q \in PIDs \ Unresolved :
        c.from \notin Unresolved /\ moved \cap Both(c.from, q) = {} => Told(c, q, asking, friendly)
Settling == \A s \in Slots : call[s] # Idle => Settled(call[s], touched[s], pending, friends)

\* A step of the call s, or of none, is seen by the other calls.
LEMMA OthersSettle ==
    ASSUME Inv, GraphOK', Settling, NEW s,
           \A t \in Slots \ {s} : call'[t] = call[t] /\ (call[t] # Idle => touched'[t] = touched[t] \cup Moved),
           s \in Slots /\ call'[s] # Idle => Settled(call'[s], touched'[s], pending', friends')
    PROVE  Settling'
<1> SUFFICES ASSUME NEW t \in Slots, call'[t] # Idle
             PROVE  Settled(call'[t], touched'[t], pending', friends')
    BY DEF Settling, Settled, Known, Told, Both
<1>1. CASE t = s
    BY <1>1
<1>2. CASE t # s
    <2>1. call'[t] = call[t] /\ call[t] # Idle /\ touched'[t] = touched[t] \cup Moved
        BY <1>2
    <2> DEFINE c == call[t]
    <2>2. c.from \in PIDs /\ Settled(c, touched[t], pending, friends)
        BY <2>1, CallAt DEF Settling, From
    <2>3. ASSUME NEW q \in PIDs, touched'[t] \cap Both(c.from, q) = {}
          PROVE  /\ <<c.from, q>> \in pending' <=> <<c.from, q>> \in pending
                 /\ <<c.from, q>> \in friends' <=> <<c.from, q>> \in friends
        <3>1. <<c.from, q>> \notin Moved
            BY <2>1, <2>3 DEF Both
        <3>2. CASE <<c.from, q>> \in Pairs
            BY <3>1, <3>2 DEF Moved
        <3>3. CASE <<c.from, q>> \notin Pairs
            BY <3>3 DEF Inv, TypeOK, GraphOK
        <3> QED BY <3>2, <3>3
    <2>4. \A q \in PIDs : touched'[t] \cap Both(c.from, q) = {} => touched[t] \cap Both(c.from, q) = {}
        BY <2>1
    <2> HIDE DEF c
    <2>5. Settled(c, touched'[t], pending', friends')
        BY <2>2, <2>3, <2>4 DEF Settled, Told
    <2> QED BY <2>1, <2>5 DEF c
<1> QED BY <1>1, <1>2

\* A step of a call that leaves the graph.
LEMMA OwnStepSettles ==
    ASSUME Inv, Settling, NEW s \in Slots, UNCHANGED <<graph, events, touched>>, NEW c,
           call' = [call EXCEPT ![s] = c],
           c # Idle => Settled(c, touched[s], pending, friends)
    PROVE  Settling'
<1>1. Moved = {} /\ GraphOK'
    BY SameGraph DEF Moved, graph, Inv, TypeOK
<1>2. \A t \in Slots \ {s} : call'[t] = call[t] /\ (call[t] # Idle => touched'[t] = touched[t] \cup Moved)
    BY <1>1
<1>3. call'[s] = c
    BY DEF Inv, TypeOK
<1> QED BY <1>1, <1>2, <1>3, OthersSettle DEF graph

LEMMA ReturnSettles ==
    ASSUME Inv, Settling, NEW s \in Slots, UNCHANGED <<graph, events>>, Return(s)
    PROVE  Settling'
<1>1. Moved = {} /\ GraphOK'
    BY SameGraph DEF Moved, graph, Inv, TypeOK
<1>2. \A t \in Slots \ {s} : call'[t] = call[t] /\ (call[t] # Idle => touched'[t] = touched[t] \cup Moved)
    BY <1>1 DEF Return, Inv, TypeOK
<1>3. call'[s] = Idle
    BY DEF Return, Inv, TypeOK
<1> QED BY <1>1, <1>2, <1>3, OthersSettle DEF graph

\* A step of a call that changes the graph.
LEMMA GraphStepSettles ==
    ASSUME Inv, GraphOK', Settling, NEW s \in Slots, NEW told, Follow(s, told), NEW c,
           call' = [call EXCEPT ![s] = c], c # Idle => Settled(c, touched[s], pending', friends')
    PROVE  Settling'
<1>1. \A t \in Slots \ {s} : call'[t] = call[t] /\ (call[t] # Idle => touched'[t] = touched[t] \cup Moved)
    BY DEF Follow
<1>2. call'[s] = c /\ touched'[s] = touched[s]
    BY DEF Follow, Inv, TypeOK
<1> QED BY <1>1, <1>2, OthersSettle

-----------------------------------------------------------------------------
LEMMA ConsoleSettles ==
    ASSUME Inv, Settling, NEW s \in Slots, Console(s)
    PROVE  Settling'
<1>1. ASSUME NEW op \in {"sync", "list", "add"}, NEW at \in {"friends", "work"}, NEW p \in PIDs,
             NEW list \in SUBSET (PIDs \ {p}), Begin(s, op, at, p, list),
             op = "list" => list = {}, at = "work" <=> op = "add"
      PROVE  Settling'
    <2> DEFINE c == [op |-> op, at |-> at, from |-> p, to |-> p, list |-> list, have |-> {}, todo |-> {}]
    <2>1. Settled(c, touched[s], pending, friends)
        BY <1>1 DEF Settled, Known, Told
    <2> QED BY <1>1, <2>1, OwnStepSettles DEF Begin
<1>2. ASSUME NEW p \in PIDs, NEW list \in SUBSET (PIDs \ {p}), SyncFriend(s, p, list) PROVE Settling'
    BY <1>1, <1>2 DEF SyncFriend
<1>3. ASSUME NEW p \in PIDs, GetAllFriends(s, p) PROVE Settling'
    BY <1>1, <1>3 DEF GetAllFriends
<1>4. ASSUME NEW p \in Pairs, AddFriendByPrincipalID(s, p[1], p[2]) PROVE Settling'
    <2>1. p[1] \in PIDs /\ {p[2]} \in SUBSET (PIDs \ {p[1]})
        BY DEF Pairs
    <2> QED BY <1>1, <1>4, <2>1 DEF AddFriendByPrincipalID
<1> QED BY <1>2, <1>3, <1>4 DEF Console

\* The questions of GetUserFriends.
LEMMA AskSettles ==
    ASSUME Inv, Settling, NEW s \in Slots, AskFriends(s) \/ AskOutgoing(s)
    PROVE  Settling'
<1> DEFINE c == call[s]
           p == From(s)
<1>1. c # Idle /\ CallOK(c) /\ p = c.from /\ Settled(c, touched[s], pending, friends)
    BY CallAt DEF AskFriends, AskOutgoing, At, Settling, From
<1>2. CASE AskFriends(s)
    <2> DEFINE d == [c EXCEPT !.have = FriendPIDs(p), !.at = "outgoing"]
    <2>1. /\ d.have = FriendPIDs(p) /\ d.at = "outgoing" /\ d.from = c.from /\ d.op = c.op /\ d.list = c.list
          /\ d.todo = c.todo
        BY <1>1 DEF CallOK, Call
    <2>2. Known(d)
        BY <1>1, <1>2, <2>1 DEF Settled, Known, AskFriends, At, FriendPIDs
    <2>3. \A q \in PIDs \ Unresolved : d.from \notin Unresolved => Told(d, q, pending, friends)
        BY <1>1, <2>1 DEF Told, FriendPIDs
    <2>4. call' = [call EXCEPT ![s] = d]
        BY <1>2 DEF AskFriends
    <2> HIDE DEF d
    <2>5. Settled(d, touched[s], pending, friends)
        BY <2>2, <2>3 DEF Settled
    <2> QED BY <1>2, <2>4, <2>5, OwnStepSettles DEF AskFriends
<1>3. CASE AskOutgoing(s)
    <2> DEFINE all == c.have \cup OutgoingAddresseePIDs(p)
               d == [c EXCEPT !.have = all, !.at = "work", !.todo = IF c.op = "sync" THEN all \ c.list ELSE {}]
    <2>1. CASE Return(s)
        BY <1>3, <2>1, ReturnSettles DEF AskOutgoing
    <2>2. CASE all # {} /\ call' = [call EXCEPT ![s] = d] /\ UNCHANGED touched
        <3>1. /\ d.have = all /\ d.at = "work" /\ d.from = c.from /\ d.op = c.op /\ d.list = c.list
              /\ d.todo = IF c.op = "sync" THEN all \ c.list ELSE {}
            BY <1>1 DEF CallOK, Call
        <3>2. c.at = "outgoing"
            BY <1>3 DEF AskOutgoing, At
        <3>3. c.from \notin Unresolved
            BY <1>1, <2>2, <3>2 DEF Settled, Known, OutgoingAddresseePIDs
        <3>4. Known(d)
            BY <1>1, <3>1, <3>2, <3>3 DEF Settled, Known
        <3>5. ASSUME NEW q \in PIDs \ Unresolved, touched[s] \cap Both(c.from, q) = {}
              PROVE  Told(d, q, pending, friends)
            <4>1. q \in c.have <=> <<c.from, q>> \in friends
                BY <1>1, <3>2, <3>3, <3>5 DEF Settled, Told
            <4>2. q \in all <=> <<c.from, q>> \in pending \cup friends
                BY <1>1, <3>3, <4>1 DEF OutgoingAddresseePIDs
            <4> QED BY <3>1, <4>2 DEF Told
        <3> HIDE DEF d
        <3>6. Settled(d, touched[s], pending, friends)
            BY <3>1, <3>4, <3>5 DEF Settled
        <3> QED BY <1>3, <2>2, <3>6, OwnStepSettles DEF AskOutgoing
    <2> QED BY <1>3, <2>1, <2>2 DEF AskOutgoing
<1> QED BY <1>2, <1>3

\* Who is removed is neither asked nor a friend, and everybody else is what they
\* were.
LEMMA RemovingSettles ==
    ASSUME Inv, Settling, NEW s \in Slots, NEW q \in PIDs, Removing(s, q)
    PROVE  Settling'
<1> DEFINE c == call[s]
           d == [c EXCEPT !.todo = @ \ {q}]
<1>1. c # Idle /\ CallOK(c) /\ c.at = "work" /\ q \in c.todo /\ Settled(c, touched[s], pending, friends)
      /\ c.from \in PIDs /\ From(s) = c.from
    BY CallAt DEF Removing, At, Settling, From
<1>2. d.have = c.have /\ d.at = c.at /\ d.from = c.from /\ d.op = c.op /\ d.list = c.list /\ d.todo = c.todo \ {q}
    BY <1>1 DEF CallOK, Call
<1>3. pending' = pending \ Both(c.from, q) /\ friends' = friends \ Both(c.from, q)
    BY <1>1 DEF Removing, Remove, Part
<1>4. Known(d)
    BY <1>1, <1>2 DEF Settled, Known
<1>5. ASSUME NEW r \in PIDs \ Unresolved, c.from \notin Unresolved, touched[s] \cap Both(c.from, r) = {}
      PROVE  Told(d, r, pending', friends')
    <2>1. Told(c, r, pending, friends)
        BY <1>1, <1>5 DEF Settled
    <2>2. c.op # "list" /\ q \notin c.list
        BY <1>1 DEF Settled, Known, CallOK
    <2>3. CASE r = q
        BY <1>1, <1>2, <1>3, <2>2, <2>3 DEF Told, Both
    <2>4. CASE r # q
        <3>1. <<c.from, r>> \notin Both(c.from, q)
            BY <2>4 DEF Both
        <3> QED BY <1>1, <1>2, <1>3, <2>1, <2>2, <2>4, <3>1 DEF Told
    <2> QED BY <2>3, <2>4
<1>6. call' = [call EXCEPT ![s] = d] /\ Follow(s, {})
    BY DEF Removing
<1>7. GraphOK'
    BY <1>1, RemoveOK DEF Removing, Inv, TypeOK
<1> HIDE DEF d
<1>8. Settled(d, touched[s], pending', friends')
    BY <1>2, <1>4, <1>5 DEF Settled
<1> QED BY <1>6, <1>7, <1>8, GraphStepSettles

\* Who is saved is asked or a friend, unless unknown.
LEMMA SavedSettles ==
    ASSUME Inv, NEW s \in Slots, NEW q \in PIDs, call[s] # Idle, Settled(call[s], touched[s], pending, friends),
           call[s].at \in {"work", "complete"}, q \in call[s].list,
           q \in Unresolved \/ <<From(s), q>> \in pending' \cup friends',
           \A r \in PIDs \ {q} : /\ <<From(s), r>> \in pending' <=> <<From(s), r>> \in pending
                                 /\ <<From(s), r>> \in friends' <=> <<From(s), r>> \in friends
    PROVE  Settled([call[s] EXCEPT !.have = @ \cup {q}, !.at = "work", !.to = From(s)],
                   touched[s], pending', friends')
<1> DEFINE c == call[s]
           d == [c EXCEPT !.have = @ \cup {q}, !.at = "work", !.to = From(s)]
<1>1. CallOK(c) /\ From(s) = c.from
    BY CallAt DEF From
<1>2. /\ d.have = c.have \cup {q} /\ d.at = "work" /\ d.from = c.from /\ d.op = c.op /\ d.list = c.list
      /\ d.todo = c.todo
    BY <1>1 DEF CallOK, Call
<1>3. Known(d)
    BY <1>2 DEF Settled, Known
<1>4. ASSUME NEW r \in PIDs \ Unresolved, c.from \notin Unresolved, touched[s] \cap Both(c.from, r) = {}
      PROVE  Told(d, r, pending', friends')
    <2>1. Told(c, r, pending, friends)
        BY <1>4 DEF Settled
    <2>2. c.op # "list"
        BY DEF Settled, Known
    <2>3. CASE r = q
        BY <1>1, <1>2, <2>2, <2>3 DEF Told
    <2>4. CASE r # q
        BY <1>1, <1>2, <2>1, <2>2, <2>4 DEF Told
    <2> QED BY <2>3, <2>4
<1> HIDE DEF d
<1>5. Settled(d, touched[s], pending', friends')
    BY <1>2, <1>3, <1>4 DEF Settled
<1> QED BY <1>5 DEF d

LEMMA SaveSettles ==
    ASSUME Inv, Settling, NEW s \in Slots, NEW q \in PIDs, SaveUnknown(s, q) \/ SaveAsk(s, q) \/ SaveRefused(s, q)
    PROVE  Settling'
<1> DEFINE c == call[s]
           d == [c EXCEPT !.have = @ \cup {q}, !.at = "work", !.to = From(s)]
<1>1. /\ c # Idle /\ c.at = "work" /\ q \in c.list /\ CallOK(c) /\ From(s) = c.from /\ From(s) \in PIDs /\ q # From(s)
      /\ Settled(c, touched[s], pending, friends)
    BY ToSaveOK, CallAt DEF SaveUnknown, SaveAsk, SaveRefused, ToSave, Settling, From
<1>2. CASE SaveUnknown(s, q)
    <2>1. UNCHANGED <<graph, events, touched>> /\ call' = [call EXCEPT ![s] = d] /\ ~Resolved(From(s), q)
        BY <1>2 DEF SaveUnknown, Saved
    <2>2. q \in Unresolved \/ c.from \in Unresolved
        BY <1>1, <2>1 DEF Resolved
    <2>3. CASE q \in Unresolved
        <3>1. Settled(d, touched[s], pending', friends')
            BY <1>1, <2>1, <2>3, SavedSettles DEF graph
        <3> HIDE DEF d
        <3> QED BY <2>1, <3>1, OwnStepSettles DEF graph
    <2>4. CASE c.from \in Unresolved
        <3>1. /\ d.at = "work" /\ d.from = c.from /\ d.op = c.op /\ d.list = c.list /\ d.todo = c.todo
            BY <1>1 DEF CallOK, Call
        <3>2. Settled(d, touched[s], pending, friends)
            BY <1>1, <2>4, <3>1 DEF Settled, Known
        <3> HIDE DEF d
        <3> QED BY <2>1, <3>2, OwnStepSettles
    <2> QED BY <2>2, <2>3, <2>4
<1>3. CASE SaveAsk(s, q)
    <2>1. Request(From(s), q) /\ Follow(s, {<<From(s), q>>}) /\ call' = [call EXCEPT ![s] = d]
          /\ ~AskedBack(From(s), q)
        BY <1>3 DEF SaveAsk, Saved
    <2>2. GraphOK' /\ <<From(s), q>> \in pending' \cup friends'
        BY <1>1, <2>1, RequestOK DEF Inv, TypeOK
    <2>3. \A r \in PIDs \ {q} : /\ <<From(s), r>> \in pending' <=> <<From(s), r>> \in pending
                                /\ <<From(s), r>> \in friends' <=> <<From(s), r>> \in friends
        BY <2>1 DEF Request
    <2>4. Settled(d, touched[s], pending', friends')
        BY <1>1, <2>2, <2>3, SavedSettles
    <2> HIDE DEF d
    <2> QED BY <2>1, <2>2, <2>4, GraphStepSettles
<1>4. CASE SaveRefused(s, q)
    <2> DEFINE e == [c EXCEPT !.to = q, !.at = "complete"]
    <2>1. /\ e.have = c.have /\ e.at = "complete" /\ e.from = c.from /\ e.op = c.op /\ e.list = c.list
          /\ e.todo = c.todo /\ e.to = q
        BY <1>1 DEF CallOK, Call
    <2>2. Known(e)
        BY <1>1, <2>1 DEF Settled, Known
    <2>3. \A r : Told(c, r, pending, friends) => Told(e, r, pending, friends)
        BY <1>1, <2>1 DEF Told
    <2>4. call' = [call EXCEPT ![s] = e]
        BY <1>4 DEF SaveRefused
    <2> HIDE DEF e
    <2>5. Settled(e, touched[s], pending, friends)
        BY <1>1, <2>1, <2>2, <2>3 DEF Settled
    <2> QED BY <1>4, <2>4, <2>5, OwnStepSettles DEF SaveRefused
<1> QED BY <1>2, <1>3, <1>4

LEMMA SaveCompleteSettles ==
    ASSUME Inv, Settling, NEW s \in Slots, SaveComplete(s)
    PROVE  Settling'
<1> DEFINE c == call[s]
           p == From(s)
           q == call[s].to
           d == [c EXCEPT !.have = @ \cup {q}, !.at = "work", !.to = p]
<1>1. /\ c # Idle /\ c.at = "complete" /\ CallOK(c) /\ p = c.from /\ p \in PIDs
      /\ Settled(c, touched[s], pending, friends)
    BY CallAt DEF SaveComplete, At, Settling, From
<1>2. q \in PIDs /\ q \in c.list /\ q # p
    BY <1>1 DEF CallOK, Call, Settled, Known
<1>3. CASE AcceptRequest(p, q) /\ Saved(s, q) /\ Follow(s, {<<p, q>>})
    <2>1. GraphOK' /\ <<p, q>> \in pending' \cup friends'
        BY <1>1, <1>2, <1>3, AcceptOK DEF Inv, TypeOK
    <2>2. \A r \in PIDs \ {q} : /\ <<p, r>> \in pending' <=> <<p, r>> \in pending
                                /\ <<p, r>> \in friends' <=> <<p, r>> \in friends
        BY <1>2, <1>3 DEF AcceptRequest, Both
    <2>3. Settled(d, touched[s], pending', friends')
        BY <1>1, <1>2, <2>1, <2>2, SavedSettles
    <2>4. call' = [call EXCEPT ![s] = d]
        BY <1>3 DEF Saved
    <2> HIDE DEF d, p, q
    <2> QED BY <1>3, <2>1, <2>3, <2>4, GraphStepSettles
<1>4. CASE Return(s) /\ UNCHANGED <<graph, events, asked>>
    BY <1>4, ReturnSettles
<1> QED BY <1>3, <1>4 DEF SaveComplete

LEMMA RestSettles ==
    ASSUME Inv, Settling, Inv',
           \/ \E s \in Slots : Reply(s) \/ CallFails(s)
           \/ ElsewhereStep \/ \E p \in Pairs : RemoveFriendByPrincipalID(p[1], p[2])
    PROVE  Settling'
<1>1. ASSUME NEW s \in Slots, Reply(s) \/ CallFails(s) PROVE Settling'
    BY <1>1, ReturnSettles DEF Reply, CallFails
<1>2. ASSUME UNCHANGED call, Follow(Idle, {}) PROVE Settling'
    <2>1. \A t \in Slots \ {Idle} : call'[t] = call[t] /\ (call[t] # Idle => touched'[t] = touched[t] \cup Moved)
        BY <1>2 DEF Follow
    <2> QED BY <2>1, IdleAssumption, OthersSettle DEF Inv, TypeOK
<1> QED BY <1>1, <1>2 DEF ElsewhereStep, RemoveFriendByPrincipalID

LEMMA NextSettles == Inv /\ Settling /\ [Next]_vars => Settling'
<1> SUFFICES ASSUME Inv, Settling, [Next]_vars PROVE Settling'
    OBVIOUS
<1>1. Inv'
    BY NextInv
<1>2. CASE UNCHANGED vars
    BY <1>2 DEF vars, graph, Settling, Settled, Known, Told, Both
<1>3. ASSUME NEW s \in Slots, Go(s) PROVE Settling'
    BY <1>1, <1>3, AskSettles, RemovingSettles, SaveSettles, SaveCompleteSettles, RestSettles DEF Go
<1> QED BY <1>1, <1>2, <1>3, ConsoleSettles, RestSettles DEF Next

LEMMA InitSettling == Init => Settling
    BY DEF Init, Settling

\* friends-3ds SyncFriend: for any people, calls at a time and other clients, an
\* answered sync leaves the core with the console's list, but for relationships
\* that somebody else changed meanwhile.
THEOREM SyncsSettle == Spec => SyncSettles
<1>1. Inv /\ Settling =>
        [\A s \in Slots : (Reply(s) /\ call[s].op = "sync") =>
            \A q \in PIDs \ (Unresolved \cup {From(s)}) :
                (Untouched(s, q) /\ From(s) \notin Unresolved) =>
                    (q \in Mine(From(s)) <=> q \in call[s].list)]_vars
    <2> SUFFICES ASSUME Inv, Settling, NEW s \in Slots, Reply(s), call[s].op = "sync",
                        NEW q \in PIDs \ (Unresolved \cup {From(s)}), Untouched(s, q), From(s) \notin Unresolved
                 PROVE  q \in Mine(From(s)) <=> q \in call[s].list
        OBVIOUS
    <2>1. call[s] # Idle /\ call[s].at = "work" /\ call[s].todo = {} /\ call[s].list \ call[s].have = {}
        BY DEF Reply, At, ToSave
    <2>2. Told(call[s], q, pending, friends)
        BY <2>1 DEF Settling, Settled, Untouched, From
    <2> QED BY <2>1, <2>2 DEF Told, Mine, From
<1> QED BY <1>1, InitInv, NextInv, InitSettling, NextSettles, PTL DEF Spec, SyncSettles

\* database/3ds/get_user_friends.go: the list a console gets is right about
\* everybody whose relationship nobody changed between the two questions.
THEOREM ListsAreRight == Spec => ListedAsTheyAre
<1>1. Inv /\ Settling =>
        [\A s \in Slots : (Reply(s) /\ call[s].op = "list") =>
            \A q \in PIDs \ Unresolved :
                Untouched(s, q) => (q \in Mine(From(s)) <=> q \in call[s].have)]_vars
    <2> SUFFICES ASSUME Inv, Settling, NEW s \in Slots, Reply(s), call[s].op = "list",
                        NEW q \in PIDs \ Unresolved, Untouched(s, q)
                 PROVE  q \in Mine(From(s)) <=> q \in call[s].have
        OBVIOUS
    <2>1. call[s] # Idle /\ call[s].at = "work"
        BY DEF Reply, At
    <2>2. call[s].from \notin Unresolved
        BY <2>1 DEF Settling, Settled, Known
    <2>3. Told(call[s], q, pending, friends)
        BY <2>1, <2>2 DEF Settling, Settled, Untouched, From
    <2> QED BY <2>1, <2>3 DEF Told, Mine, From
<1> QED BY <1>1, InitInv, NextInv, InitSettling, NextSettles, PTL DEF Spec, ListedAsTheyAre
=============================================================================
