-------------------------- MODULE AccountGraphProofs --------------------------
(***************************************************************************)
(* What each call on the core's graph keeps, for the proofs about the      *)
(* modules that make the calls.                                            *)
(***************************************************************************)
EXTENDS AccountGraph, TLAPS

\* A relationship stays (a request perhaps as a friendship) or ends both ways; it
\* never turns round.
StaysOrEnds ==
    \A p \in Pairs : p \in pending \cup friends =>
        \/ p \in pending' \cup friends'
        \/ Both(p[1], p[2]) \cap (pending' \cup friends') = {}

LEMMA GraphInitOK == GraphInit => GraphOK
    BY DEF GraphInit, GraphOK

LEMMA SameGraph ==
    ASSUME GraphOK, UNCHANGED <<graph, events>>
    PROVE  GraphOK' /\ StaysOrEnds
    BY DEF GraphOK, StaysOrEnds, graph

\* An event more is still a list of events.
LEMMA PublishOK ==
    ASSUME GraphOK, NEW type \in {"friend_requested", "friend_accepted", "friend_removed"},
           NEW to \in PIDs, NEW about \in PIDs, Publish(type, to, about)
    PROVE  events' \in Seq(Event)
<1>1. [type |-> type, to |-> to, about |-> about] \in Event
    BY DEF Event
<1> QED BY <1>1 DEF Publish, GraphOK

\* coregraph.Request.
LEMMA RequestOK ==
    ASSUME GraphOK, NEW a \in PIDs, NEW b \in PIDs, a # b, Request(a, b)
    PROVE  GraphOK' /\ StaysOrEnds /\ (~AskedBack(a, b) => <<a, b>> \in pending' \cup friends')
<1>1. events' \in Seq(Event)
    BY PublishOK DEF Request, GraphOK
<1>2. CASE Related(a, b)
    BY <1>1, <1>2 DEF Request, GraphOK, StaysOrEnds, Related, Both, AskedBack, Pairs
<1>3. CASE ~Related(a, b)
    BY <1>1, <1>3 DEF Request, GraphOK, StaysOrEnds, Related, Both, Pairs
<1> QED BY <1>2, <1>3

\* coregraph.AcceptRequest.
LEMMA AcceptOK ==
    ASSUME GraphOK, NEW a \in PIDs, NEW b \in PIDs, AcceptRequest(b, a)
    PROVE  GraphOK' /\ StaysOrEnds /\ <<b, a>> \in friends'
<1>1. events' \in Seq(Event)
    BY PublishOK DEF AcceptRequest
<1> QED BY <1>1 DEF AcceptRequest, GraphOK, StaysOrEnds, Both, Pairs

LEMMA PartOK ==
    ASSUME GraphOK, NEW a \in PIDs, NEW b \in PIDs, Part(a, b), blocks' \in SUBSET Pairs
    PROVE  GraphOK' /\ StaysOrEnds
<1>1. events' \in Seq(Event)
    BY PublishOK DEF Part, GraphOK
<1> QED BY <1>1 DEF Part, GraphOK, StaysOrEnds, Both, Pairs

\* coregraph.Remove.
LEMMA RemoveOK ==
    ASSUME GraphOK, NEW a \in PIDs, NEW b \in PIDs, Remove(a, b)
    PROVE  GraphOK' /\ StaysOrEnds
    BY PartOK DEF Remove, GraphOK

\* coregraph.Block and Unblock.
LEMMA BlockOK ==
    ASSUME GraphOK, NEW a \in PIDs, NEW b \in PIDs, a # b, Block(a, b) \/ Unblock(a, b)
    PROVE  GraphOK' /\ StaysOrEnds
<1>1. blocks' \in SUBSET Pairs
    BY DEF Block, Unblock, GraphOK, Pairs
<1>2. CASE UNCHANGED <<pending, friends, events>>
    BY <1>1, <1>2 DEF GraphOK, StaysOrEnds
<1> QED BY <1>1, <1>2, PartOK DEF Block, Unblock

LEMMA ElsewhereOK ==
    ASSUME GraphOK, Elsewhere
    PROVE  GraphOK' /\ StaysOrEnds
<1>1. PICK p \in Pairs :
        \/ ~Refuses(p[1], p[2]) /\ ~AskedBack(p[1], p[2]) /\ Request(p[1], p[2])
        \/ AcceptRequest(p[1], p[2])
        \/ Related(p[1], p[2]) /\ Remove(p[1], p[2])
        \/ Block(p[1], p[2])
        \/ Unblock(p[1], p[2])
    BY DEF Elsewhere
<1>2. p[1] \in PIDs /\ p[2] \in PIDs /\ p[1] # p[2]
    BY DEF Pairs
<1> QED BY <1>1, <1>2, RequestOK, AcceptOK, RemoveOK, BlockOK

-----------------------------------------------------------------------------
\* A call on the graph, of whomever, and what it publishes: at most one event,
\* about two people.
GraphCall ==
    \E p \in Pairs :
        \/ Request(p[1], p[2])
        \/ AcceptRequest(p[1], p[2])
        \/ Remove(p[1], p[2])
        \/ Block(p[1], p[2])
        \/ Unblock(p[1], p[2])

Notice == {e \in Event : e.to # e.about}
Publishes == events' = events \/ \E e \in Notice : events' = Append(events, e)

LEMMA PublishNotice ==
    ASSUME NEW type \in {"friend_requested", "friend_accepted", "friend_removed"},
           NEW to \in PIDs, NEW about \in PIDs, to # about, Publish(type, to, about)
    PROVE  Publishes
<1>1. [type |-> type, to |-> to, about |-> about] \in Notice
    BY DEF Event, Notice
<1> QED BY <1>1 DEF Publish, Publishes

LEMMA CallPublishes == GraphCall => Publishes
<1> SUFFICES ASSUME NEW p \in Pairs,
                    \/ Request(p[1], p[2]) \/ AcceptRequest(p[1], p[2]) \/ Remove(p[1], p[2])
                    \/ Block(p[1], p[2]) \/ Unblock(p[1], p[2])
             PROVE  Publishes
    BY DEF GraphCall
<1>1. p[1] \in PIDs /\ p[2] \in PIDs /\ p[1] # p[2]
    BY DEF Pairs
<1> QED BY <1>1, PublishNotice DEF Request, AcceptRequest, Remove, Block, Part, Unblock, Publishes

LEMMA ElsewhereIsCall == Elsewhere => GraphCall
    BY DEF Elsewhere, GraphCall

\* Whoever is related stays so, or both are told that it is over.
Removal(e, a, b) == e.type = "friend_removed" /\ <<e.to, e.about>> \in Both(a, b)

LEMMA PartedAreTold ==
    ASSUME GraphOK, GraphCall, MaxQueue > 0, NEW a \in PIDs, NEW b \in PIDs, Related(a, b)
    PROVE  Related(a, b)' \/ \E e \in Notice : Removal(e, a, b) /\ events' = Append(events, e)
<1> SUFFICES ASSUME NEW p \in Pairs,
                    \/ Request(p[1], p[2]) \/ AcceptRequest(p[1], p[2]) \/ Remove(p[1], p[2])
                    \/ Block(p[1], p[2]) \/ Unblock(p[1], p[2])
             PROVE  Related(a, b)' \/ \E e \in Notice : Removal(e, a, b) /\ events' = Append(events, e)
    BY DEF GraphCall
<1>1. p[1] \in PIDs /\ p[2] \in PIDs /\ p[1] # p[2]
    BY DEF Pairs
<1>2. CASE Request(p[1], p[2])
    BY <1>2 DEF Request, Related
<1>3. CASE AcceptRequest(p[1], p[2])
    BY <1>3 DEF AcceptRequest, Related, Both
<1>4. CASE Unblock(p[1], p[2])
    BY <1>4 DEF Unblock, Related
<1>5. CASE UNCHANGED <<pending, friends, events>>
    BY <1>5 DEF Related
<1>6. CASE Part(p[1], p[2])
    <2>1. CASE Both(a, b) # Both(p[1], p[2])
        BY <1>6, <2>1 DEF Part, Related, Both
    <2>2. CASE Both(a, b) = Both(p[1], p[2])
        <3> DEFINE e == [type |-> "friend_removed", to |-> p[2], about |-> p[1]]
        <3>1. e \in Notice /\ Removal(e, a, b)
            BY <1>1, <2>2 DEF Notice, Event, Removal, Both
        <3>2. Related(p[1], p[2])
            BY <2>2 DEF Related
        <3>3. events' = Append(events, e)
            BY <1>6, <3>2, QueueAssumption DEF Part, Publish
        <3> QED BY <3>1, <3>3
    <2> QED BY <2>1, <2>2
<1> QED BY <1>2, <1>3, <1>4, <1>5, <1>6 DEF Remove, Block
=============================================================================
