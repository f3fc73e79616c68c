--------------------------- MODULE PublisherProofs ---------------------------
(***************************************************************************)
(* What is proved of Publisher, for any people, session ids, lease and     *)
(* number of failing calls: its type, that sessions are not mixed up, that *)
(* nobody is shown for long after leaving, and that one pass that fails or *)
(* is not made takes nobody offline; and of CrossNotify, whose Tick runs   *)
(* in the publisher's loop, for any viewers, friends, lines, lost lookups  *)
(* and reconnects: its type, and that what it remembers is what is shown.  *)
(***************************************************************************)
EXTENDS Publisher, CrossNotify, TLAPS

Core == [Sids -> Sessions \cup {Free}]

\* What a call to the core makes of its sessions c: some end, some live longer,
\* none becomes another's.
Narrows(c) ==
    /\ c \in Core
    /\ \A sid \in Sids : c[sid] # Free =>
        core[sid] # Free /\ c[sid].pid = core[sid].pid /\ c[sid].show = core[sid].show

-----------------------------------------------------------------------------
\* Both of registerLocked's outcomes keep the types.
LEMMA RegisterTypes ==
    ASSUME TypeOK, NEW p \in PIDs, snap[p] \in Shows,
           NEW c \in Core, NEW n \in Nat, RegisterLocked(p, c, n)
    PROVE  /\ live' \in [PIDs -> [sid : Sids, show : Shows] \cup {Nothing}]
           /\ core' \in Core
           /\ fails' \in 0..MaxFails
           /\ steady' \in SUBSET PIDs
           /\ lost' \in [PIDs -> 0..Patience]
<1>1. \A sid \in Sids : [c EXCEPT ![sid] = SessionOf(p, snap[p], Lease)] \in Core
    BY LeaseAssumption DEF Core, SessionOf, Sessions
<1>2. CASE /\ Fail(n)
           /\ \E sid \in NewSids(c) :
                /\ core' = [c EXCEPT ![sid] = SessionOf(p, snap[p], Lease)]
                /\ Publish(p, sid)
           /\ Succeeds(p)
    <2>1. /\ core' \in Core
          /\ live' \in [PIDs -> [sid : Sids, show : Shows] \cup {Nothing}]
        <3>1. PICK sid \in NewSids(c) : /\ core' = [c EXCEPT ![sid] = SessionOf(p, snap[p], Lease)]
                                        /\ Publish(p, sid)
            BY <1>2
        <3>2. sid \in Sids
            BY DEF NewSids
        <3>3. [sid |-> sid, show |-> snap[p]] \in [sid : Sids, show : Shows]
            BY <3>2
        <3> QED BY <1>1, <3>1, <3>2, <3>3 DEF TypeOK, Publish
    <2>2. lost' \in [PIDs -> 0..Patience]
        BY <1>2, BoundAssumption DEF TypeOK, Succeeds
    <2> QED BY <1>2, <2>1, <2>2, BoundAssumption DEF TypeOK, Fail, Succeeds
<1>3. CASE /\ Fail(n + 1)
           /\ core' = c \/ \E sid \in NewSids(c) : core' = [c EXCEPT ![sid] = SessionOf(p, snap[p], Lease)]
           /\ Unpublish(p)
           /\ Loses(p)
    <2>1. core' \in Core
        BY <1>1, <1>3 DEF NewSids
    <2>2. lost' \in [PIDs -> 0..Patience]
        BY <1>3, BoundAssumption DEF TypeOK, Loses
    <2> QED BY <1>3, <2>1, <2>2, BoundAssumption DEF TypeOK, Fail, Loses, Unpublish
<1> QED BY <1>2, <1>3 DEF RegisterLocked

\* expireLocked keeps them too.
LEMMA ExpireTypes ==
    ASSUME TypeOK, NEW p \in PIDs, ExpireLocked(p)
    PROVE  /\ live' \in [PIDs -> [sid : Sids, show : Shows] \cup {Nothing}]
           /\ core' \in Core
           /\ fails' \in 0..MaxFails
    BY BoundAssumption DEF TypeOK, ExpireLocked, Unpublish, WithoutSession, Core, Fail

\* The calls made before a registration only narrow the core's sessions.
LEMMA CallsNarrow ==
    ASSUME TypeOK, NEW p \in PIDs
    PROVE  /\ Narrows(core)
           /\ live[p] # Nothing => Narrows(WithoutSession(p, core))
           /\ live[p] # Nothing /\ core[live[p].sid] # Free => Narrows(Renewed(p))
<1>1. Narrows(core)
    BY DEF TypeOK, Narrows, Core
<1>2. ASSUME live[p] # Nothing PROVE Narrows(WithoutSession(p, core))
    BY <1>2 DEF TypeOK, Narrows, Core, WithoutSession
<1>3. ASSUME live[p] # Nothing, core[live[p].sid] # Free PROVE Narrows(Renewed(p))
    <2>1. live[p].sid \in Sids
        BY <1>3 DEF TypeOK
    <2>2. [core[live[p].sid] EXCEPT !.left = Lease] \in Sessions
        BY <1>3, <2>1, LeaseAssumption DEF TypeOK, Sessions
    <2> QED BY <1>3, <2>1, <2>2 DEF TypeOK, Narrows, Core, Renewed, Sessions
<1> QED BY <1>1, <1>2, <1>3

-----------------------------------------------------------------------------
\* Publisher keeps its types: what it holds for a person, the core's sessions
\* within their lease, the pass under way.
LEMMA InitType == Init => TypeOK
<1> SUFFICES ASSUME Init PROVE TypeOK
    OBVIOUS
<1>1. due \in BOOLEAN
    BY Zenon DEF Init
<1> QED BY <1>1, BoundAssumption DEF Init, TypeOK, NobodyShows

LEMMA VisitType ==
    ASSUME TypeOK, NEW p \in PIDs, Visit(p)
    PROVE  TypeOK'
<1>1. Visited(p)
    BY DEF Visit, VisitNobody, VisitGone, Heartbeat, HeartbeatLost, VisitNew, VisitChanged
<1>2. /\ online' = online /\ expiring' = expiring /\ pc' = pc /\ due' = due /\ snap' = snap /\ away' = away
      /\ todo' \in SUBSET PIDs
    BY <1>1 DEF Visited, people, TypeOK
<1>3. due' \in BOOLEAN
    <2>1. due \in BOOLEAN BY DEF TypeOK
    <2> QED BY <1>2, <2>1, Zenon
<1>4. snap[p] # Off => snap[p] \in Shows
    BY DEF TypeOK
<1>5. SUFFICES /\ live' \in [PIDs -> [sid : Sids, show : Shows] \cup {Nothing}]
               /\ core' \in Core
               /\ fails' \in 0..MaxFails
               /\ steady' \in SUBSET PIDs
               /\ lost' \in [PIDs -> 0..Patience]
    BY <1>2, <1>3 DEF TypeOK, Core
<1>6. CASE VisitNobody(p)
    BY <1>6 DEF VisitNobody, TypeOK, published, Core
<1>7. CASE VisitGone(p)
    BY <1>7, ExpireTypes DEF VisitGone, TypeOK
<1>8. CASE Heartbeat(p)
    <2>1. core' \in Core
        BY <1>8, CallsNarrow DEF Heartbeat, Narrows
    <2> QED BY <1>8, <2>1, BoundAssumption DEF Heartbeat, Succeeds, TypeOK
<1>9. CASE HeartbeatLost(p)
    <2>1. Narrows(core) /\ (core[live[p].sid] # Free => Narrows(Renewed(p)))
        BY <1>9, CallsNarrow DEF HeartbeatLost
    <2>2. PICK c \in Core, n \in Nat : RegisterLocked(p, c, n)
        BY <1>9, <2>1 DEF HeartbeatLost, Narrows
    <2> QED BY <1>4, <1>9, <2>2, RegisterTypes DEF HeartbeatLost
<1>10. CASE VisitNew(p)
    BY <1>4, <1>10, CallsNarrow, RegisterTypes DEF VisitNew, Narrows
<1>11. CASE VisitChanged(p)
    <2>1. PICK c \in Core, n \in Nat : RegisterLocked(p, c, n)
        BY <1>11, CallsNarrow DEF VisitChanged, Narrows
    <2> QED BY <1>4, <1>11, <2>1, RegisterTypes DEF VisitChanged
<1> QED BY <1>6, <1>7, <1>8, <1>9, <1>10, <1>11 DEF Visit

LEMMA NextType == TypeOK /\ [Next]_vars => TypeOK'
<1> SUFFICES ASSUME TypeOK, [Next]_vars PROVE TypeOK'
    OBVIOUS
<1>1. CASE UNCHANGED vars
    <2>1. due' \in BOOLEAN
        <3>1. due \in BOOLEAN BY DEF TypeOK
        <3> QED BY <1>1, <3>1, Zenon DEF vars, pass
    <2> QED BY <1>1, <2>1 DEF vars, people, published, pass, TypeOK
<1>2. ASSUME NEW p \in PIDs, Visit(p) PROVE TypeOK'
    BY <1>2, VisitType
<1>3. CASE TakeSnapshot
    BY <1>3 DEF TakeSnapshot, people, published, TypeOK
<1>4. CASE Lock
    BY <1>4 DEF Lock, people, published, TypeOK
<1>5. CASE Unlock \/ TickReturns
    BY <1>5 DEF Unlock, TickReturns, people, published, TypeOK
<1>6. ASSUME NEW p \in PIDs, NEW s \in Shows, Appear(p, s) PROVE TypeOK'
    BY <1>6, BoundAssumption DEF Appear, published, pass, TypeOK
<1>7. ASSUME NEW p \in PIDs, Leave(p) PROVE TypeOK'
    BY <1>7, BoundAssumption DEF Leave, published, pass, TypeOK
<1>8. ASSUME NEW p \in PIDs, Expire(p) PROVE TypeOK'
    <2>1. /\ live' \in [PIDs -> [sid : Sids, show : Shows] \cup {Nothing}]
          /\ core' \in Core
          /\ fails' \in 0..MaxFails
        BY <1>8, ExpireTypes DEF Expire, published, TypeOK, Core
    <2> QED BY <1>8, <2>1 DEF Expire, pass, TypeOK, Core
<1>9. CASE TimePasses
    <2>1. core' \in Core
        <3> SUFFICES ASSUME NEW s \in Sids
                     PROVE  (IF core[s] = Free \/ core[s].left = 1 THEN Free
                             ELSE [core[s] EXCEPT !.left = @ - 1]) \in Sessions \cup {Free}
            BY <1>9 DEF TimePasses, Core
        <3>1. CASE core[s] = Free \/ core[s].left = 1
            BY <3>1
        <3>2. CASE core[s] # Free /\ core[s].left # 1
            <4>1. core[s] \in Sessions /\ core[s].left - 1 \in 1..Lease
                BY <3>2, LeaseAssumption DEF TypeOK, Sessions
            <4>2. [core[s] EXCEPT !.left = @ - 1] \in Sessions
                BY <4>1 DEF Sessions
            <4> QED BY <3>2, <4>2
        <3> QED BY <3>1, <3>2
    <2>2. away' \in [PIDs -> 0..Patience]
        BY <1>9, BoundAssumption DEF TimePasses, TypeOK
    <2>3. lost' \in [PIDs -> 0..Patience] /\ fails' \in 0..MaxFails
        BY <1>9, BoundAssumption DEF TimePasses, Dropped, Fail, TypeOK
    <2> QED BY <1>9, <2>1, <2>2, <2>3 DEF TimePasses, people, TypeOK, Core
<1>10. CASE CoreRestart
    BY <1>10, BoundAssumption DEF CoreRestart, Fail, people, pass, TypeOK
<1> QED BY <1>1, <1>2, <1>3, <1>4, <1>5, <1>6, <1>7, <1>8, <1>9, <1>10 DEF Next, Loop

\* For any people, ids, lease and failures, every variable has its type.
THEOREM TypeCorrect == Spec => []TypeOK
    BY InitType, NextType, PTL DEF Spec

-----------------------------------------------------------------------------
\* As long as nothing is published anew, narrowing the core keeps sessions apart.
LEMMA NarrowOwn ==
    ASSUME TypeOK, OwnSessions, Narrows(core'),
           \A q \in PIDs : live'[q] = live[q] \/ live'[q] = Nothing
    PROVE  OwnSessions'
<1> SUFFICES ASSUME NEW q \in PIDs, live'[q] # Nothing
             PROVE  /\ core'[live'[q].sid] # Free =>
                        core'[live'[q].sid].pid = q /\ core'[live'[q].sid].show = live'[q].show
                    /\ \A r \in PIDs \ {q} : live'[r] # Nothing => live'[r].sid # live'[q].sid
    BY DEF OwnSessions
<1>1. live'[q] = live[q] /\ live[q].sid \in Sids
    BY DEF TypeOK
<1> QED BY <1>1 DEF OwnSessions, Narrows

\* A registration publishes under an id that nobody else is published under.
LEMMA RegisterOwn ==
    ASSUME TypeOK, OwnSessions, NEW p \in PIDs, NEW c, Narrows(c), NEW n, RegisterLocked(p, c, n)
    PROVE  OwnSessions'
<1> SUFFICES ASSUME NEW q \in PIDs, live'[q] # Nothing
             PROVE  /\ core'[live'[q].sid] # Free =>
                        core'[live'[q].sid].pid = q /\ core'[live'[q].sid].show = live'[q].show
                    /\ \A r \in PIDs \ {q} : live'[r] # Nothing => live'[r].sid # live'[q].sid
    BY DEF OwnSessions
<1>1. \A r \in PIDs : live[r] # Nothing => live[r].sid \in Sids
    BY DEF TypeOK
<1>2. ASSUME NEW sid \in NewSids(c), core' = [c EXCEPT ![sid] = SessionOf(p, snap[p], Lease)], Publish(p, sid)
      PROVE  /\ core'[live'[q].sid] # Free =>
                 core'[live'[q].sid].pid = q /\ core'[live'[q].sid].show = live'[q].show
             /\ \A r \in PIDs \ {q} : live'[r] # Nothing => live'[r].sid # live'[q].sid
    <2>1. /\ live'[p] = [sid |-> sid, show |-> snap[p]]
          /\ \A r \in PIDs \ {p} : live'[r] = live[r]
        BY <1>2 DEF Publish, TypeOK
    <2>2. \A r \in PIDs : live[r] # Nothing => live[r].sid # sid
        BY <1>2 DEF NewSids
    <2>3. \A s \in Sids : core'[s] = IF s = sid THEN SessionOf(p, snap[p], Lease) ELSE c[s]
        BY <1>2 DEF Narrows, Core
    <2>4. sid \in Sids
        BY <1>2 DEF NewSids
    <2>5. CASE q = p
        BY <2>1, <2>2, <2>3, <2>4, <2>5 DEF SessionOf
    <2>6. CASE q # p
        BY <1>1, <2>1, <2>2, <2>3, <2>6 DEF OwnSessions, Narrows
    <2> QED BY <2>5, <2>6
<1>3. ASSUME core' = c \/ \E sid \in NewSids(c) : core' = [c EXCEPT ![sid] = SessionOf(p, snap[p], Lease)],
             Unpublish(p)
      PROVE  /\ core'[live'[q].sid] # Free =>
                 core'[live'[q].sid].pid = q /\ core'[live'[q].sid].show = live'[q].show
             /\ \A r \in PIDs \ {q} : live'[r] # Nothing => live'[r].sid # live'[q].sid
    <2>1. \A r \in PIDs : live'[r] = IF r = p THEN Nothing ELSE live[r]
        BY <1>3 DEF Unpublish, TypeOK
    <2>2. core'[live[q].sid] = c[live[q].sid]
        BY <1>1, <1>3, <2>1 DEF NewSids, Narrows, Core
    <2> QED BY <1>1, <2>1, <2>2 DEF OwnSessions, Narrows
<1> QED BY <1>2, <1>3 DEF RegisterLocked

LEMMA ExpireOwn ==
    ASSUME TypeOK, OwnSessions, NEW p \in PIDs, live[p] # Nothing, ExpireLocked(p)
    PROVE  OwnSessions'
<1>1. Narrows(core')
    BY CallsNarrow DEF ExpireLocked
<1>2. \A q \in PIDs : live'[q] = live[q] \/ live'[q] = Nothing
    BY DEF ExpireLocked, Unpublish, TypeOK
<1> QED BY <1>1, <1>2, NarrowOwn

LEMMA VisitOwn ==
    ASSUME TypeOK, OwnSessions, NEW p \in PIDs, Visit(p)
    PROVE  OwnSessions'
<1>1. CASE VisitNobody(p)
    BY <1>1 DEF VisitNobody, published, OwnSessions
<1>2. CASE VisitGone(p)
    BY <1>2, ExpireOwn DEF VisitGone
<1>3. CASE Heartbeat(p)
    BY <1>3, CallsNarrow, NarrowOwn DEF Heartbeat
<1>4. CASE HeartbeatLost(p)
    <2>1. PICK c, n : Narrows(c) /\ RegisterLocked(p, c, n)
        BY <1>4, CallsNarrow DEF HeartbeatLost
    <2> QED BY <2>1, RegisterOwn
<1>5. CASE VisitNew(p)
    BY <1>5, CallsNarrow, RegisterOwn DEF VisitNew
<1>6. CASE VisitChanged(p)
    BY <1>6, CallsNarrow, RegisterOwn DEF VisitChanged
<1> QED BY <1>1, <1>2, <1>3, <1>4, <1>5, <1>6 DEF Visit

LEMMA InitOwn == Init => OwnSessions
    BY DEF Init, OwnSessions

LEMMA NextOwn == TypeOK /\ OwnSessions /\ [Next]_vars => OwnSessions'
<1> SUFFICES ASSUME TypeOK, OwnSessions, [Next]_vars PROVE OwnSessions'
    OBVIOUS
<1>1. CASE UNCHANGED <<live, core>>
    BY <1>1 DEF OwnSessions
<1>2. ASSUME NEW p \in PIDs, Visit(p) PROVE OwnSessions'
    BY <1>2, VisitOwn
<1>3. ASSUME NEW p \in PIDs, Expire(p) PROVE OwnSessions'
    BY <1>1, <1>3, ExpireOwn DEF Expire, published
<1>4. CASE TimePasses
    <2>1. \A s \in Sids : core'[s] # Free => /\ core[s] # Free
                                             /\ core'[s] = [core[s] EXCEPT !.left = @ - 1]
        BY <1>4 DEF TimePasses
    <2>2. core' \in Core
        BY <1>4, NextType DEF TypeOK, Core
    <2>3. \A s \in Sids : core'[s] # Free => core'[s].pid = core[s].pid /\ core'[s].show = core[s].show
        BY <2>1 DEF TypeOK, Sessions
    <2>4. Narrows(core')
        BY <2>1, <2>2, <2>3 DEF Narrows
    <2> QED BY <1>4, <2>4, NarrowOwn DEF TimePasses
<1>5. CASE CoreRestart
    <2>1. Narrows(core')
        BY <1>5 DEF CoreRestart, Narrows, Core
    <2> QED BY <1>5, <2>1, NarrowOwn DEF CoreRestart
<1> QED BY <1>1, <1>2, <1>3, <1>4, <1>5
    DEF Next, Loop, TakeSnapshot, Lock, Unlock, TickReturns, Appear, Leave, published, vars

\* However many people are published, whatever calls fail and whenever they come
\* and go, nobody's heartbeat or expiry reaches the session of another.
THEOREM SessionsAreOwn == Spec => []OwnSessions
    BY InitType, NextType, InitOwn, NextOwn, PTL DEF Spec

-----------------------------------------------------------------------------
\* No session lives longer than a lease from when its person left.
Young(c) == \A sid \in Sids : c[sid] # Free => c[sid].left + away[c[sid].pid] <= Lease

\* Time stands still for whoever is connected, and from a snapshot with them in
\* it to the end of its pass.
AwayOnlyOff ==
    \A p \in PIDs :
        /\ online[p] # Off => away[p] = 0
        /\ pc \in {"snapshot", "locked"} /\ snap[p] # Off => away[p] = 0

\* The calls made before a registration lengthen no lease of who is away.
LEMMA CallsYoung ==
    ASSUME TypeOK, OwnSessions, Young(core), NEW p \in PIDs, live[p] # Nothing
    PROVE  /\ Young(WithoutSession(p, core))
           /\ away[p] = 0 /\ core[live[p].sid] # Free => Young(Renewed(p))
<1>1. live[p].sid \in Sids
    BY DEF TypeOK
<1>2. Young(WithoutSession(p, core))
    BY <1>1 DEF TypeOK, Young, WithoutSession
<1>3. ASSUME away[p] = 0, core[live[p].sid] # Free PROVE Young(Renewed(p))
    <2> SUFFICES ASSUME NEW sid \in Sids, Renewed(p)[sid] # Free
                 PROVE  Renewed(p)[sid].left + away[Renewed(p)[sid].pid] <= Lease
        BY DEF Young
    <2>1. CASE sid = live[p].sid
        <3>1. Renewed(p)[sid] = [core[sid] EXCEPT !.left = Lease]
            BY <1>1, <2>1 DEF Renewed, TypeOK
        <3>2. core[sid] \in Sessions /\ core[sid].pid = p
            BY <1>3, <2>1 DEF TypeOK, OwnSessions
        <3>3. Renewed(p)[sid].left = Lease /\ Renewed(p)[sid].pid = p
            BY <3>1, <3>2 DEF Sessions
        <3> QED BY <1>3, <3>3, LeaseAssumption
    <2>2. CASE sid # live[p].sid
        BY <2>2 DEF Renewed, TypeOK, Young
    <2> QED BY <2>1, <2>2
<1> QED BY <1>2, <1>3

\* A registration is for somebody who was there a moment ago.
LEMMA RegisterYoung ==
    ASSUME TypeOK, NEW p \in PIDs, away[p] = 0, NEW c \in Core, Young(c), NEW n, RegisterLocked(p, c, n)
    PROVE  Young(core')
<1>1. \A sid \in Sids : Young([c EXCEPT ![sid] = SessionOf(p, snap[p], Lease)])
    BY LeaseAssumption DEF Young, Core, SessionOf
<1> QED BY <1>1 DEF RegisterLocked, NewSids

LEMMA VisitYoung ==
    ASSUME TypeOK, OwnSessions, Young(core), AwayOnlyOff, NEW p \in PIDs, Visit(p)
    PROVE  Young(core')
<1>1. pc = "locked"
    BY DEF Visit, VisitNobody, VisitGone, Heartbeat, HeartbeatLost, VisitNew, VisitChanged, Visited
<1>2. snap[p] # Off => away[p] = 0
    BY <1>1 DEF AwayOnlyOff
<1>3. CASE VisitNobody(p)
    BY <1>3 DEF VisitNobody, published, Young
<1>4. CASE VisitGone(p)
    BY <1>4, CallsYoung DEF VisitGone, ExpireLocked
<1>5. CASE Heartbeat(p)
    BY <1>2, <1>5, CallsYoung DEF Heartbeat
<1>6. CASE HeartbeatLost(p)
    <2>1. PICK c, n : c \in Core /\ Young(c) /\ RegisterLocked(p, c, n)
        BY <1>2, <1>6, CallsYoung, CallsNarrow DEF HeartbeatLost, Narrows
    <2> QED BY <1>2, <1>6, <2>1, RegisterYoung DEF HeartbeatLost
<1>7. CASE VisitNew(p)
    BY <1>2, <1>7, CallsNarrow, RegisterYoung DEF VisitNew, Narrows
<1>8. CASE VisitChanged(p)
    <2>1. PICK c, n : c \in Core /\ Young(c) /\ RegisterLocked(p, c, n)
        BY <1>8, CallsYoung, CallsNarrow DEF VisitChanged, Narrows
    <2> QED BY <1>2, <1>8, <2>1, RegisterYoung DEF VisitChanged
<1> QED BY <1>3, <1>4, <1>5, <1>6, <1>7, <1>8 DEF Visit

\* A unit that goes by takes from the lease what it adds to the absence.
LEMMA TickYoung ==
    ASSUME TypeOK, Young(core), TimePasses
    PROVE  Young(core)'
<1> SUFFICES ASSUME NEW sid \in Sids, core'[sid] # Free
             PROVE  core'[sid].left + away'[core'[sid].pid] <= Lease
    BY DEF Young
<1>1. core[sid] # Free /\ core'[sid] = [core[sid] EXCEPT !.left = @ - 1]
    BY DEF TimePasses
<1>2. core[sid] \in Sessions
    BY <1>1 DEF TypeOK
<1>3. core'[sid].left = core[sid].left - 1 /\ core'[sid].pid = core[sid].pid
    BY <1>1, <1>2 DEF Sessions
<1>4. core[sid].left \in Nat /\ core[sid].pid \in PIDs
    BY <1>2, LeaseAssumption DEF Sessions
<1>5. away[core[sid].pid] \in Nat /\ away'[core[sid].pid] \in {away[core[sid].pid], away[core[sid].pid] + 1}
    BY <1>4, BoundAssumption DEF TimePasses, TypeOK
<1> QED BY <1>1, <1>3, <1>4, <1>5, LeaseAssumption DEF Young

LEMMA InitYoung == Init => Young(core) /\ AwayOnlyOff
    BY DEF Init, Young, AwayOnlyOff, NobodyShows

LEMMA NextYoung ==
    TypeOK /\ OwnSessions /\ Young(core) /\ AwayOnlyOff /\ [Next]_vars => Young(core)' /\ AwayOnlyOff'
<1> SUFFICES ASSUME TypeOK, OwnSessions, Young(core), AwayOnlyOff, [Next]_vars
             PROVE  Young(core)' /\ AwayOnlyOff'
    OBVIOUS
<1>1. ASSUME NEW p \in PIDs, Visit(p) PROVE Young(core)' /\ AwayOnlyOff'
    <2>1. UNCHANGED <<online, pc, snap, away>>
        BY <1>1 DEF Visit, VisitNobody, VisitGone, Heartbeat, HeartbeatLost, VisitNew, VisitChanged, Visited, people
    <2> QED BY <1>1, <2>1, VisitYoung DEF Young, AwayOnlyOff
<1>2. CASE TakeSnapshot \/ Lock \/ Unlock \/ TickReturns
    BY <1>2 DEF TakeSnapshot, Lock, Unlock, TickReturns, people, published, Young, AwayOnlyOff
<1>3. ASSUME NEW p \in PIDs, NEW s \in Shows, Appear(p, s) PROVE Young(core)' /\ AwayOnlyOff'
    <2>1. \A q \in PIDs : away'[q] \in Nat /\ away'[q] <= away[q]
        BY <1>3, BoundAssumption DEF Appear, TypeOK
    <2>2. Young(core)'
        <3> SUFFICES ASSUME NEW sid \in Sids, core[sid] # Free
                     PROVE  core[sid].left + away'[core[sid].pid] <= Lease
            BY <1>3 DEF Appear, published, Young
        <3>1. core[sid].left \in Nat /\ core[sid].pid \in PIDs /\ away[core[sid].pid] \in Nat
            BY LeaseAssumption, BoundAssumption DEF TypeOK, Sessions
        <3> QED BY <2>1, <3>1, LeaseAssumption DEF Young
    <2>3. AwayOnlyOff'
        BY <1>3 DEF Appear, pass, TypeOK, AwayOnlyOff
    <2> QED BY <2>2, <2>3
<1>4. ASSUME NEW p \in PIDs, Leave(p) PROVE Young(core)' /\ AwayOnlyOff'
    BY <1>4 DEF Leave, published, pass, TypeOK, Young, AwayOnlyOff
<1>5. ASSUME NEW p \in PIDs, Expire(p) PROVE Young(core)' /\ AwayOnlyOff'
    <2>1. Young(core')
        <3>1. CASE live[p] = Nothing
            BY <1>5, <3>1 DEF Expire, published, Young
        <3>2. CASE live[p] # Nothing
            BY <1>5, <3>2, CallsYoung DEF Expire, ExpireLocked
        <3> QED BY <3>1, <3>2
    <2> QED BY <1>5, <2>1 DEF Expire, pass, Young, AwayOnlyOff
<1>6. CASE TimePasses
    <2>1. AwayOnlyOff'
        BY <1>6 DEF TimePasses, Dropped, people, TypeOK, AwayOnlyOff
    <2> QED BY <1>6, <2>1, TickYoung
<1>7. CASE CoreRestart
    BY <1>7 DEF CoreRestart, people, pass, Young, AwayOnlyOff
<1>8. CASE UNCHANGED vars
    BY <1>8 DEF vars, people, published, pass, Young, AwayOnlyOff
<1> QED BY <1>1, <1>2, <1>3, <1>4, <1>5, <1>6, <1>7, <1>8 DEF Next, Loop

\* Whoever left is shown for a lease at most, whatever calls fail and passes are
\* dropped, for any lease and any number of people (publisher.go, Reconcile and
\* Expire).
THEOREM NobodyShownForLong == Spec => []GoneInTime
<1>1. TypeOK /\ Young(core) => GoneInTime
    <2> SUFFICES ASSUME TypeOK, Young(core), NEW p \in PIDs, away[p] >= Lease, NEW s \in Shows, Shown(p, s)
                 PROVE  FALSE
        BY DEF GoneInTime
    <2>1. PICK sid \in Sids : core[sid] # Free /\ core[sid].pid = p
        BY DEF Shown
    <2>2. core[sid].left \in Nat /\ core[sid].left >= 1 /\ away[p] \in Nat
        BY <2>1, LeaseAssumption, BoundAssumption DEF TypeOK, Sessions
    <2> QED BY <2>1, <2>2, LeaseAssumption DEF Young
<1> QED BY <1>1, InitType, NextType, InitOwn, NextOwn, InitYoung, NextYoung, PTL DEF Spec

-----------------------------------------------------------------------------
\* No session is the free place.
LEMMA SessionNotFree == Free \notin Sessions
<1>1. Sessions \subseteq [pid : PIDs, show : Shows, left : Nat]
    BY LeaseAssumption DEF Sessions
<1> QED BY <1>1, NoneAssumption

\* The pass that is due has yet to come to p.
Awaits(p) == due /\ (pc = "locked" => p \in todo)
Units(b) == IF b THEN 1 ELSE 0

\* The sessions c show p as they are, for a lease less a unit for every pass that
\* did not publish them and for the one they await.
Holds(c, p) ==
    \E sid \in Sids :
        /\ c[sid] # Free /\ c[sid].pid = p /\ c[sid].show = online[p]
        /\ c[sid].left + lost[p] + Units(Awaits(p)) >= Lease

\* Whoever was published as they are and has not changed is still so in the
\* snapshot and in what was published, and held by a session.
SteadyIsHeld ==
    \A p \in steady :
        /\ online[p] # Off
        /\ pc \in {"snapshot", "locked"} => snap[p] = online[p]
        /\ live[p] # Nothing => live[p].show = online[p]
        /\ lost[p] <= 1 => Holds(core, p)

\* The calls for one person leave the sessions of another alone.
LEMMA OthersHeld ==
    ASSUME TypeOK, OwnSessions, NEW p \in PIDs, NEW q \in PIDs \ {p}, Holds(core, q)
    PROVE  /\ live[p] # Nothing => Holds(WithoutSession(p, core), q)
           /\ live[p] # Nothing /\ core[live[p].sid] # Free => Holds(Renewed(p), q)
<1>1. PICK sid \in Sids : /\ core[sid] # Free /\ core[sid].pid = q /\ core[sid].show = online[q]
                          /\ core[sid].left + lost[q] + Units(Awaits(q)) >= Lease
    BY DEF Holds
<1>2. live[p] # Nothing => live[p].sid # sid
    BY <1>1 DEF OwnSessions
<1>3. live[p] # Nothing => WithoutSession(p, core)[sid] = core[sid]
    BY <1>2 DEF WithoutSession, TypeOK
<1>4. live[p] # Nothing => Renewed(p)[sid] = core[sid]
    BY <1>2 DEF Renewed, TypeOK
<1> QED BY <1>1, <1>3, <1>4 DEF Holds

\* A new session takes nobody else's place.
LEMMA RegisterHeld ==
    ASSUME NEW p, NEW q, NEW c \in Core, Holds(c, q), NEW n, RegisterLocked(p, c, n)
    PROVE  Holds(core', q)
<1>1. PICK sid \in Sids : /\ c[sid] # Free /\ c[sid].pid = q /\ c[sid].show = online[q]
                          /\ c[sid].left + lost[q] + Units(Awaits(q)) >= Lease
    BY DEF Holds
<1>2. core' = c \/ \E new \in NewSids(c) : core' = [c EXCEPT ![new] = SessionOf(p, snap[p], Lease)]
    BY DEF RegisterLocked
<1>3. core'[sid] = c[sid]
    BY <1>1, <1>2 DEF NewSids, Core
<1> QED BY <1>1, <1>3 DEF Holds

\* A pass that publishes somebody else leaves p held.
LEMMA OtherVisitHeld ==
    ASSUME TypeOK, OwnSessions, NEW p \in PIDs, NEW q \in PIDs \ {p}, Visit(p), Holds(core, q)
    PROVE  Holds(core', q)
<1>1. CASE VisitNobody(p)
    BY <1>1 DEF VisitNobody, published
<1>2. CASE VisitGone(p)
    BY <1>2, OthersHeld DEF VisitGone, ExpireLocked
<1>3. CASE Heartbeat(p)
    BY <1>3, OthersHeld DEF Heartbeat
<1>4. CASE HeartbeatLost(p)
    <2>1. PICK c, n : c \in Core /\ Holds(c, q) /\ RegisterLocked(p, c, n)
        BY <1>4, OthersHeld, CallsNarrow DEF HeartbeatLost, Narrows
    <2> QED BY <2>1, RegisterHeld
<1>5. CASE VisitNew(p)
    BY <1>5, CallsNarrow, RegisterHeld DEF VisitNew, Narrows
<1>6. CASE VisitChanged(p)
    <2>1. PICK c, n : c \in Core /\ Holds(c, q) /\ RegisterLocked(p, c, n)
        BY <1>6, OthersHeld, CallsNarrow DEF VisitChanged, Narrows
    <2> QED BY <2>1, RegisterHeld
<1> QED BY <1>1, <1>2, <1>3, <1>4, <1>5, <1>6 DEF Visit

\* A registration publishes p anew, or costs one pass and leaves what there was.
LEMMA OwnRegisterHeld ==
    ASSUME TypeOK, Patience >= 2, NEW p \in PIDs, snap[p] # Off, Visited(p),
           NEW c \in Core, NEW n, RegisterLocked(p, c, n), p \in steady',
           p \in steady => snap[p] = online[p] /\ (lost[p] <= 1 => Holds(c, p))
    PROVE  /\ snap[p] = online[p]
           /\ live'[p] # Nothing => live'[p].show = online[p]
           /\ lost'[p] <= 1 => Holds(core, p)'
<1>1. ~Awaits(p)' /\ online' = online
    BY DEF Visited, Awaits, people
<1>2. lost[p] \in Nat
    BY BoundAssumption DEF TypeOK
<1>3. CASE /\ \E sid \in NewSids(c) :
                /\ core' = [c EXCEPT ![sid] = SessionOf(p, snap[p], Lease)]
                /\ Publish(p, sid)
           /\ Succeeds(p)
    <2>1. snap[p] = online[p] /\ lost'[p] = 0
        BY <1>3 DEF Succeeds, TypeOK
    <2>2. PICK sid \in NewSids(c) : /\ core' = [c EXCEPT ![sid] = SessionOf(p, snap[p], Lease)]
                                    /\ Publish(p, sid)
        BY <1>3
    <2>3. SessionOf(p, snap[p], Lease) \in Sessions
        BY LeaseAssumption DEF TypeOK, SessionOf, Sessions
    <2>4. sid \in Sids /\ core'[sid] = SessionOf(p, snap[p], Lease) /\ core'[sid] # Free
        BY <2>2, <2>3, SessionNotFree DEF NewSids, Core
    <2>5. live'[p].show = online[p]
        BY <2>1, <2>2 DEF Publish, TypeOK
    <2>6. Holds(core, p)'
        BY <1>1, <2>1, <2>4, LeaseAssumption DEF Holds, SessionOf, Units
    <2> QED BY <2>1, <2>5, <2>6
<1>4. CASE /\ core' = c \/ \E sid \in NewSids(c) : core' = [c EXCEPT ![sid] = SessionOf(p, snap[p], Lease)]
           /\ Unpublish(p)
           /\ Loses(p)
    <2>1. p \in steady /\ snap[p] = online[p]
        BY <1>4 DEF Loses
    <2>2. live'[p] = Nothing
        BY <1>4 DEF Unpublish, TypeOK
    <2>3. ASSUME lost'[p] <= 1 PROVE Holds(core, p)'
        <3>1. lost[p] = 0 /\ lost'[p] = 1
            BY <1>2, <1>4, <2>3, BoundAssumption DEF Loses, TypeOK
        <3>2. PICK sid \in Sids : /\ c[sid] # Free /\ c[sid].pid = p /\ c[sid].show = online[p]
                                  /\ c[sid].left + lost[p] + Units(Awaits(p)) >= Lease
            BY <2>1, <3>1 DEF Holds
        <3>3. core'[sid] = c[sid]
            BY <1>4, <3>2 DEF NewSids, Core
        <3>4. c[sid].left \in Nat
            BY <3>2, LeaseAssumption DEF Core, Sessions
        <3>5. c[sid].left + lost'[p] + Units(Awaits(p)') >= Lease
            BY <1>1, <3>1, <3>2, <3>4, LeaseAssumption DEF Units
        <3> QED BY <1>1, <3>2, <3>3, <3>5 DEF Holds
    <2> QED BY <2>1, <2>2, <2>3
<1> QED BY <1>3, <1>4 DEF RegisterLocked

\* A pass that comes to p keeps them held, if they are steady after it.
LEMMA OwnVisitHeld ==
    ASSUME TypeOK, OwnSessions, SteadyIsHeld, Patience >= 2, NEW p \in PIDs, Visit(p), p \in steady'
    PROVE  /\ snap[p] = online[p] /\ snap[p] # Off
           /\ live'[p] # Nothing => live'[p].show = online[p]
           /\ lost'[p] <= 1 => Holds(core, p)'
<1>1. Visited(p)
    BY DEF Visit, VisitNobody, VisitGone, Heartbeat, HeartbeatLost, VisitNew, VisitChanged
<1>2. pc = "locked" /\ ~Awaits(p)' /\ online' = online
    BY <1>1 DEF Visited, Awaits, people
<1>3. p \in steady => /\ online[p] # Off /\ snap[p] = online[p]
                      /\ live[p] # Nothing => live[p].show = online[p]
                      /\ lost[p] <= 1 => Holds(core, p)
    BY <1>2 DEF SteadyIsHeld
<1>4. CASE VisitNobody(p) \/ VisitGone(p)
    BY <1>3, <1>4 DEF VisitNobody, VisitGone
<1>5. CASE Heartbeat(p)
    <2>1. /\ snap[p] = online[p] /\ lost'[p] = 0 /\ live' = live
          /\ live[p] # Nothing /\ live[p].show = snap[p] /\ core[live[p].sid] # Free
        BY <1>3, <1>5 DEF Heartbeat, Succeeds, TypeOK
    <2>2. live[p].sid \in Sids
        BY <2>1 DEF TypeOK
    <2>3. core[live[p].sid] \in Sessions /\ core[live[p].sid].pid = p /\ core[live[p].sid].show = online[p]
        BY <2>1, <2>2 DEF TypeOK, OwnSessions
    <2>4. core'[live[p].sid] = [core[live[p].sid] EXCEPT !.left = Lease]
        BY <1>5, <2>2 DEF Heartbeat, Renewed, TypeOK
    <2>5. core'[live[p].sid] # Free
        BY <2>3, <2>4, LeaseAssumption, SessionNotFree DEF Sessions
    <2>6. Holds(core, p)'
        BY <1>2, <2>1, <2>2, <2>3, <2>4, <2>5, LeaseAssumption DEF Holds, Sessions, Units
    <2> QED BY <1>5, <2>1, <2>6 DEF Heartbeat
<1>6. CASE HeartbeatLost(p)
    <2>1. PICK c, n : /\ c \in Core /\ RegisterLocked(p, c, n)
                      /\ c = core \/ (c = Renewed(p) /\ core[live[p].sid] # Free)
        BY <1>6, CallsNarrow DEF HeartbeatLost, Narrows
    <2>2. p \in steady /\ lost[p] <= 1 => Holds(c, p)
        <3> SUFFICES ASSUME p \in steady, lost[p] <= 1, c = Renewed(p), core[live[p].sid] # Free PROVE Holds(c, p)
            BY <1>3, <2>1
        <3>1. PICK sid \in Sids : /\ core[sid] # Free /\ core[sid].pid = p /\ core[sid].show = online[p]
                                  /\ core[sid].left + lost[p] + Units(Awaits(p)) >= Lease
            BY <1>3 DEF Holds
        <3>2. lost[p] \in Nat /\ Units(Awaits(p)) \in Nat
            BY BoundAssumption DEF TypeOK, Units
        <3>3. core[sid] \in Sessions
            BY <3>1 DEF TypeOK
        <3>4. CASE sid = live[p].sid
            <4>1. c[sid] = [core[sid] EXCEPT !.left = Lease]
                BY <3>1, <3>4 DEF Renewed, TypeOK, Core
            <4>2. c[sid].pid = p /\ c[sid].show = online[p] /\ c[sid].left = Lease
                BY <3>1, <3>3, <4>1 DEF Sessions
            <4>3. c[sid] # Free
                BY <3>3, <4>1, LeaseAssumption, SessionNotFree DEF Sessions
            <4> QED BY <3>2, <4>2, <4>3, LeaseAssumption DEF Holds
        <3>5. CASE sid # live[p].sid
            BY <3>1, <3>5 DEF Renewed, TypeOK, Holds
        <3> QED BY <3>4, <3>5
    <2> QED BY <1>1, <1>3, <1>6, <2>1, <2>2, OwnRegisterHeld DEF HeartbeatLost
<1>7. CASE VisitNew(p)
    <2>1. core \in Core
        BY CallsNarrow DEF Narrows
    <2> QED BY <1>1, <1>3, <1>7, <2>1, OwnRegisterHeld DEF VisitNew
<1>8. CASE VisitChanged(p)
    <2>1. PICK c, n : c \in Core /\ RegisterLocked(p, c, n)
        BY <1>8, CallsNarrow DEF VisitChanged, Narrows
    <2>2. p \notin steady
        BY <1>3, <1>8 DEF VisitChanged
    <2> QED BY <1>1, <1>8, <2>1, <2>2, OwnRegisterHeld DEF VisitChanged
<1> QED BY <1>4, <1>5, <1>6, <1>7, <1>8 DEF Visit

\* Two units go by before a lease of three is over.
LEMMA TickHeld ==
    ASSUME TypeOK, Lease >= 3, Patience >= 2, NEW p \in PIDs, lost[p] <= 1 => Holds(core, p), TimePasses
    PROVE  lost'[p] <= 1 => Holds(core, p)'
<1> SUFFICES ASSUME lost'[p] <= 1 PROVE Holds(core, p)'
    OBVIOUS
<1>1. lost[p] \in Nat /\ online' = online /\ due' = TRUE /\ pc' = pc /\ pc # "locked"
    BY BoundAssumption DEF TypeOK, TimePasses, Dropped, people
<1>2. \/ ~due /\ lost'[p] = lost[p]
      \/ due /\ lost'[p] = lost[p] + 1
    BY <1>1, BoundAssumption DEF TimePasses, Dropped, TypeOK
<1>3. lost[p] <= 1
    BY <1>1, <1>2
<1>4. PICK sid \in Sids : /\ core[sid] # Free /\ core[sid].pid = p /\ core[sid].show = online[p]
                          /\ core[sid].left + lost[p] + Units(Awaits(p)) >= Lease
    BY <1>3 DEF Holds
<1>5. core[sid] \in Sessions /\ core[sid].left \in Nat
    BY <1>4, LeaseAssumption DEF TypeOK, Sessions
<1>6. Units(Awaits(p)) = Units(due) /\ Units(Awaits(p)') = 1
    BY <1>1 DEF Units, Awaits
<1>7. core[sid].left >= 2 /\ core[sid].left - 1 + lost'[p] + 1 >= Lease
    <2>1. CASE ~due /\ lost'[p] = lost[p]
        BY <1>1, <1>3, <1>4, <1>5, <1>6, <2>1, LeaseAssumption DEF Units
    <2>2. CASE due /\ lost'[p] = lost[p] + 1
        BY <1>1, <1>3, <1>4, <1>5, <1>6, <2>2, LeaseAssumption DEF Units
    <2> QED BY <1>2, <2>1, <2>2
<1>8. core'[sid] = [core[sid] EXCEPT !.left = @ - 1]
    BY <1>4, <1>5, <1>7 DEF TimePasses
<1>9. /\ core'[sid].left = core[sid].left - 1
      /\ core'[sid].pid = p /\ core'[sid].show = online[p]
    BY <1>4, <1>5, <1>8 DEF Sessions
<1>10. core'[sid] # Free
    <2>1. core[sid].left - 1 \in 1..Lease
        BY <1>5, <1>7, LeaseAssumption DEF Sessions
    <2>2. core'[sid] \in Sessions
        BY <1>5, <1>8, <2>1 DEF Sessions
    <2> QED BY <2>2, SessionNotFree
<1> QED BY <1>1, <1>5, <1>6, <1>7, <1>9, <1>10 DEF Holds

LEMMA InitHeld == Init => SteadyIsHeld
    BY DEF Init, SteadyIsHeld

LEMMA NextHeld ==
    ASSUME Lease >= 3, Patience >= 2, TypeOK, OwnSessions, SteadyIsHeld, [Next]_vars
    PROVE  SteadyIsHeld'
<1> SUFFICES ASSUME NEW p \in PIDs, p \in steady'
             PROVE  /\ online'[p] # Off
                    /\ pc' \in {"snapshot", "locked"} => snap'[p] = online'[p]
                    /\ live'[p] # Nothing => live'[p].show = online'[p]
                    /\ lost'[p] <= 1 => Holds(core, p)'
    <2>1. steady' \subseteq PIDs
        BY NextType DEF TypeOK
    <2> QED BY <2>1 DEF SteadyIsHeld
<1> DEFINE Goal == /\ online'[p] # Off
                   /\ pc' \in {"snapshot", "locked"} => snap'[p] = online'[p]
                   /\ live'[p] # Nothing => live'[p].show = online'[p]
                   /\ lost'[p] <= 1 => Holds(core, p)'
<1>1. p \in steady => /\ online[p] # Off
                      /\ pc \in {"snapshot", "locked"} => snap[p] = online[p]
                      /\ live[p] # Nothing => live[p].show = online[p]
                      /\ lost[p] <= 1 => Holds(core, p)
    BY DEF SteadyIsHeld
<1>2. ASSUME NEW q \in PIDs, Visit(q) PROVE Goal
    <2>1. Visited(q) /\ pc = "locked"
        BY <1>2 DEF Visit, VisitNobody, VisitGone, Heartbeat, HeartbeatLost, VisitNew, VisitChanged, Visited
    <2>2. UNCHANGED <<online, pc, due, snap>> /\ todo' = todo \ {q}
        BY <2>1 DEF Visited, people
    <2>3. CASE q = p
        BY <1>2, <2>1, <2>2, <2>3, OwnVisitHeld
    <2>4. CASE q # p
        <3>1. p \in steady /\ lost'[p] = lost[p] /\ live'[p] = live[p]
            BY <1>2, <2>4 DEF Visit, VisitNobody, VisitGone, Heartbeat, HeartbeatLost, VisitNew,
               VisitChanged, ExpireLocked, Unpublish, Publish, RegisterLocked, Succeeds, Loses, published, TypeOK
        <3>2. Awaits(p)' <=> Awaits(p)
            BY <2>2, <2>4 DEF Awaits
        <3>3. lost[p] <= 1 => Holds(core', p)
            BY <1>1, <1>2, <2>4, <3>1, OtherVisitHeld
        <3>4. lost'[p] <= 1 => Holds(core, p)'
            BY <2>2, <3>1, <3>2, <3>3 DEF Holds, Units
        <3> QED BY <1>1, <2>1, <2>2, <3>1, <3>4
    <2> QED BY <2>3, <2>4
<1>3. CASE TakeSnapshot \/ Lock \/ Unlock \/ TickReturns
    <2>1. p \in steady /\ UNCHANGED <<online, live, core, lost>>
        BY <1>3 DEF TakeSnapshot, Lock, Unlock, TickReturns, people, published
    <2>2. pc' \in {"snapshot", "locked"} => snap'[p] = online'[p]
        BY <1>1, <1>3, <2>1 DEF TakeSnapshot, Lock, Unlock, TickReturns
    <2>3. Awaits(p)' <=> Awaits(p)
        BY <1>3 DEF TakeSnapshot, Lock, Unlock, TickReturns, Awaits
    <2> QED BY <1>1, <2>1, <2>2, <2>3 DEF Holds, Units
<1>4. ASSUME NEW q \in PIDs, NEW s \in Shows, Appear(q, s) PROVE Goal
    <2>1. q # p /\ p \in steady /\ UNCHANGED <<live, core, pc, due, todo, snap>>
        BY <1>4 DEF Appear, published, pass
    <2>2. online'[p] = online[p] /\ lost'[p] = lost[p]
        BY <1>4, <2>1 DEF Appear, TypeOK
    <2> QED BY <1>1, <2>1, <2>2 DEF Holds, Awaits, Units
<1>5. ASSUME NEW q \in PIDs, Leave(q) PROVE Goal
    <2>1. q # p /\ p \in steady /\ UNCHANGED <<live, core, pc, due, todo, snap>>
        BY <1>5 DEF Leave, published, pass
    <2>2. online'[p] = online[p] /\ lost'[p] = lost[p]
        BY <1>5, <2>1 DEF Leave, TypeOK
    <2> QED BY <1>1, <2>1, <2>2 DEF Holds, Awaits, Units
<1>6. ASSUME NEW q \in PIDs, Expire(q) PROVE Goal
    <2>1. q # p /\ p \in steady /\ UNCHANGED <<online, lost, pc, due, todo, snap>>
        BY <1>6 DEF Expire, pass
    <2>2. live'[p] = live[p]
        BY <1>6, <2>1 DEF Expire, ExpireLocked, Unpublish, published, TypeOK
    <2>3. Holds(core, p) => Holds(core', p)
        BY <1>6, <2>1, OthersHeld DEF Expire, ExpireLocked, published
    <2> QED BY <1>1, <2>1, <2>2, <2>3 DEF Holds, Awaits, Units
<1>7. CASE TimePasses
    <2>1. p \in steady /\ UNCHANGED <<online, live, pc, snap>>
        BY <1>7 DEF TimePasses, people
    <2> QED BY <1>1, <1>7, <2>1, TickHeld
<1>8. CASE CoreRestart
    BY <1>8 DEF CoreRestart
<1>9. CASE UNCHANGED vars
    BY <1>1, <1>9 DEF vars, people, published, pass, Holds, Awaits, Units
<1> QED BY <1>2, <1>3, <1>4, <1>5, <1>6, <1>7, <1>8, <1>9 DEF Next, Loop

\* publisher.go: "one lost heartbeat is not somebody blinking offline", for any
\* number of people, sessions and failures, as soon as a lease is three passes;
\* nor is one pass that the notifier kept from being made.
THEOREM OneLossIsNotBlinking ==
    ASSUME Lease >= 3, Patience >= 2
    PROVE  Spec => []OneLossDoesNotBlink
<1>1. TypeOK /\ SteadyIsHeld => OneLossDoesNotBlink
    BY DEF SteadyIsHeld, Holds, OneLossDoesNotBlink, Shown
<1>2. TypeOK /\ OwnSessions /\ SteadyIsHeld /\ [Next]_vars => SteadyIsHeld'
    BY NextHeld
<1> QED BY <1>1, <1>2, InitType, NextType, InitOwn, NextOwn, InitHeld, PTL DEF Spec

-----------------------------------------------------------------------------
(***************************************************************************)
(* The notifier.                                                           *)
(***************************************************************************)
\* Between two passes nobody is left to visit.
RestsEmpty == ~ticking => queue = {} /\ asked = {}

\* Whoever connected in the middle of a pass was not there for it: something
\* else wrote all they show.
MissedAreAdrift ==
    \A v \in Viewers : viewer[v] # "out" /\ (v \in stale \/ (ticking /\ v \notin present)) =>
        {v} \X Friends \subseteq adrift

-----------------------------------------------------------------------------
\* Nobody is connected and nothing was sent.
LEMMA NotifyInitType == NotifyInit => NotifyTypeOK /\ RestsEmpty
<1> SUFFICES ASSUME NotifyInit PROVE NotifyTypeOK /\ RestsEmpty
  OBVIOUS
<1>1. ticking \in BOOLEAN
  BY Zenon DEF NotifyInit
<1> QED
  BY <1>1, VisitAssumption DEF NotifyInit, NotifyTypeOK, RestsEmpty, Nobody

\* What the core says, or is taken to say, is a line for every friend.
LEMMA AnswerType == NotifyTypeOK => ForeignFriends \in [Friends -> Lines \cup {Nowhere}] /\ Nobody \in [Friends -> Lines \cup {Nowhere}]
BY DEF NotifyTypeOK, ForeignFriends, Nobody

\* Every step keeps every variable in its range.
LEMMA NotifyNextType == NotifyTypeOK /\ RestsEmpty /\ [NotifyNext]_notifyVars => NotifyTypeOK' /\ RestsEmpty'
<1> SUFFICES ASSUME NotifyTypeOK, RestsEmpty, [NotifyNext]_notifyVars PROVE NotifyTypeOK' /\ RestsEmpty'
  OBVIOUS
<1>1. ticking' \in BOOLEAN
  <2>1. ticking \in BOOLEAN
    BY DEF NotifyTypeOK
  <2>2. ticking' = ticking \/ ticking' = TRUE \/ ticking' = FALSE
    BY DEF NotifyNext, Tick, People, TickStart, TickAsk, TickSend, TickEnd, SignIn, LoadList, SignOut,
       FriendArrives, FriendLeaves, PlayElsewhere, notifyVars, tick
  <2> QED
    BY <2>1, <2>2, Zenon
<1> USE VisitAssumption DEF NotifyTypeOK, RestsEmpty
<1>2. CASE TickStart
  BY <1>1, <1>2 DEF TickStart, outside
<1>3. ASSUME NEW v \in Viewers, TickAsk(v) PROVE NotifyTypeOK' /\ RestsEmpty'
  <2>1. now' \in [Friends -> Lines \cup {Nowhere}]
    BY <1>3, AnswerType DEF TickAsk
  <2>2. misses' \in 0..MaxMisses
    BY <1>3 DEF TickAsk, Answer
  <2>3. ticking
    BY <1>3 DEF TickAsk
  <2> QED
    BY <1>1, <1>3, <2>1, <2>2, <2>3 DEF TickAsk, outside
<1>4. ASSUME NEW v \in Viewers, TickSend(v) PROVE NotifyTypeOK' /\ RestsEmpty'
  <2>1. shown' \in [Viewers -> [Friends -> Lines \cup {Nowhere, Local}]]
    <3> DEFINE view == [f \in Friends |-> IF f \in Diff(sent[v], now) THEN now[f] ELSE shown[v][f]]
    <3>1. view \in [Friends -> Lines \cup {Nowhere, Local}]
      OBVIOUS
    <3>2. shown' = shown \/ shown' = [shown EXCEPT ![v] = view]
      BY <1>4 DEF TickSend
    <3> HIDE DEF view
    <3> QED
      BY <3>1, <3>2
  <2> QED
    BY <1>1, <1>4, <2>1 DEF TickSend, outside
<1>5. CASE TickEnd
  BY <1>1, <1>5, AnswerType DEF TickEnd, outside
<1>6. ASSUME NEW v \in Viewers, SignIn(v) PROVE NotifyTypeOK' /\ RestsEmpty'
  BY <1>1, <1>6 DEF SignIn, tick, Nobody
<1>7. ASSUME NEW v \in Viewers, LoadList(v) PROVE NotifyTypeOK' /\ RestsEmpty'
  <2>1. PICK reply \in {ForeignFriends, Nobody} :
            /\ Answer(reply)
            /\ shown' = [shown EXCEPT ![v] = [f \in Friends |-> IF f \in here THEN Local ELSE reply[f]]]
    BY <1>7 DEF LoadList
  <2>2. shown' \in [Viewers -> [Friends -> Lines \cup {Nowhere, Local}]]
    BY <2>1, AnswerType
  <2>3. misses' \in 0..MaxMisses
    BY <2>1 DEF Answer
  <2> QED
    BY <1>1, <1>7, <2>2, <2>3 DEF LoadList, tick
<1>8. ASSUME NEW v \in Viewers, SignOut(v) PROVE NotifyTypeOK' /\ RestsEmpty'
  BY <1>1, <1>8 DEF SignOut
<1>9. ASSUME NEW f \in Friends, FriendArrives(f) \/ FriendLeaves(f) PROVE NotifyTypeOK' /\ RestsEmpty'
  <2>1. \A what \in {Local, Nowhere} : Tell(f, what) =>
            shown' \in [Viewers -> [Friends -> Lines \cup {Nowhere, Local}]] /\ adrift' \in SUBSET (Viewers \X Friends)
    BY DEF Tell
  <2> QED
    BY <1>1, <1>9, <2>1 DEF FriendArrives, FriendLeaves, tick
<1>10. ASSUME NEW f \in Friends, NEW l \in Lines \cup {Nowhere}, PlayElsewhere(f, l) PROVE NotifyTypeOK' /\ RestsEmpty'
  BY <1>1, <1>10 DEF PlayElsewhere, tick
<1>11. CASE UNCHANGED notifyVars
  BY <1>1, <1>11 DEF notifyVars, outside, tick
<1> QED
  BY <1>2, <1>3, <1>4, <1>5, <1>6, <1>7, <1>8, <1>9, <1>10, <1>11 DEF NotifyNext, Tick, People

\* For any viewers and friends every variable has its type, and a pass visits
\* nobody it did not find connected.
THEOREM NotifyTypeCorrect == NotifySpec => []NotifyTypeOK
BY NotifyInitType, NotifyNextType, PTL DEF NotifySpec

-----------------------------------------------------------------------------
\* Whoever Tick has missed goes on to show what something else wrote.
LEMMA MissedStep == NotifyTypeOK /\ RestsEmpty /\ MissedAreAdrift /\ [NotifyNext]_notifyVars => MissedAreAdrift'
<1> SUFFICES ASSUME NotifyTypeOK, RestsEmpty, MissedAreAdrift, [NotifyNext]_notifyVars PROVE MissedAreAdrift'
  OBVIOUS
<1> USE DEF NotifyTypeOK, MissedAreAdrift
<1>1. CASE TickStart
  BY <1>1 DEF TickStart, outside
<1>2. ASSUME NEW v \in Viewers, TickAsk(v) PROVE MissedAreAdrift'
  BY <1>2 DEF TickAsk, outside
<1>3. ASSUME NEW v \in Viewers, TickSend(v) PROVE MissedAreAdrift'
  <2>1. v \in present
    BY <1>3 DEF TickSend
  <2>2. \A w \in Viewers : w # v \/ w \in stale => ({w} \X Friends \subseteq adrift => {w} \X Friends \subseteq adrift')
    BY <1>3 DEF TickSend
  <2>3. UNCHANGED <<viewer, present, stale, ticking>>
    BY <1>3 DEF TickSend, outside
  <2> QED
    BY <2>1, <2>2, <2>3
<1>4. CASE TickEnd
  BY <1>4 DEF TickEnd, outside
<1>5. ASSUME NEW v \in Viewers, SignIn(v) \/ LoadList(v) PROVE MissedAreAdrift'
  <2>1. adrift' = adrift \cup ({v} \X Friends) /\ UNCHANGED <<present, stale, ticking>>
    BY <1>5 DEF SignIn, LoadList, tick
  <2>2. \A w \in Viewers \ {v} : viewer'[w] = viewer[w]
    BY <1>5 DEF SignIn, LoadList
  <2> QED
    BY <2>1, <2>2
<1>6. ASSUME NEW v \in Viewers, SignOut(v) PROVE MissedAreAdrift'
  BY <1>6 DEF SignOut
<1>7. ASSUME NEW f \in Friends, FriendArrives(f) \/ FriendLeaves(f) PROVE MissedAreAdrift'
  <2>1. adrift \subseteq adrift' /\ UNCHANGED <<viewer, present, stale, ticking>>
    BY <1>7 DEF FriendArrives, FriendLeaves, Tell, tick
  <2> QED
    BY <2>1
<1>8. ASSUME NEW f \in Friends, NEW l \in Lines \cup {Nowhere}, PlayElsewhere(f, l) PROVE MissedAreAdrift'
  BY <1>8 DEF PlayElsewhere, tick
<1>9. CASE UNCHANGED notifyVars
  BY <1>9 DEF notifyVars, outside, tick
<1> QED
  BY <1>1, <1>2, <1>3, <1>4, <1>5, <1>6, <1>7, <1>8, <1>9 DEF NotifyNext, Tick, People

\* Every step keeps what is remembered and what is shown together.
LEMMA SentStep == NotifyTypeOK /\ MissedAreAdrift /\ SentIsShown /\ [NotifyNext]_notifyVars => SentIsShown'
<1> SUFFICES ASSUME NotifyTypeOK, MissedAreAdrift, SentIsShown, [NotifyNext]_notifyVars,
                    NEW v \in Viewers, NEW f \in Friends,
                    viewer'[v] = "in", f \notin here', <<v, f>> \notin adrift'
             PROVE  shown'[v][f] = sent'[v][f]
  BY DEF SentIsShown
<1> USE DEF NotifyTypeOK
<1>1. CASE TickStart \/ \E w \in Viewers : TickAsk(w)
  BY <1>1 DEF TickStart, TickAsk, outside, SentIsShown
<1>2. ASSUME NEW w \in Viewers, TickSend(w) PROVE shown'[v][f] = sent'[v][f]
  <2>1. UNCHANGED <<viewer, here, stale>>
    BY <1>2 DEF TickSend, outside
  <2>2. CASE w # v
    <3>1. shown'[v] = shown[v] /\ sent'[v] = sent[v]
      BY <1>2, <2>2 DEF TickSend
    <3>2. <<v, f>> \notin adrift
      BY <1>2, <2>2 DEF TickSend
    <3> QED
      BY <2>1, <3>1, <3>2 DEF SentIsShown
  <2>3. CASE w = v /\ v \in stale
    <3>1. adrift' = adrift
      BY <1>2, <2>3 DEF TickSend
    <3> QED
      BY <2>1, <2>3, <3>1 DEF MissedAreAdrift
  <2>4. CASE w = v /\ v \notin stale
    <3>1. /\ shown'[v][f] = IF f \in Diff(sent[v], now) THEN now[f] ELSE shown[v][f]
          /\ sent'[v] = now
          /\ adrift' = adrift \ ({v} \X Diff(sent[v], now))
      BY <1>2, <2>4 DEF TickSend
    <3>2. CASE f \in Diff(sent[v], now)
      BY <3>1, <3>2
    <3>3. CASE f \notin Diff(sent[v], now)
      <4>1. sent[v][f] = now[f]
        BY <2>1, <3>3 DEF Diff
      <4>2. <<v, f>> \notin adrift
        BY <3>1, <3>3
      <4> QED
        BY <2>1, <3>1, <3>3, <4>1, <4>2 DEF SentIsShown
    <3> QED
      BY <3>2, <3>3
  <2> QED
    BY <2>2, <2>3, <2>4
<1>3. CASE TickEnd
  <2>1. UNCHANGED <<viewer, here, shown, adrift>> /\ ticking
    BY <1>3 DEF TickEnd, outside
  <2>2. v \in present
    BY <2>1 DEF MissedAreAdrift
  <2>3. sent'[v] = sent[v]
    BY <1>3, <2>2 DEF TickEnd
  <2> QED
    BY <2>1, <2>3 DEF SentIsShown
<1>4. ASSUME NEW w \in Viewers, SignIn(w) \/ LoadList(w) \/ SignOut(w) PROVE shown'[v][f] = sent'[v][f]
  <2>1. CASE w = v
    BY <1>4, <2>1 DEF SignIn, LoadList, SignOut
  <2>2. CASE w # v
    BY <1>4, <2>2 DEF SignIn, LoadList, SignOut, SentIsShown
  <2> QED
    BY <2>1, <2>2
<1>5. ASSUME NEW g \in Friends, FriendArrives(g) \/ FriendLeaves(g) PROVE shown'[v][f] = sent'[v][f]
  <2>1. g # f /\ <<v, f>> \notin adrift /\ f \notin here
    BY <1>5 DEF FriendArrives, FriendLeaves, Tell
  <2>2. shown'[v][f] = shown[v][f] /\ UNCHANGED <<sent, viewer>>
    BY <1>5, <2>1 DEF FriendArrives, FriendLeaves, Tell
  <2> QED
    BY <2>1, <2>2 DEF SentIsShown
<1>6. ASSUME NEW g \in Friends, NEW l \in Lines \cup {Nowhere}, PlayElsewhere(g, l) PROVE shown'[v][f] = sent'[v][f]
  BY <1>6 DEF PlayElsewhere, SentIsShown
<1>7. CASE UNCHANGED notifyVars
  BY <1>7 DEF notifyVars, outside, SentIsShown
<1> QED
  BY <1>1, <1>2, <1>3, <1>4, <1>5, <1>6, <1>7 DEF NotifyNext, Tick, People

\* What crossnotify remembers having sent is what consoles show, but for what
\* something else wrote since (crossnotify.go, Tick and Diff), however viewers
\* and friends come and go during a pass.
THEOREM SentStaysShown == NotifySpec => []SentIsShown
<1>1. NotifyInit => MissedAreAdrift /\ SentIsShown
  BY DEF NotifyInit, MissedAreAdrift, SentIsShown
<1> QED
  BY <1>1, NotifyInitType, NotifyNextType, MissedStep, SentStep, PTL DEF NotifySpec
=============================================================================
