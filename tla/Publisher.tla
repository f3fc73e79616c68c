------------------------------ MODULE Publisher ------------------------------
(***************************************************************************)
(* Package crosspresence: the publisher keeps one session in the account   *)
(* core for everybody connected here (Reconcile, every ReconcileEvery) and *)
(* ends it when they leave (Disconnected, a goroutine per disconnection).  *)
(*                                                                         *)
(* A session lives in the core on a lease that only a heartbeat renews.    *)
(* Any call to the core may fail, with or without having had its effect.   *)
(* The snapshot of who is connected is taken before the publisher's mutex, *)
(* so people come, go and change what they play between the two.           *)
(*                                                                         *)
(* One unit of time is ReconcileEvery (15 s).  What a person shows stands  *)
(* for namespace, title, client and OS: the publisher compares all four.   *)
(*                                                                         *)
(* Start's loop also runs the notifier (tick), which asks the core about   *)
(* one viewer after the other.  Nothing limits it: it may take more than a *)
(* period, and the ticker drops what the loop is not there to receive.     *)
(***************************************************************************)
EXTENDS Naturals

CONSTANTS
    PIDs,       \* people
    Shows,      \* what a connected person can show
    Off,        \* ... and what one who is not connected shows
    Sids,       \* bound: the core's sessions at one time
    Free,       \* a session id not in use
    Nothing,    \* no session published for a person
    Lease,      \* units a session lives without a heartbeat (45 s: 3)
    MaxFails,   \* bound: calls to the core that fail, and passes not made
    Patience    \* bound: how far the histories count

ASSUME LeaseAssumption == Lease \in Nat \ {0}
ASSUME BoundAssumption == MaxFails \in Nat /\ Patience \in Nat
ASSUME NoneAssumption ==
    /\ Off \notin Shows /\ Nothing \notin Sids
    /\ Free \notin Sids \cup [pid : PIDs, show : Shows, left : Nat]

VARIABLES
    online,    \* ConnectedUsers: what each person shows, or Off
    live,      \* Publisher.live: the session published for a person
    core,      \* the core's sessions
    pc,        \* Start's loop: "idle", "snapshot" taken, "locked", or "ticking"
    due,       \* the ticker has fired
    snap,      \* the snapshot Reconcile was called with
    todo,      \* people Reconcile has yet to look at
    expiring,  \* people whose Disconnected goroutine is running
    fails,     \* calls that failed so far
    steady,    \* history: published as they are, and nothing changed since
    lost,      \* history: passes in a row that did not publish a person
    away       \* history: units since a person left

people    == <<online, expiring>>
published == <<live, core>>
pass      == <<pc, due, snap, todo>>
vars == <<people, published, pass, fails, steady, lost, away>>

NobodyShows == [p \in PIDs |-> Off]
SessionOf(p, s, n) == [pid |-> p, show |-> s, left |-> n]
Sessions == [pid : PIDs, show : Shows, left : 1..Lease]

Init ==
    /\ online = NobodyShows
    /\ live = [p \in PIDs |-> Nothing]
    /\ core = [s \in Sids |-> Free]
    /\ pc = "idle"
    /\ due = FALSE
    /\ snap = NobodyShows
    /\ todo = {}
    /\ expiring = {}
    /\ fails = 0
    /\ steady = {}
    /\ lost = [p \in PIDs |-> 0]
    /\ away = [p \in PIDs |-> Patience]

-----------------------------------------------------------------------------
\* n calls to the core fail.
Fail(n) == fails + n <= MaxFails /\ fails' = fails + n

\* The histories of a person after a pass published them, or could not.
Succeeds(p) ==
    /\ steady' = IF snap[p] = online[p] THEN steady \cup {p} ELSE steady
    /\ lost' = [lost EXCEPT ![p] = 0]
Loses(p) ==
    /\ lost' = [lost EXCEPT ![p] = IF @ < Patience THEN @ + 1 ELSE @]
    /\ UNCHANGED steady

Unpublish(p) == live' = [live EXCEPT ![p] = Nothing]
Publish(p, sid) == live' = [live EXCEPT ![p] = [sid |-> sid, show |-> snap[p]]]

\* A session id the core gives out is new: nobody refers to it.
NewSids(c) == {sid \in Sids : c[sid] = Free /\ \A p \in PIDs : live[p] # Nothing => live[p].sid # sid}

\* The core's sessions c with the one of live[p] ended.
WithoutSession(p, c) == [c EXCEPT ![live[p].sid] = Free]

\* ... and with it renewed by a heartbeat.
Renewed(p) == [core EXCEPT ![live[p].sid].left = Lease]

\* Faulty (see below): keeps what RegisterSession returned beside an error.
RegisterLockedKeepsError(p, c, n) ==
    \/ /\ Fail(n)
       /\ \E sid \in NewSids(c) :
            /\ core' = [c EXCEPT ![sid] = SessionOf(p, snap[p], Lease)]
            /\ Publish(p, sid)
       /\ Succeeds(p)
    \/ /\ Fail(n + 1)
       /\ core' = c
       /\ Publish(p, Nothing)
       /\ Loses(p)

\* registerLocked, with the core's sessions c so far and n calls failed:
\* registered; or no account, or an error; or registered and the answer lost.
RegisterLocked(p, c, n) ==
    \/ /\ Fail(n)
       /\ \E sid \in NewSids(c) :
            /\ core' = [c EXCEPT ![sid] = SessionOf(p, snap[p], Lease)]
            /\ Publish(p, sid)
       /\ Succeeds(p)
    \/ /\ Fail(n + 1)
       /\ core' = c \/ \E sid \in NewSids(c) : core' = [c EXCEPT ![sid] = SessionOf(p, snap[p], Lease)]
       /\ Unpublish(p)
       /\ Loses(p)

-----------------------------------------------------------------------------
\* Reconcile looks at the people of the snapshot first, then at those it has a
\* session of and the snapshot has not.
Visited(p) ==
    /\ pc = "locked" /\ p \in todo
    /\ snap[p] = Off => \A q \in todo : snap[q] = Off
    /\ todo' = todo \ {p}
    /\ UNCHANGED <<people, pc, due, snap, away>>

-----------------------------------------------------------------------------
(***************************************************************************)
(* Faulty variants of the definitions around them, each a slip this code   *)
(* could have: the properties at the end tell them from the real ones.     *)
(***************************************************************************)

\* Whoever has a session is renewed, connected or not.
VisitGoneRenews(p) ==
    /\ Visited(p)
    /\ snap[p] = Off /\ live[p] # Nothing
    /\ core' = [core EXCEPT ![live[p].sid] = IF @ = Free THEN Free ELSE [@ EXCEPT !.left = Lease]]
    /\ UNCHANGED <<live, fails, steady, lost>>

\* Compares the person, not what they show.
HeartbeatWhatever(p) ==
    /\ Visited(p)
    /\ snap[p] # Off /\ live[p] # Nothing
    /\ core[live[p].sid] # Free
    /\ core' = Renewed(p)
    /\ Succeeds(p)
    /\ UNCHANGED <<live, fails>>

\* Shows something else under the session there is, which the heartbeat
\* cannot carry.
VisitChangedLocally(p) ==
    /\ Visited(p)
    /\ snap[p] # Off /\ live[p] # Nothing /\ live[p].show # snap[p]
    /\ Publish(p, live[p].sid)
    /\ Succeeds(p)
    /\ UNCHANGED <<core, fails>>

\* Ends the session a heartbeat failed for.
HeartbeatLostExpires(p) ==
    /\ Visited(p)
    /\ snap[p] # Off /\ live[p] # Nothing /\ live[p].show = snap[p]
    /\ RegisterLocked(p, WithoutSession(p, core), IF core[live[p].sid] = Free THEN 0 ELSE 1)

-----------------------------------------------------------------------------
\* Reconcile, nobody: neither connected nor published.
VisitNobody(p) ==
    /\ Visited(p)
    /\ snap[p] = Off /\ live[p] = Nothing
    /\ UNCHANGED <<published, fails, steady, lost>>

\* expireLocked: the session is forgotten here, and ended in the core unless
\* that call fails.
ExpireLocked(p) ==
    /\ Unpublish(p)
    /\ \/ core' = WithoutSession(p, core) /\ Fail(0)
       \/ core' = core /\ Fail(1)

\* Reconcile: published but not in the snapshot.
VisitGone(p) ==
    /\ Visited(p)
    /\ snap[p] = Off /\ live[p] # Nothing
    /\ ExpireLocked(p)
    /\ UNCHANGED <<steady, lost>>

\* Reconcile: the heartbeat of an unchanged person succeeds.
Heartbeat(p) ==
    /\ Visited(p)
    /\ snap[p] # Off /\ live[p] # Nothing /\ live[p].show = snap[p]
    /\ core[live[p].sid] # Free
    /\ core' = Renewed(p)
    /\ Succeeds(p)
    /\ UNCHANGED <<live, fails>>

\* ... or fails, because the session is gone or the call was lost, before or
\* after it had its effect: register again.
HeartbeatLost(p) ==
    /\ Visited(p)
    /\ snap[p] # Off /\ live[p] # Nothing /\ live[p].show = snap[p]
    /\ IF core[live[p].sid] = Free THEN RegisterLocked(p, core, 0)
       ELSE \E c \in {core, Renewed(p)} : RegisterLocked(p, c, 1)

\* Reconcile: somebody new, or not published by the last pass.
VisitNew(p) ==
    /\ Visited(p)
    /\ snap[p] # Off /\ live[p] = Nothing
    /\ RegisterLocked(p, core, 0)

\* Reconcile: somebody who shows something else now.
VisitChanged(p) ==
    /\ Visited(p)
    /\ snap[p] # Off /\ live[p] # Nothing /\ live[p].show # snap[p]
    /\ \/ RegisterLocked(p, WithoutSession(p, core), 0)
       \/ RegisterLocked(p, core, 1)

Visit(p) ==
    \/ VisitNobody(p) \/ VisitGone(p) \/ Heartbeat(p)
    \/ HeartbeatLost(p) \/ VisitNew(p) \/ VisitChanged(p)

\* Start's loop: Connected() is the snapshot, ...
TakeSnapshot ==
    /\ pc = "idle" /\ due
    /\ snap' = online
    /\ pc' = "snapshot"
    /\ UNCHANGED <<people, published, due, todo, fails, steady, lost, away>>

\* ... then Reconcile takes the mutex ...
Lock ==
    /\ pc = "snapshot"
    /\ todo' = PIDs
    /\ pc' = "locked"
    /\ UNCHANGED <<people, published, due, snap, fails, steady, lost, away>>

\* ... and returns, and the notifier runs ...
Unlock ==
    /\ pc = "locked" /\ todo = {}
    /\ pc' = "ticking"
    /\ due' = FALSE
    /\ UNCHANGED <<people, published, snap, todo, fails, steady, lost, away>>

\* ... to its end.
TickReturns ==
    /\ pc = "ticking"
    /\ pc' = "idle"
    /\ UNCHANGED <<people, published, due, snap, todo, fails, steady, lost, away>>

\* A person connects, or shows something else.
Appear(p, s) ==
    /\ online[p] # s
    /\ online' = [online EXCEPT ![p] = s]
    /\ steady' = steady \ {p}
    /\ lost' = [lost EXCEPT ![p] = 0]
    /\ away' = [away EXCEPT ![p] = 0]
    /\ UNCHANGED <<expiring, published, pass, fails>>

\* A person's connection ended: OnConnectionEnded calls Disconnected.
Leave(p) ==
    /\ online[p] # Off
    /\ online' = [online EXCEPT ![p] = Off]
    /\ expiring' = expiring \cup {p}
    /\ steady' = steady \ {p}
    /\ lost' = [lost EXCEPT ![p] = 0]
    /\ UNCHANGED <<published, pass, fails, away>>

\* Disconnected's goroutine gets the mutex.
Expire(p) ==
    /\ p \in expiring
    /\ pc # "locked"
    /\ expiring' = expiring \ {p}
    /\ IF live[p] = Nothing THEN UNCHANGED <<published, fails>> ELSE ExpireLocked(p)
    /\ steady' = steady \ {p}
    /\ UNCHANGED <<online, pass, lost, away>>

\* The notifier goes on for another period: the ticker has fired before and
\* keeps one firing only, so that a pass is not made.
Dropped ==
    /\ pc = "ticking" /\ due /\ Fail(1)
    /\ lost' = [p \in PIDs |-> IF lost[p] < Patience THEN lost[p] + 1 ELSE lost[p]]

\* A unit of time goes by.  A pass is over before the next one is due.
TimePasses ==
    /\ \/ pc \in {"idle", "ticking"} /\ ~due /\ UNCHANGED <<fails, lost>>
       \/ Dropped
    /\ due' = TRUE
    /\ core' = [s \in Sids |->
            IF core[s] = Free \/ core[s].left = 1 THEN Free ELSE [core[s] EXCEPT !.left = @ - 1]]
    /\ away' = [p \in PIDs |-> IF online[p] = Off /\ away[p] < Patience THEN away[p] + 1 ELSE away[p]]
    /\ UNCHANGED <<people, live, pc, snap, todo, steady>>

\* The core restarts and has forgotten every session.
CoreRestart ==
    /\ Fail(1)
    /\ core' = [s \in Sids |-> Free]
    /\ steady' = {}
    /\ UNCHANGED <<people, live, pass, lost, away>>

-----------------------------------------------------------------------------
Loop == TakeSnapshot \/ Lock \/ Unlock \/ TickReturns \/ \E p \in PIDs : Visit(p)

Next ==
    \/ Loop
    \/ \E p \in PIDs : (\E s \in Shows : Appear(p, s)) \/ Leave(p) \/ Expire(p)
    \/ TimePasses
    \/ CoreRestart

Spec == Init /\ [][Next]_vars

\* Time passes, the loop goes on, and a goroutine waiting for the mutex gets
\* it once the loop leaves it often enough (sync.Mutex starves nobody).
FairSpec ==
    /\ Spec
    /\ WF_vars(Loop)
    /\ WF_vars(TimePasses)
    /\ \A p \in PIDs : SF_vars(Expire(p))

-----------------------------------------------------------------------------
TypeOK ==
    /\ online \in [PIDs -> Shows \cup {Off}]
    /\ live \in [PIDs -> [sid : Sids, show : Shows] \cup {Nothing}]
    /\ core \in [Sids -> Sessions \cup {Free}]
    /\ pc \in {"idle", "snapshot", "locked", "ticking"}
    /\ due \in BOOLEAN
    /\ snap \in [PIDs -> Shows \cup {Off}]
    /\ todo \in SUBSET PIDs
    /\ expiring \in SUBSET PIDs
    /\ fails \in 0..MaxFails
    /\ steady \in SUBSET PIDs
    /\ lost \in [PIDs -> 0..Patience]
    /\ away \in [PIDs -> 0..Patience]

\* The core shows p as showing s.
Shown(p, s) == \E sid \in Sids : core[sid] # Free /\ core[sid].pid = p /\ core[sid].show = s

\* A published session is its person's own, and nobody else's: a heartbeat or
\* an expiry never hits another person's session.
OwnSessions ==
    \A p \in PIDs : live[p] # Nothing =>
        /\ core[live[p].sid] # Free =>
               core[live[p].sid].pid = p /\ core[live[p].sid].show = live[p].show
        /\ \A q \in PIDs \ {p} : live[q] # Nothing => live[q].sid # live[p].sid

\* crosspresence/publisher.go: "one lost heartbeat is not somebody blinking
\* offline".  Somebody published who goes on showing the same stays shown when
\* one pass fails to reach the core, registration included, or is not made
\* because the notifier took two periods.
OneLossDoesNotBlink ==
    \A p \in steady : lost[p] <= 1 => Shown(p, online[p])

\* Nobody is shown for ever after leaving: the longest is a pass that began
\* before they left, its successor's failed expiry, and the lease.
GoneInTime ==
    \A p \in PIDs : online[p] = Off /\ away[p] >= Lease => \A s \in Shows : ~Shown(p, s)

\* In the end the core shows what a person shows, and nothing else of them.
ShownAsTheyAre ==
    \A p \in PIDs : \A s \in Shows :
        <>[](online[p] = s) => <>[](Shown(p, s) /\ \A t \in Shows \ {s} : ~Shown(p, t))
=============================================================================
