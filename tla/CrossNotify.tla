----------------------------- MODULE CrossNotify -----------------------------
(***************************************************************************)
(* Package crossnotify: after every publisher pass, Tick tells each        *)
(* connected viewer what changed about the friends who are live on another *)
(* platform, by comparing what the core says now with what it sent last.   *)
(*                                                                         *)
(* A console's view of a friend has other sources too: the friend list it  *)
(* loads after signing in (UpdateAndGetAllInformation, GetFriendPresence)  *)
(* and what the friend's own connection here announces (SendPresenceUpdate *)
(* and SendUserWentOfflineGlobally).  They write the view, not `sent'.     *)
(***************************************************************************)
EXTENDS Naturals

CONSTANTS
    Viewers, Friends,
    Lines,       \* what a friend live on another platform is shown with
    Nowhere,     \* a friend who is not live: the empty line
    Local,       \* a friend shown with the presence of a connection here
    MaxMisses,   \* bound: lookups in the core that fail
    MaxVisits    \* bound: how often viewers and friends connect here

ASSUME VisitAssumption == MaxMisses \in Nat /\ MaxVisits \in Nat
ASSUME LineAssumption == Nowhere \notin Lines /\ Local \notin Lines /\ Local # Nowhere

VARIABLES
    viewer,   \* "out", "registered" (in ConnectedUsers), or "in" (list loaded)
    place,    \* the line the core has for a friend, or Nowhere
    here,     \* friends connected here
    shown,    \* what a viewer's console shows of a friend
    sent,     \* crossnotify.sent: the line last sent; no entry is Nowhere
    queue,    \* Tick: viewers it has yet to visit
    present,  \* Tick: viewers it found connected
    stale,    \* Tick: those who left since, whose connection it still holds
    asked,    \* Tick: the viewer the core was asked about, as a set
    now,      \* Tick: what the core said
    ticking,  \* Tick is running
    misses, visits,
    adrift    \* history: views another source wrote after Tick's last word

outside    == <<viewer, place, here>>
tick       == <<queue, present, stale, asked, now, ticking>>
notifyVars == <<outside, shown, sent, tick, misses, visits, adrift>>

Nobody == [f \in Friends |-> Nowhere]

NotifyInit ==
    /\ viewer = [v \in Viewers |-> "out"]
    /\ place \in [Friends -> Lines \cup {Nowhere}]
    /\ here = {}
    /\ shown = [v \in Viewers |-> Nobody]
    /\ sent = [v \in Viewers |-> Nobody]
    /\ queue = {} /\ present = {} /\ stale = {} /\ asked = {}
    /\ now = Nobody
    /\ ticking = FALSE
    /\ misses = 0 /\ visits = 0
    /\ adrift = {}

-----------------------------------------------------------------------------
\* crosspresence.ForeignFriends: friends connected here are left to their own
\* presence; a core that cannot answer means nobody.
ForeignFriends == [f \in Friends |-> IF f \in here THEN Nowhere ELSE place[f]]

Answer(reply) ==
    \/ reply = ForeignFriends /\ UNCHANGED misses
    \/ reply = Nobody /\ misses < MaxMisses /\ misses' = misses + 1

\* Faulty (see below): never sends a friend offline.
DiffOnlyLive(prev, new) == {f \in Friends : prev[f] # new[f] /\ new[f] # Nowhere}

\* crossnotify.Diff: the friends whose line a viewer must be told.  One who is
\* connected here by now is not sent offline.
Diff(prev, new) == {f \in Friends : prev[f] # new[f] /\ (new[f] = Nowhere => f \notin here)}

-----------------------------------------------------------------------------
(***************************************************************************)
(* Faulty variants of the definitions around them, each a slip this code   *)
(* could have: the properties at the end tell them from the real ones.     *)
(***************************************************************************)

\* Remembers only what changed.
TickSendRemembersChanges(v) ==
    /\ v \in asked
    /\ LET told == Diff(sent[v], now) IN
        /\ shown' = IF v \in stale THEN shown
                    ELSE [shown EXCEPT ![v] = [f \in Friends |-> IF f \in told THEN now[f] ELSE @[f]]]
        /\ sent' = [sent EXCEPT ![v] = [f \in Friends |-> IF f \in told THEN now[f] ELSE Nowhere]]
        /\ adrift' = IF v \in stale THEN adrift ELSE adrift \ ({v} \X told)
    /\ asked' = {}
    /\ UNCHANGED <<outside, queue, present, stale, now, ticking, misses, visits>>

\* Comes back to a viewer in the same pass.
TickAskAgain(v) ==
    /\ asked = {} /\ v \in queue
    /\ asked' = {v}
    /\ now' \in {ForeignFriends, Nobody}
    /\ Answer(now')
    /\ UNCHANGED <<outside, queue, shown, sent, present, stale, ticking, visits, adrift>>

\* Forgets whoever it found, not whoever is gone.
TickEndForgetsPresent ==
    /\ ticking /\ queue = {} /\ asked = {}
    /\ ticking' = FALSE
    /\ sent' = [v \in Viewers |-> IF v \in present THEN Nobody ELSE sent[v]]
    /\ UNCHANGED <<outside, shown, queue, present, stale, asked, now, misses, visits, adrift>>

-----------------------------------------------------------------------------
\* RegisterEx puts the viewer in ConnectedUsers.
SignIn(v) ==
    /\ viewer[v] = "out" /\ visits < MaxVisits
    /\ visits' = visits + 1
    /\ viewer' = [viewer EXCEPT ![v] = "registered"]
    /\ shown' = [shown EXCEPT ![v] = Nobody]
    /\ adrift' = adrift \cup ({v} \X Friends)
    /\ UNCHANGED <<place, here, sent, tick, misses>>

\* The viewer loads the friend list, with the foreign presences in it.
LoadList(v) ==
    /\ viewer[v] = "registered"
    /\ viewer' = [viewer EXCEPT ![v] = "in"]
    /\ \E reply \in {ForeignFriends, Nobody} :
        /\ Answer(reply)
        /\ shown' = [shown EXCEPT ![v] = [f \in Friends |-> IF f \in here THEN Local ELSE reply[f]]]
    /\ adrift' = adrift \cup ({v} \X Friends)
    /\ UNCHANGED <<place, here, sent, tick, visits>>

\* The viewer's connection ends.
SignOut(v) ==
    /\ viewer[v] # "out"
    /\ viewer' = [viewer EXCEPT ![v] = "out"]
    /\ stale' = IF ticking THEN stale \cup {v} ELSE stale
    /\ UNCHANGED <<place, here, shown, sent, queue, present, asked, now, ticking, misses, visits, adrift>>

\* A friend comes online here, or leaves: connected viewers are told at once.
Tell(f, what) ==
    /\ shown' = [v \in Viewers |-> IF viewer[v] = "out" THEN shown[v] ELSE [shown[v] EXCEPT ![f] = what]]
    /\ adrift' = adrift \cup (Viewers \X {f})

FriendArrives(f) ==
    /\ f \notin here /\ visits < MaxVisits
    /\ visits' = visits + 1
    /\ here' = here \cup {f}
    /\ Tell(f, Local)
    /\ UNCHANGED <<viewer, place, sent, tick, misses>>

FriendLeaves(f) ==
    /\ f \in here
    /\ here' = here \ {f}
    /\ Tell(f, Nowhere)
    /\ UNCHANGED <<viewer, place, sent, tick, misses, visits>>

\* A friend starts, changes or stops what they do on another platform.
PlayElsewhere(f, l) ==
    /\ place[f] # l
    /\ place' = [place EXCEPT ![f] = l]
    /\ UNCHANGED <<viewer, here, shown, sent, tick, misses, visits, adrift>>

\* Tick: the viewers connected now, with their connections.
TickStart ==
    /\ ~ticking
    /\ ticking' = TRUE
    /\ present' = {v \in Viewers : viewer[v] # "out"}
    /\ queue' = present'
    /\ stale' = {}
    /\ UNCHANGED <<outside, shown, sent, asked, now, misses, visits, adrift>>

\* Tick: what the core says of one viewer's friends.
TickAsk(v) ==
    /\ asked = {} /\ v \in queue
    /\ queue' = queue \ {v}
    /\ asked' = {v}
    /\ now' \in {ForeignFriends, Nobody}
    /\ Answer(now')
    /\ UNCHANGED <<outside, shown, sent, present, stale, ticking, visits, adrift>>

\* Tick: the changes are sent to the connection found at the start; `sent'
\* takes all the core said.
TickSend(v) ==
    /\ v \in asked
    /\ LET told == Diff(sent[v], now) IN
        /\ shown' = IF v \in stale THEN shown
                    ELSE [shown EXCEPT ![v] = [f \in Friends |-> IF f \in told THEN now[f] ELSE @[f]]]
        /\ adrift' = IF v \in stale THEN adrift ELSE adrift \ ({v} \X told)
    /\ sent' = [sent EXCEPT ![v] = now]
    /\ asked' = {}
    /\ UNCHANGED <<outside, queue, present, stale, now, ticking, misses, visits>>

\* Tick: nothing is kept of viewers who were not there.
TickEnd ==
    /\ ticking /\ queue = {} /\ asked = {}
    /\ ticking' = FALSE
    /\ sent' = [v \in Viewers |-> IF v \in present THEN sent[v] ELSE Nobody]
    /\ UNCHANGED <<outside, shown, queue, present, stale, asked, now, misses, visits, adrift>>

-----------------------------------------------------------------------------
Tick == TickStart \/ (\E v \in Viewers : TickAsk(v) \/ TickSend(v)) \/ TickEnd

People ==
    \/ \E v \in Viewers : SignIn(v) \/ LoadList(v) \/ SignOut(v)
    \/ \E f \in Friends : FriendArrives(f) \/ FriendLeaves(f)
    \/ \E f \in Friends : \E l \in Lines \cup {Nowhere} : PlayElsewhere(f, l)

NotifyNext == Tick \/ People

NotifySpec == NotifyInit /\ [][NotifyNext]_notifyVars

\* Tick runs after every pass of the publisher's loop, for ever.
FairNotifySpec == NotifySpec /\ WF_notifyVars(Tick)

-----------------------------------------------------------------------------
NotifyTypeOK ==
    /\ viewer \in [Viewers -> {"out", "registered", "in"}]
    /\ place \in [Friends -> Lines \cup {Nowhere}]
    /\ here \in SUBSET Friends
    /\ shown \in [Viewers -> [Friends -> Lines \cup {Nowhere, Local}]]
    /\ sent \in [Viewers -> [Friends -> Lines \cup {Nowhere}]]
    /\ present \in SUBSET Viewers /\ stale \in SUBSET Viewers
    /\ queue \subseteq present /\ asked \subseteq present \ queue
    /\ now \in [Friends -> Lines \cup {Nowhere}]
    /\ ticking \in BOOLEAN
    /\ misses \in 0..MaxMisses /\ visits \in 0..MaxVisits
    /\ adrift \in SUBSET (Viewers \X Friends)

\* What Tick remembers having sent is what the console shows, whatever came
\* between: lost answers, viewers who left during the pass and whose old
\* connection was written to, friends whose line changed twice.  Only the view
\* of a friend connected here, or one something else wrote since, may differ.
SentIsShown ==
    \A v \in Viewers : \A f \in Friends :
        (viewer[v] = "in" /\ f \notin here /\ <<v, f>> \notin adrift) => shown[v][f] = sent[v][f]

\* v stays signed in and f stays at l on another platform.
Settled(v, f, l) == viewer[v] = "in" /\ f \notin here /\ place[f] = l

\* A viewer is brought up to date about a friend on another platform, as long
\* as nothing but Tick has the last word on that friend.
UpToDateByTick ==
    \A v \in Viewers : \A f \in Friends : \A l \in Lines \cup {Nowhere} :
        <>[](Settled(v, f, l) /\ <<v, f>> \notin adrift) => <>[](shown[v][f] = l)
=============================================================================
