----------------------------- MODULE CoreEvents -----------------------------
(***************************************************************************)
(* The event loop of package coreevents (coreevents/poller.go): how the    *)
(* account core's event log reaches handle(), over the stream or the poll, *)
(* through a cursor row in the database, with restarts of the process,     *)
(* broken streams, and a database that loses a write or a read.            *)
(*                                                                         *)
(* What handle() does with an event is the subject of other modules        *)
(* (ConnectedUsers for bans and deletions, FriendRequests for the friend   *)
(* events).  Here an event is its version, and the core's versions are     *)
(* numbered without gaps.                                                  *)
(*                                                                         *)
(* A failed PollEvents inside drain is retried for ever and changes        *)
(* nothing: it is a stuttering step.                                       *)
(***************************************************************************)
EXTENDS Naturals

CONSTANTS
    PageSize,      \* events in a full page (500 in the code)
    MaxHead,       \* bound: events the core ever appends
    MaxCrashes,    \* bound: restarts of the process
    NoRow,         \* there is no core_events_cursor row
    Echoed,        \* the cursor past every event an earlier build stored (2^63)
    NoHead         \* the core did not answer when asked for its head

ASSUME PageAssumption == PageSize \in Nat \ {0}
ASSUME BoundAssumption == MaxHead \in Nat /\ MaxCrashes \in Nat
ASSUME EchoedAssumption == Echoed \in Nat /\ Echoed > MaxHead
ASSUME NoValueAssumption == NoRow \notin Nat /\ NoHead \notin Nat

VARIABLES
    head,      \* the core's log: its newest version
    row,       \* core_events_cursor: NoRow, or the version it stores
    pc,        \* where the loop stands
    probe,     \* headVersion: the newest version seen so far
    known,     \* loadCursor: the head, or NoHead
    version,   \* the loop's cursor in memory
    pageEnd,   \* drain: the last version of the page being handled
    full,      \* drain: that page holds PageSize events
    legacy,    \* the core has no subscription: the poll is the transport
    sent,      \* stream: the last version the core sent on it
    base,      \* history: events up to here were passed over, not handled
    handled,   \* history: the versions handle() was called with
    repeated,  \* history: those it was called with more than once
    flaky,     \* the database may drop a write of the cursor row, or fail to
               \* read it; one that never does is a case of its own
    crashes    \* how often the process died

core   == <<head>>
loader == <<probe, known>>
pager  == <<pageEnd, full>>
ghosts == <<base, handled, repeated>>
faults == <<flaky, crashes>>
vars   == <<head, row, pc, loader, version, pager, legacy, sent, ghosts, faults>>

Places == {"probe", "read", "drain", "page", "subscribe", "stream", "event", "legacy"}

Least(a, b) == IF a < b THEN a ELSE b

\* A first start finds no row, a later one the row its predecessor left;
\* the events up to it were handled by then.
Init ==
    /\ head \in 0..MaxHead
    /\ row \in {NoRow, Echoed} \cup 0..head
    /\ base = IF row \in 0..head THEN row ELSE 0
    /\ pc = "probe"
    /\ probe = 0
    /\ known = NoHead
    /\ version = 0
    /\ pageEnd = 0
    /\ full = FALSE
    /\ legacy = FALSE
    /\ sent = 0
    /\ handled = {}
    /\ repeated = {}
    /\ flaky \in BOOLEAN
    /\ crashes = 0

-----------------------------------------------------------------------------
\* saveCursor: the error of the statement is dropped.
SaveCursor(v) == row' = v \/ (flaky /\ row' = row)

\* handle(), as far as this module goes: it was called with v.
Handle(v) ==
    /\ handled' = handled \cup {v}
    /\ repeated' = IF v \in handled THEN repeated \cup {v} ELSE repeated
    /\ UNCHANGED base

\* The cursor jumps to v: whatever was not handled up to v never will be.
PassOver(v) ==
    /\ base' = v
    /\ UNCHANGED <<handled, repeated>>

\* drain is done: back to the caller, Start's loop or its legacy wait.
AfterDrain == IF legacy THEN "legacy" ELSE "subscribe"

-----------------------------------------------------------------------------
(***************************************************************************)
(* Faulty variants of the actions below, each a slip this code could have: *)
(* the properties at the end tell them from the real ones.                 *)
(***************************************************************************)

\* The page is taken to be full, whatever the core returned.
PollPageUnclipped ==
    /\ pc = "drain"
    /\ version < head
    /\ pageEnd' = version + PageSize
    /\ full' = TRUE
    /\ pc' = "page"
    /\ UNCHANGED <<head, row, loader, version, legacy, sent, ghosts, faults>>

\* The cursor is stored when the page arrives, before it is handled.
PollPageSavesFirst ==
    /\ pc = "drain"
    /\ version < head
    /\ pageEnd' = Least(head, version + PageSize)
    /\ full' = (pageEnd' = version + PageSize)
    /\ SaveCursor(pageEnd')
    /\ pc' = "page"
    /\ UNCHANGED <<head, loader, version, legacy, sent, ghosts, faults>>

\* The cursor is stored when drain returns, not after every page.
SavePageAtEnd ==
    /\ pc = "page"
    /\ version = pageEnd
    /\ row' = IF full THEN row ELSE version
    /\ pc' = IF full THEN "drain" ELSE AfterDrain
    /\ UNCHANGED <<head, loader, version, pager, legacy, sent, ghosts, faults>>

\* The loop over a page stops one short and takes the last event for handled.
HandlePagedOneShort ==
    /\ pc = "page"
    /\ version < pageEnd
    /\ version' = version + 1
    /\ IF version' = pageEnd THEN UNCHANGED ghosts ELSE Handle(version')
    /\ UNCHANGED <<head, row, pc, loader, pager, legacy, sent, faults>>

\* The replay test is off by one and skips the first new event.
RecvReplayOffByOne ==
    /\ pc = "stream"
    /\ sent < head
    /\ sent + 1 <= version + 1
    /\ sent' = sent + 1
    /\ UNCHANGED <<head, row, pc, loader, version, pager, legacy, ghosts, faults>>

\* The stream forgets to store the cursor.
SaveEventForgotten ==
    /\ pc = "event"
    /\ pc' = "stream"
    /\ UNCHANGED <<head, row, loader, version, pager, legacy, sent, ghosts, faults>>

\* A first start keeps the head in memory and does not store it.
StartAtHeadUnsaved ==
    /\ pc = "read"
    /\ row = NoRow \/ flaky
    /\ known # NoHead
    /\ PassOver(known)
    /\ version' = known
    /\ pc' = "drain"
    /\ UNCHANGED <<head, row, loader, pager, legacy, sent, faults>>

-----------------------------------------------------------------------------
\* The core appends an event.
AppendEvent ==
    /\ head < MaxHead
    /\ head' = head + 1
    /\ UNCHANGED <<row, pc, loader, version, pager, legacy, sent, ghosts, faults>>

\* headVersion: one page.  A full page asks for the next one.
ProbePage ==
    /\ pc = "probe"
    /\ LET last == Least(head, probe + PageSize)
           isFull == last - probe = PageSize
       IN /\ probe' = last
          /\ known' = IF isFull THEN known ELSE last
          /\ pc' = IF isFull THEN "probe" ELSE "read"
    /\ UNCHANGED <<head, row, version, pager, legacy, sent, ghosts, faults>>

\* headVersion: the core does not answer.
ProbeFails ==
    /\ pc = "probe"
    /\ known' = NoHead
    /\ pc' = "read"
    /\ UNCHANGED <<head, row, probe, version, pager, legacy, sent, ghosts, faults>>

\* loadCursor with a row the core has reached, or a core that said nothing.
LoadRow ==
    /\ pc = "read"
    /\ row # NoRow
    /\ known # NoHead => row <= known
    /\ version' = row
    /\ pc' = "drain"
    /\ UNCHANGED <<head, row, loader, pager, legacy, sent, ghosts, faults>>

\* loadCursor with a row past the core's head: reset to the head.
ResetRow ==
    /\ pc = "read"
    /\ row # NoRow
    /\ known # NoHead /\ row > known
    /\ SaveCursor(known)
    /\ PassOver(known)
    /\ version' = known
    /\ pc' = "drain"
    /\ UNCHANGED <<head, loader, pager, legacy, sent, faults>>

\* loadCursor without a row, or unable to read it: start at the head.
StartAtHead ==
    /\ pc = "read"
    /\ row = NoRow \/ flaky
    /\ known # NoHead
    /\ SaveCursor(known)
    /\ PassOver(known)
    /\ version' = known
    /\ pc' = "drain"
    /\ UNCHANGED <<head, loader, pager, legacy, sent, faults>>

\* ... and with neither row nor head, start at 0.
StartAtZero ==
    /\ pc = "read"
    /\ row = NoRow \/ flaky
    /\ known = NoHead
    /\ version' = 0
    /\ pc' = "drain"
    /\ UNCHANGED <<head, row, loader, pager, legacy, sent, ghosts, faults>>

\* drain: a page of events, or an empty one (the core echoes a version past
\* its head and returns nothing).
PollPage ==
    /\ pc = "drain"
    /\ version < head
    /\ pageEnd' = Least(head, version + PageSize)
    /\ full' = (pageEnd' = version + PageSize)
    /\ pc' = "page"
    /\ UNCHANGED <<head, row, loader, version, legacy, sent, ghosts, faults>>

PollNothing ==
    /\ pc = "drain"
    /\ version >= head
    /\ pc' = AfterDrain
    /\ UNCHANGED <<head, row, loader, version, pager, legacy, sent, ghosts, faults>>

\* drain: handle the next event of the page; the cursor row waits.
HandlePaged ==
    /\ pc = "page"
    /\ version < pageEnd
    /\ version' = version + 1
    /\ Handle(version + 1)
    /\ UNCHANGED <<head, row, pc, loader, pager, legacy, sent, faults>>

\* drain: the whole page is handled, the cursor is stored once.
SavePage ==
    /\ pc = "page"
    /\ version = pageEnd
    /\ SaveCursor(version)
    /\ pc' = IF full THEN "drain" ELSE AfterDrain
    /\ UNCHANGED <<head, loader, version, pager, legacy, sent, ghosts, faults>>

\* Start: the legacy wait polls again, or its deadline has passed.
LegacyPoll ==
    /\ pc = "legacy"
    /\ pc' = "drain"
    /\ UNCHANGED <<head, row, loader, version, pager, legacy, sent, ghosts, faults>>

LegacyOver ==
    /\ pc = "legacy"
    /\ legacy' = FALSE
    /\ probe' = 0
    /\ pc' = "probe"
    /\ UNCHANGED <<head, row, known, version, pager, sent, ghosts, faults>>

\* stream: subscribed.  The core sends what follows the cursor, and may send
\* again what precedes it (at-least-once).
Subscribe ==
    /\ pc = "subscribe"
    /\ sent' \in 0..version
    /\ pc' = "stream"
    /\ UNCHANGED <<head, row, loader, version, pager, legacy, ghosts, faults>>

SubscribeUnimplemented ==
    /\ pc = "subscribe"
    /\ legacy' = TRUE
    /\ pc' = "legacy"
    /\ UNCHANGED <<head, row, loader, version, pager, sent, ghosts, faults>>

\* stream: no subscription now; wait, load the cursor and drain again.
SubscribeFails ==
    /\ pc = "subscribe"
    /\ probe' = 0
    /\ pc' = "probe"
    /\ UNCHANGED <<head, row, known, version, pager, legacy, sent, ghosts, faults>>

\* stream: an event at or before the cursor is skipped.
RecvReplay ==
    /\ pc = "stream"
    /\ sent < head
    /\ sent + 1 <= version
    /\ sent' = sent + 1
    /\ UNCHANGED <<head, row, pc, loader, version, pager, legacy, ghosts, faults>>

\* stream: a new event is handled.
RecvEvent ==
    /\ pc = "stream"
    /\ sent < head
    /\ sent + 1 > version
    /\ sent' = sent + 1
    /\ Handle(sent + 1)
    /\ version' = sent + 1
    /\ pc' = "event"
    /\ UNCHANGED <<head, row, loader, pager, legacy, faults>>

\* stream: ... and the cursor stored behind it.
SaveEvent ==
    /\ pc = "event"
    /\ SaveCursor(version)
    /\ pc' = "stream"
    /\ UNCHANGED <<head, loader, version, pager, legacy, sent, ghosts, faults>>

\* stream: Recv reports that the connection broke.
StreamBreaks ==
    /\ pc = "stream"
    /\ probe' = 0
    /\ pc' = "probe"
    /\ UNCHANGED <<head, row, known, version, pager, legacy, sent, ghosts, faults>>

\* The process dies anywhere and starts over; only the row survives.
Crash ==
    /\ crashes < MaxCrashes
    /\ crashes' = crashes + 1
    /\ pc' = "probe"
    /\ probe' = 0
    /\ known' = NoHead
    /\ version' = 0
    /\ pageEnd' = 0
    /\ full' = FALSE
    /\ legacy' = FALSE
    /\ sent' = 0
    /\ UNCHANGED <<head, row, ghosts, flaky>>

-----------------------------------------------------------------------------
Load == ProbePage \/ ProbeFails \/ LoadRow \/ ResetRow \/ StartAtHead \/ StartAtZero
Drain == PollPage \/ PollNothing \/ HandlePaged \/ SavePage
Stream ==
    \/ Subscribe \/ SubscribeUnimplemented \/ SubscribeFails
    \/ RecvReplay \/ RecvEvent \/ SaveEvent \/ StreamBreaks
Loop == Load \/ Drain \/ LegacyPoll \/ LegacyOver \/ Stream

Next == AppendEvent \/ Loop \/ Crash

Spec == Init /\ [][Next]_vars

\* The loop is one goroutine that never returns: whenever it can take a step
\* it takes one.  Nothing is assumed of the core, the database or the restarts.
FairSpec == Spec /\ WF_vars(Loop)

-----------------------------------------------------------------------------
\* The cursor row is a version, not missing and not the echoed one.
Stored == row \notin {NoRow, Echoed}

TypeOK ==
    /\ head \in 0..MaxHead
    /\ row \in {NoRow, Echoed} \cup 0..head
    /\ pc \in Places
    /\ probe \in 0..head
    /\ known \in {NoHead} \cup 0..head
    /\ version \in {Echoed} \cup 0..head
    /\ pageEnd \in 0..head
    /\ full \in BOOLEAN
    /\ legacy \in BOOLEAN
    /\ sent \in 0..Echoed
    /\ base \in 0..head
    /\ handled \in SUBSET (1..head)
    /\ repeated \in SUBSET handled
    /\ flaky \in BOOLEAN
    /\ crashes \in 0..MaxCrashes

\* No event is lost behind the cursor: whatever the stored cursor has passed
\* was handed to handle(), apart from what a reset of the cursor passed over.
\* (coreevents/poller.go: saveCursor only ever follows handle.)
CursorBehindHandled == Stored => \A v \in 1..row : v > base => v \in handled

\* A restart replays at most one page: what was handled is at most PageSize
\* ahead of the cursor the next process will load.  (drain stores the cursor
\* once per page, stream after every event.)
ReplayBounded ==
    ~flaky =>
        \A v \in handled : v <= (IF Stored THEN row ELSE base) + PageSize

\* Until the process dies every event is handled once, whatever the streams,
\* the replays the core sends, the fallbacks and the reloads of the cursor do.
OnceWithoutCrash ==
    ~flaky /\ crashes = 0 => repeated = {}

\* Every event the core appends is handled some day, or was passed over by a
\* reset of the cursor; a cursor no version can reach is what resets are for.
EventuallyHandled ==
    \A v \in 1..MaxHead :
        (v <= head /\ row # Echoed) ~> (v \in handled \/ v <= base)

\* When the core falls silent the stored cursor reaches its head, so that the
\* next start replays nothing; with a database that stores it.
CursorCatchesUp == (head = MaxHead /\ row # Echoed /\ ~flaky) ~> row = MaxHead

\* The loop implements in-order, at-least-once delivery from the first stored
\* cursor on, when the database does what it is asked; nothing is claimed of
\* the delivery over a flaky one.
Reliably(x, otherwise) == IF flaky THEN otherwise ELSE x
Delivery == INSTANCE EventDelivery WITH
    head <- Reliably(head, 0), base <- Reliably(base, 0),
    delivered <- Reliably(handled, {}), started <- Reliably(Stored, FALSE)
ImplementsDelivery == Delivery!Spec

-----------------------------------------------------------------------------
(***************************************************************************)
(* The strengthening that makes CursorBehindHandled inductive.             *)
(***************************************************************************)
Running == {"drain", "page", "subscribe", "stream", "event", "legacy"}

\* The cursor in memory is behind what was handled, as the stored one is.
VersionBehindHandled ==
    pc \in Running /\ version # Echoed =>
        \A v \in 1..version : v > base => v \in handled

\* The head that was asked for is not behind the cursor row or the base.
HeadIsCurrent ==
    pc = "read" /\ known # NoHead => base <= known /\ (Stored => row <= known)

\* The stream never runs ahead of the cursor; an event just handled is it.
StreamInStep ==
    /\ pc \in {"stream", "event"} => sent <= version
    /\ pc = "event" => version \in 1..head
    /\ pc = "page" => version <= pageEnd

\* No event is lost, in the form that every step preserves.
NothingLost ==
    /\ TypeOK
    /\ CursorBehindHandled
    /\ VersionBehindHandled
    /\ HeadIsCurrent
    /\ StreamInStep

\* What the next start finds, if the core does not answer: the cursor row, or 0.
Loaded == IF row = NoRow THEN 0 ELSE row

\* With a database that does what it is asked, the loop is where the cursor row
\* is, or in the page or event that follows it; what was handled is not past
\* that page.
WithinPage ==
    ~flaky =>
        /\ row \in {NoRow, Echoed} => base = 0
        /\ row = Echoed => handled = {} /\ pc \notin {"page", "event"}
        /\ pc \in {"drain", "subscribe", "stream", "legacy"} => version = Loaded
        /\ pc \in {"page", "event"} => version \in Loaded..(Loaded + PageSize)
        /\ pc = "page" => pageEnd <= Loaded + PageSize
        /\ pc = "read" /\ known # NoHead => \A v \in handled : v <= known
        /\ \A v \in handled : v <= Loaded + PageSize

\* ... and until the first restart nothing past the loop's cursor was handled.
NotYetHandled ==
    ~flaky /\ crashes = 0 =>
        /\ repeated = {}
        /\ \A v \in handled : v <= (IF pc \in Running THEN version ELSE Loaded)
=============================================================================
