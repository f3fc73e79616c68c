--------------------------- MODULE DeliveryProofs ---------------------------
(***************************************************************************)
(* What happened reaches those it is for: proofs about CoreEvents, through *)
(* which the core's events reach their handlers, for every page size, log  *)
(* length, number of restarts and choice of database; and about Presence,  *)
(* through which friends see what a person announced and that the person   *)
(* has left, for any people, titles, calls, goroutines and connections.    *)
(***************************************************************************)
EXTENDS CoreEvents, Presence, SequenceTheorems, TLAPS


ConstantAssumptions ==
    /\ PageSize \in Nat \ {0}
    /\ MaxHead \in Nat /\ MaxCrashes \in Nat
    /\ Echoed \in Nat /\ Echoed > MaxHead
    /\ NoRow \notin Nat /\ NoHead \notin Nat

\* The assumptions of CoreEvents as one fact to cite.
LEMMA Constants == ConstantAssumptions
BY PageAssumption, BoundAssumption, EchoedAssumption, NoValueAssumption
   DEF ConstantAssumptions

-----------------------------------------------------------------------------
\* The loop starts with every variable in its range.
LEMMA TypeInit == Init => TypeOK
<1> SUFFICES ASSUME Init PROVE TypeOK
  OBVIOUS
<1>1. full \in BOOLEAN /\ legacy \in BOOLEAN /\ flaky \in BOOLEAN
  BY Zenon DEF Init
<1> QED
  BY <1>1, Constants DEF Init, TypeOK, Places, ConstantAssumptions

\* Every step keeps every variable in its range.
LEMMA TypeStep == TypeOK /\ [Next]_vars => TypeOK'
<1> SUFFICES ASSUME TypeOK, [Next]_vars PROVE TypeOK'
  OBVIOUS
<1> USE Constants DEF TypeOK, ConstantAssumptions, Places, faults
<1>1. CASE AppendEvent
  BY <1>1 DEF AppendEvent, loader, pager, ghosts
<1>2. CASE Load
  <2>1. CASE ProbePage
    BY <2>1 DEF ProbePage, Least, pager, ghosts
  <2>2. CASE ProbeFails
    BY <2>2 DEF ProbeFails, pager, ghosts
  <2>3. CASE LoadRow
    BY <2>3 DEF LoadRow, loader, pager, ghosts
  <2>4. CASE ResetRow
    BY <2>4 DEF ResetRow, SaveCursor, PassOver, loader, pager
  <2>5. CASE StartAtHead
    BY <2>5 DEF StartAtHead, SaveCursor, PassOver, loader, pager
  <2>6. CASE StartAtZero
    BY <2>6 DEF StartAtZero, loader, pager, ghosts
  <2> QED
    BY <1>2, <2>1, <2>2, <2>3, <2>4, <2>5, <2>6 DEF Load
<1>3. CASE Drain
  <2>1. CASE PollPage
    BY <2>1 DEF PollPage, Least, loader, ghosts
  <2>2. CASE PollNothing
    BY <2>2 DEF PollNothing, AfterDrain, loader, pager, ghosts
  <2>3. CASE HandlePaged
    BY <2>3 DEF HandlePaged, Handle, loader, pager
  <2>4. CASE SavePage
    BY <2>4 DEF SavePage, SaveCursor, AfterDrain, loader, pager, ghosts
  <2> QED
    BY <1>3, <2>1, <2>2, <2>3, <2>4 DEF Drain
<1>4. CASE LegacyPoll
  BY <1>4 DEF LegacyPoll, loader, pager, ghosts
<1>5. CASE LegacyOver
  <2>1. legacy' \in BOOLEAN
    BY <1>5, Zenon DEF LegacyOver
  <2> QED
    BY <1>5, <2>1 DEF LegacyOver, pager, ghosts
<1>6. CASE Stream
  <2>1. CASE Subscribe
    BY <2>1 DEF Subscribe, loader, pager, ghosts
  <2>2. CASE SubscribeUnimplemented
    BY <2>2 DEF SubscribeUnimplemented, loader, pager, ghosts
  <2>3. CASE SubscribeFails
    BY <2>3 DEF SubscribeFails, pager, ghosts
  <2>4. CASE RecvReplay
    BY <2>4 DEF RecvReplay, loader, pager, ghosts
  <2>5. CASE RecvEvent
    BY <2>5 DEF RecvEvent, Handle, loader, pager
  <2>6. CASE SaveEvent
    BY <2>6 DEF SaveEvent, SaveCursor, loader, pager, ghosts
  <2>7. CASE StreamBreaks
    BY <2>7 DEF StreamBreaks, pager, ghosts
  <2> QED
    BY <1>6, <2>1, <2>2, <2>3, <2>4, <2>5, <2>6, <2>7 DEF Stream
<1>7. CASE Crash
  <2>1. full' \in BOOLEAN /\ legacy' \in BOOLEAN
    BY <1>7, Zenon DEF Crash
  <2> QED
    BY <1>7, <2>1 DEF Crash, ghosts
<1>8. CASE UNCHANGED vars
  BY <1>8 DEF vars, loader, pager, ghosts
<1> QED
  BY <1>1, <1>2, <1>3, <1>4, <1>5, <1>6, <1>7, <1>8 DEF Next, Loop

\* The loop keeps every variable in its range: in particular no cursor, in
\* memory or stored, is past the core's head except the echoed one
\* (coreevents/poller.go, Start and all it calls).
THEOREM TypeCorrect == Spec => []TypeOK
BY TypeInit, TypeStep, PTL DEF Spec

-----------------------------------------------------------------------------
\* At the start the cursor has passed nothing beyond the base.
LEMMA NothingLostInit == Init => NothingLost
<1> SUFFICES ASSUME Init, TypeOK PROVE NothingLost
  BY TypeInit
<1>1. CursorBehindHandled
  <2> SUFFICES ASSUME Stored, NEW v \in 1..row, v > base PROVE FALSE
    BY DEF CursorBehindHandled
  <2>1. row \in 0..head
    BY DEF Stored, TypeOK
  <2> QED
    BY <2>1, Constants DEF Init, TypeOK, ConstantAssumptions
<1>2. VersionBehindHandled /\ HeadIsCurrent /\ StreamInStep
  BY DEF Init, VersionBehindHandled, HeadIsCurrent, StreamInStep, Running
<1> QED
  BY <1>1, <1>2 DEF NothingLost

\* Storing a cursor v that is behind what was handled keeps the row behind it.
LEMMA SaveKeepsCursorBehind ==
    ASSUME NEW v, SaveCursor(v),
           Stored => \A w \in 1..row : w > base' => w \in handled',
           v # Echoed => \A w \in 1..v : w > base' => w \in handled'
    PROVE  CursorBehindHandled'
<1>1. CASE row' = v
  BY <1>1 DEF CursorBehindHandled, Stored
<1>2. CASE row' = row
  BY <1>2 DEF CursorBehindHandled, Stored
<1> QED
  BY <1>1, <1>2 DEF SaveCursor

\* A reset passes over everything up to the new cursor.
LEMMA PassOverKeepsCursorBehind ==
    ASSUME TypeOK, HeadIsCurrent, pc = "read", known # NoHead,
           SaveCursor(known), PassOver(known), version' = known, pc' = "drain"
    PROVE  CursorBehindHandled' /\ VersionBehindHandled'
<1>1. known \in Nat /\ base' = known
  BY Constants DEF TypeOK, PassOver, ConstantAssumptions
<1>2. \A w \in 1..known : ~(w > base')
  BY <1>1
<1>3. Stored => \A w \in 1..row : ~(w > base')
  <2> SUFFICES ASSUME Stored, NEW w \in 1..row PROVE ~(w > base')
    OBVIOUS
  <2>1. row \in Nat /\ row <= known
    BY Constants DEF HeadIsCurrent, Stored, TypeOK, ConstantAssumptions
  <2> QED
    BY <1>1, <2>1
<1>4. CursorBehindHandled'
  BY <1>2, <1>3, SaveKeepsCursorBehind
<1>5. VersionBehindHandled'
  BY <1>2 DEF VersionBehindHandled
<1> QED
  BY <1>4, <1>5

\* Every step keeps the handled events ahead of the cursors.
LEMMA NothingLostStep == NothingLost /\ [Next]_vars => NothingLost'
<1> SUFFICES ASSUME NothingLost, [Next]_vars, TypeOK' PROVE NothingLost'
  BY TypeStep DEF NothingLost
<1> USE DEF NothingLost
<1>1. CASE AppendEvent
  BY <1>1, Constants DEF AppendEvent, loader, pager, ghosts, CursorBehindHandled, VersionBehindHandled,
     HeadIsCurrent, StreamInStep, Running, Stored, TypeOK, ConstantAssumptions
<1>2. CASE Load
  <2>1. CASE ProbePage
    <3>1. CursorBehindHandled' /\ VersionBehindHandled' /\ StreamInStep'
      BY <2>1 DEF ProbePage, pager, ghosts, CursorBehindHandled, VersionBehindHandled, StreamInStep,
         Running, Stored
    <3>2. HeadIsCurrent'
      <4> SUFFICES ASSUME pc' = "read" PROVE base <= known' /\ (Stored => row <= known')
        BY <2>1 DEF ProbePage, ghosts, HeadIsCurrent, Stored
      <4>1. known' = head
        BY <2>1, Constants DEF ProbePage, Least, TypeOK, ConstantAssumptions
      <4> QED
        BY <4>1, Constants DEF TypeOK, Stored, ConstantAssumptions
    <3> QED
      BY <3>1, <3>2
  <2>2. CASE ProbeFails
    BY <2>2 DEF ProbeFails, pager, ghosts, CursorBehindHandled, VersionBehindHandled, HeadIsCurrent,
       StreamInStep, Running, Stored
  <2>3. CASE LoadRow
    <3>1. VersionBehindHandled'
      BY <2>3 DEF LoadRow, ghosts, CursorBehindHandled, VersionBehindHandled, Stored
    <3> QED
      BY <2>3, <3>1 DEF LoadRow, loader, pager, ghosts, CursorBehindHandled, HeadIsCurrent, StreamInStep,
         Running, Stored
  <2>4. CASE ResetRow
    <3>1. CursorBehindHandled' /\ VersionBehindHandled'
      BY <2>4, PassOverKeepsCursorBehind DEF ResetRow
    <3> QED
      BY <2>4, <3>1 DEF ResetRow, HeadIsCurrent, StreamInStep
  <2>5. CASE StartAtHead
    <3>1. CursorBehindHandled' /\ VersionBehindHandled'
      BY <2>5, PassOverKeepsCursorBehind DEF StartAtHead
    <3> QED
      BY <2>5, <3>1 DEF StartAtHead, HeadIsCurrent, StreamInStep
  <2>6. CASE StartAtZero
    BY <2>6 DEF StartAtZero, loader, pager, ghosts, CursorBehindHandled, VersionBehindHandled,
       HeadIsCurrent, StreamInStep, Running, Stored
  <2> QED
    BY <1>2, <2>1, <2>2, <2>3, <2>4, <2>5, <2>6 DEF Load
<1>3. CASE Drain
  <2>1. CASE PollPage
    <3>1. version <= pageEnd'
      BY <2>1, Constants DEF PollPage, Least, TypeOK, ConstantAssumptions
    <3> QED
      BY <2>1, <3>1 DEF PollPage, loader, ghosts, CursorBehindHandled, VersionBehindHandled,
         HeadIsCurrent, StreamInStep, Running, Stored
  <2>2. CASE PollNothing
    BY <2>2 DEF PollNothing, AfterDrain, loader, pager, ghosts, CursorBehindHandled,
       VersionBehindHandled, HeadIsCurrent, StreamInStep, Running, Stored
  <2>3. CASE HandlePaged
    <3>1. version \in Nat /\ version # Echoed /\ version + 1 <= pageEnd
      BY <2>3, Constants DEF HandlePaged, TypeOK, ConstantAssumptions
    <3>2. VersionBehindHandled'
      BY <2>3, <3>1 DEF HandlePaged, Handle, VersionBehindHandled, Running
    <3>3. CursorBehindHandled'
      BY <2>3 DEF HandlePaged, Handle, CursorBehindHandled, Stored
    <3>4. HeadIsCurrent' /\ StreamInStep'
      BY <2>3, <3>1 DEF HandlePaged, HeadIsCurrent, StreamInStep, pager
    <3> QED
      BY <3>2, <3>3, <3>4
  <2>4. CASE SavePage
    <3>1. CursorBehindHandled'
      BY <2>4, SaveKeepsCursorBehind DEF SavePage, ghosts, CursorBehindHandled, VersionBehindHandled,
         Running
    <3>2. VersionBehindHandled'
      BY <2>4 DEF SavePage, ghosts, VersionBehindHandled, Running
    <3> QED
      BY <2>4, <3>1, <3>2 DEF SavePage, AfterDrain, HeadIsCurrent, StreamInStep
  <2> QED
    BY <1>3, <2>1, <2>2, <2>3, <2>4 DEF Drain
<1>4. CASE LegacyPoll
  BY <1>4 DEF LegacyPoll, loader, pager, ghosts, CursorBehindHandled, VersionBehindHandled,
     HeadIsCurrent, StreamInStep, Running, Stored
<1>5. CASE LegacyOver
  BY <1>5 DEF LegacyOver, pager, ghosts, CursorBehindHandled, VersionBehindHandled, HeadIsCurrent,
     StreamInStep, Running, Stored
<1>6. CASE Stream
  <2>1. CASE Subscribe
    <3>1. sent' <= version'
      BY <2>1, Constants DEF Subscribe, TypeOK, ConstantAssumptions
    <3> QED
      BY <2>1, <3>1 DEF Subscribe, loader, pager, ghosts, CursorBehindHandled, VersionBehindHandled,
         HeadIsCurrent, StreamInStep, Running, Stored
  <2>2. CASE SubscribeUnimplemented
    BY <2>2 DEF SubscribeUnimplemented, loader, pager, ghosts, CursorBehindHandled,
       VersionBehindHandled, HeadIsCurrent, StreamInStep, Running, Stored
  <2>3. CASE SubscribeFails
    BY <2>3 DEF SubscribeFails, pager, ghosts, CursorBehindHandled, VersionBehindHandled,
       HeadIsCurrent, StreamInStep, Running, Stored
  <2>4. CASE RecvReplay
    BY <2>4 DEF RecvReplay, loader, pager, ghosts, CursorBehindHandled, VersionBehindHandled,
       HeadIsCurrent, StreamInStep, Running, Stored
  <2>5. CASE RecvEvent
    <3>1. sent = version /\ version \in 0..head /\ version # Echoed
      BY <2>5, Constants DEF RecvEvent, StreamInStep, TypeOK, ConstantAssumptions
    <3>2. VersionBehindHandled'
      BY <2>5, <3>1 DEF RecvEvent, Handle, VersionBehindHandled, Running
    <3>3. CursorBehindHandled'
      BY <2>5 DEF RecvEvent, Handle, CursorBehindHandled, Stored
    <3>4. StreamInStep'
      BY <2>5, <3>1, Constants DEF RecvEvent, StreamInStep, TypeOK, ConstantAssumptions
    <3> QED
      BY <2>5, <3>2, <3>3, <3>4 DEF RecvEvent, HeadIsCurrent
  <2>6. CASE SaveEvent
    <3>1. CursorBehindHandled'
      BY <2>6, SaveKeepsCursorBehind DEF SaveEvent, ghosts, CursorBehindHandled, VersionBehindHandled,
         Running
    <3>2. VersionBehindHandled'
      BY <2>6 DEF SaveEvent, ghosts, VersionBehindHandled, Running
    <3> QED
      BY <2>6, <3>1, <3>2 DEF SaveEvent, HeadIsCurrent, StreamInStep
  <2>7. CASE StreamBreaks
    BY <2>7 DEF StreamBreaks, pager, ghosts, CursorBehindHandled, VersionBehindHandled,
       HeadIsCurrent, StreamInStep, Running, Stored
  <2> QED
    BY <1>6, <2>1, <2>2, <2>3, <2>4, <2>5, <2>6, <2>7 DEF Stream
<1>7. CASE Crash
  BY <1>7 DEF Crash, ghosts, CursorBehindHandled, VersionBehindHandled, HeadIsCurrent, StreamInStep,
     Running, Stored
<1>8. CASE UNCHANGED vars
  BY <1>8 DEF vars, loader, pager, ghosts, CursorBehindHandled, VersionBehindHandled, HeadIsCurrent,
     StreamInStep, Running, Stored
<1> QED
  BY <1>1, <1>2, <1>3, <1>4, <1>5, <1>6, <1>7, <1>8 DEF Next, Loop

\* No event is lost behind the stored cursor, whatever crashes, breaks or is
\* not stored (coreevents/poller.go: handle first, saveCursor after).
THEOREM CursorNeverAhead == Spec => []CursorBehindHandled
<1>1. NothingLost => CursorBehindHandled
  BY DEF NothingLost
<1> QED
  BY <1>1, NothingLostInit, NothingLostStep, PTL DEF Spec

-----------------------------------------------------------------------------
\* A first state of the loop is a first state of the delivery it implements.
LEMMA DeliveryInit == Init => Delivery!Init
<1> SUFFICES ASSUME Init, TypeOK PROVE Delivery!Init
  BY TypeInit
<1>1. head \in Nat /\ base \in 0..head /\ handled = {}
  BY Constants DEF Init, TypeOK, ConstantAssumptions
<1>2. Stored \in BOOLEAN
  BY Zenon DEF Stored
<1>3. CASE flaky
  <2>1. /\ Reliably(head, 0) = 0 /\ Reliably(base, 0) = 0
        /\ Reliably(handled, {}) = {} /\ Reliably(Stored, FALSE) = FALSE
    BY <1>3, Zenon DEF Reliably
  <2>2. 0 \in Nat /\ 0 \in 0..0
    OBVIOUS
  <2> QED
    BY <2>1, <2>2, Zenon DEF Delivery!Init
<1>4. CASE ~flaky
  BY <1>1, <1>2, <1>4, Zenon DEF Delivery!Init, Reliably
<1> QED
  BY <1>3, <1>4

\* A reset happens before there is a stored cursor, and picks a start.
LEMMA ResetIsStart ==
    ASSUME ~flaky, ~flaky', NothingLost, ~Stored, pc = "read", known # NoHead, PassOver(known), UNCHANGED head
    PROVE  Delivery!Next
<1>1. known \in base..head
  BY Constants DEF NothingLost, HeadIsCurrent, TypeOK, ConstantAssumptions
<1>2. Stored' \in BOOLEAN
  BY Zenon DEF Stored
<1>3. Delivery!StartAt(known)
  BY <1>1, <1>2 DEF Delivery!StartAt, PassOver, Reliably
<1> QED
  BY <1>1, <1>3 DEF Delivery!Next, Reliably

\* handle() is called with the version that follows everything handled.
LEMMA HandleIsDeliver ==
    ASSUME ~flaky, ~flaky', NEW v \in 1..head, Handle(v), UNCHANGED <<head, row>>,
           \A w \in 1..(v - 1) : w > base => w \in handled
    PROVE  Delivery!Next
<1>1. Delivery!Deliver(v)
  BY DEF Handle, Delivery!Deliver, Stored, Reliably
<1> QED
  BY <1>1 DEF Delivery!Next, Reliably

\* Storing a real version is the first commit, or changes nothing.
LEMMA SaveIsCommit ==
    ASSUME ~flaky, ~flaky', NEW v \in Nat, v # Echoed, row' = v, UNCHANGED <<head, base, handled>>
    PROVE  Delivery!Next \/ UNCHANGED <<head, base, handled, Stored>>
<1>1. Stored'
  BY Constants DEF Stored, ConstantAssumptions
<1>2. CASE Stored
  BY <1>1, <1>2
<1>3. CASE ~Stored
  BY <1>1, <1>3 DEF Delivery!Next, Delivery!Commit, Reliably
<1> QED
  BY <1>2, <1>3

\* Every step of the loop delivers the next event, picks the start, commits,
\* or is invisible to the delivery.
LEMMA DeliveryStep ==
    ASSUME ~flaky, ~flaky', NothingLost, [Next]_vars
    PROVE  Delivery!Next \/ UNCHANGED <<head, base, handled, Stored>>
<1>1. CASE AppendEvent
  BY <1>1 DEF AppendEvent, ghosts, Stored, Delivery!Next, Delivery!Append, Reliably
<1>2. CASE Load
  <2>1. CASE ProbePage \/ ProbeFails \/ LoadRow \/ StartAtZero
    BY <2>1 DEF ProbePage, ProbeFails, LoadRow, StartAtZero, ghosts, Stored
  <2>2. CASE ResetRow
    <3>1. ~Stored
      BY <2>2, Constants DEF ResetRow, NothingLost, HeadIsCurrent, Stored, TypeOK, ConstantAssumptions
    <3> QED
      BY <2>2, <3>1, ResetIsStart DEF ResetRow
  <2>3. CASE StartAtHead
    BY <2>3, ResetIsStart DEF StartAtHead, Stored
  <2> QED
    BY <1>2, <2>1, <2>2, <2>3 DEF Load
<1>3. CASE Drain
  <2>1. CASE PollPage \/ PollNothing
    BY <2>1 DEF PollPage, PollNothing, ghosts, Stored
  <2>2. CASE HandlePaged
    <3>1. version \in Nat /\ version # Echoed /\ version + 1 \in 1..head /\ (version + 1) - 1 = version
      BY <2>2, Constants DEF HandlePaged, NothingLost, TypeOK, ConstantAssumptions
    <3>2. \A w \in 1..((version + 1) - 1) : w > base => w \in handled
      BY <2>2, <3>1 DEF HandlePaged, NothingLost, VersionBehindHandled, Running
    <3> QED
      BY <2>2, <3>1, <3>2, HandleIsDeliver DEF HandlePaged
  <2>3. CASE SavePage
    <3>1. version \in Nat /\ version # Echoed
      BY <2>3, Constants DEF SavePage, NothingLost, TypeOK, ConstantAssumptions
    <3>2. row' = version /\ UNCHANGED <<head, base, handled>>
      BY <2>3 DEF SavePage, SaveCursor, ghosts
    <3> QED
      BY <3>1, <3>2, SaveIsCommit
  <2> QED
    BY <1>3, <2>1, <2>2, <2>3 DEF Drain
<1>4. CASE LegacyPoll \/ LegacyOver
  BY <1>4 DEF LegacyPoll, LegacyOver, ghosts, Stored
<1>5. CASE Stream
  <2>1. CASE Subscribe \/ SubscribeUnimplemented \/ SubscribeFails \/ RecvReplay \/ StreamBreaks
    BY <2>1 DEF Subscribe, SubscribeUnimplemented, SubscribeFails, RecvReplay, StreamBreaks, ghosts,
       Stored
  <2>2. CASE RecvEvent
    <3>1. /\ sent = version /\ version \in Nat /\ version # Echoed
          /\ sent + 1 \in 1..head /\ (sent + 1) - 1 = version
      BY <2>2, Constants DEF RecvEvent, NothingLost, StreamInStep, TypeOK, ConstantAssumptions
    <3>2. \A w \in 1..((sent + 1) - 1) : w > base => w \in handled
      BY <2>2, <3>1 DEF RecvEvent, NothingLost, VersionBehindHandled, Running
    <3> QED
      BY <2>2, <3>1, <3>2, HandleIsDeliver DEF RecvEvent
  <2>3. CASE SaveEvent
    <3>1. version \in Nat /\ version # Echoed
      BY <2>3, Constants DEF SaveEvent, NothingLost, StreamInStep, TypeOK, ConstantAssumptions
    <3>2. row' = version /\ UNCHANGED <<head, base, handled>>
      BY <2>3 DEF SaveEvent, SaveCursor, ghosts
    <3> QED
      BY <3>1, <3>2, SaveIsCommit
  <2> QED
    BY <1>5, <2>1, <2>2, <2>3 DEF Stream
<1>6. CASE Crash
  BY <1>6 DEF Crash, ghosts, Stored
<1>7. CASE UNCHANGED vars
  BY <1>7 DEF vars, ghosts, Stored
<1> QED
  BY <1>1, <1>2, <1>3, <1>4, <1>5, <1>6, <1>7 DEF Next, Loop

\* Which database there is never changes.
LEMMA SameDatabase == [Next]_vars => flaky' = flaky
BY DEF Next, Loop, Load, Drain, Stream, AppendEvent, ProbePage, ProbeFails, LoadRow, ResetRow,
   StartAtHead, StartAtZero, PollPage, PollNothing, HandlePaged, SavePage, LegacyPoll, LegacyOver,
   Subscribe, SubscribeUnimplemented, SubscribeFails, RecvReplay, RecvEvent, SaveEvent,
   StreamBreaks, Crash, vars, faults

\* The loop implements in-order, at-least-once delivery with nothing passed
\* over once a cursor is stored, as long as the database stores and returns
\* the cursor: restarts and broken streams alone never lose an event.
THEOREM DeliveryImplemented == Spec => ImplementsDelivery
<1>1. NothingLost /\ [Next]_vars => [Delivery!Next]_(Delivery!vars)
  <2> SUFFICES ASSUME NothingLost, [Next]_vars PROVE [Delivery!Next]_(Delivery!vars)
    OBVIOUS
  <2>1. CASE flaky
    BY <2>1, SameDatabase DEF Delivery!vars, Reliably
  <2>2. CASE ~flaky
    <3>1. ~flaky'
      BY <2>2, SameDatabase
    <3>2. CASE Delivery!Next
      BY <3>2
    <3>3. CASE UNCHANGED <<head, base, handled, Stored>>
      BY <2>2, <3>1, <3>3, Zenon DEF Delivery!vars, Reliably
    <3> QED
      BY <2>2, <3>1, <3>2, <3>3, DeliveryStep
  <2> QED
    BY <2>1, <2>2
<1>2. Spec => []NothingLost
  BY NothingLostInit, NothingLostStep, PTL DEF Spec
<1> QED
  BY <1>1, <1>2, DeliveryInit, PTL DEF Spec, ImplementsDelivery, Delivery!Spec

-----------------------------------------------------------------------------
\* Before anything is handled nothing is handled ahead, or twice.
LEMMA WithinInit == Init => WithinPage /\ NotYetHandled
<1> SUFFICES ASSUME Init, TypeOK PROVE WithinPage /\ NotYetHandled
  BY TypeInit
<1>1. row \in {NoRow, Echoed} => base = 0
  BY Constants DEF Init, TypeOK, ConstantAssumptions
<1> QED
  BY <1>1 DEF Init, WithinPage, NotYetHandled

\* With a working database the cursor row is what the loop stores.
LEMMA LoadedType == TypeOK => Loaded \in Nat /\ (row # Echoed => Loaded <= head)
BY Constants DEF TypeOK, Loaded, ConstantAssumptions

\* Storing a version of the log, when what was handled is not a page past it.
LEMMA SaveWithin ==
    ASSUME TypeOK, NEW v \in 0..head, row' = v
    PROVE  Loaded' = v /\ row' \notin {NoRow, Echoed}
BY Constants DEF TypeOK, Loaded, ConstantAssumptions

\* A reset starts at a head that everything handled is behind.
LEMMA PassOverWithin ==
    ASSUME TypeOK, WithinPage, NotYetHandled, ~flaky, UNCHANGED faults,
           pc = "read", known # NoHead, SaveCursor(known), PassOver(known), version' = known, pc' = "drain"
    PROVE  WithinPage' /\ NotYetHandled'
<1>1. known \in 0..head
  BY DEF TypeOK
<1>2. row' = known /\ Loaded' = known /\ row' \notin {NoRow, Echoed}
  BY <1>1, SaveWithin DEF SaveCursor
<1>3. handled' = handled /\ repeated' = repeated /\ flaky' = flaky /\ crashes' = crashes
  BY DEF PassOver, faults
<1>4. \A v \in handled : v \in Nat /\ v <= known
  BY DEF WithinPage, TypeOK
<1>5. \A v \in handled : v <= known + PageSize
  BY <1>1, <1>4, Constants DEF TypeOK, ConstantAssumptions
<1>6. WithinPage'
  BY <1>2, <1>3, <1>5 DEF WithinPage
<1>7. NotYetHandled'
  BY <1>3, <1>4 DEF NotYetHandled, Running
<1> QED
  BY <1>6, <1>7

\* The event that follows the loop's cursor is handled.
LEMMA HandleWithin ==
    ASSUME TypeOK, WithinPage, NotYetHandled, ~flaky, UNCHANGED <<row, faults>>,
           version \in 0..head, pc \in {"page", "stream"},
           version' = version + 1, Handle(version + 1), pc' \in {"page", "event"}, row # Echoed,
           version + 1 <= Loaded + PageSize, Loaded <= version,
           pc' = "page" => pageEnd' <= Loaded + PageSize
    PROVE  WithinPage' /\ NotYetHandled'
<1>1. /\ Loaded' = Loaded /\ Loaded \in Nat /\ PageSize \in Nat /\ version \in Nat
      /\ flaky' = flaky /\ crashes' = crashes /\ base' = base
  BY LoadedType, Constants DEF Loaded, faults, Handle, TypeOK, ConstantAssumptions
<1>2. handled' = handled \cup {version + 1}
  BY DEF Handle
<1>3. \A v \in handled' : v <= Loaded + PageSize
  BY <1>2 DEF WithinPage
<1>4. version' \in Loaded..(Loaded + PageSize)
  BY <1>1
<1>5. WithinPage'
  BY <1>1, <1>3, <1>4 DEF WithinPage
<1>6. ASSUME crashes = 0
      PROVE  repeated' = {} /\ \A v \in handled' : v <= version'
  <2>1. repeated = {} /\ \A v \in handled : v \in Nat /\ v <= version
    BY <1>6 DEF NotYetHandled, Running, TypeOK
  <2>2. version + 1 \notin handled
    BY <1>1, <2>1
  <2> QED
    BY <1>1, <1>2, <2>1, <2>2 DEF Handle
<1>7. NotYetHandled'
  BY <1>1, <1>6 DEF NotYetHandled, Running
<1> QED
  BY <1>5, <1>7

\* The cursor is stored where the loop is.
LEMMA CommitWithin ==
    ASSUME TypeOK, WithinPage, NotYetHandled, ~flaky, UNCHANGED <<ghosts, faults, version>>,
           version \in 0..head, pc \in {"page", "event"}, SaveCursor(version),
           pc' \in {"drain", "subscribe", "stream", "legacy"}
    PROVE  WithinPage' /\ NotYetHandled'
<1>1. row' = version /\ Loaded' = version /\ row' \notin {NoRow, Echoed}
  BY SaveWithin DEF SaveCursor
<1>2. /\ handled' = handled /\ repeated' = repeated /\ flaky' = flaky /\ crashes' = crashes
  BY DEF ghosts, faults
<1>3. Loaded <= version /\ Loaded \in Nat /\ PageSize \in Nat /\ version \in Nat
  BY LoadedType, Constants DEF WithinPage, TypeOK, ConstantAssumptions
<1>4. \A v \in handled : v <= version + PageSize
  <2> SUFFICES ASSUME NEW v \in handled PROVE v <= version + PageSize
    OBVIOUS
  <2>1. v \in Nat /\ v <= Loaded + PageSize
    BY DEF WithinPage, TypeOK
  <2> QED
    BY <1>3, <2>1
<1>5. WithinPage'
  BY <1>1, <1>2, <1>4 DEF WithinPage
<1>6. NotYetHandled'
  BY <1>2 DEF NotYetHandled, Running
<1> QED
  BY <1>5, <1>6

\* Every step of the loop stays within a page of the stored cursor.
LEMMA WithinStep ==
    ASSUME NothingLost, WithinPage, NotYetHandled, [Next]_vars
    PROVE  WithinPage' /\ NotYetHandled'
<1>1. CASE flaky'
  BY <1>1 DEF WithinPage, NotYetHandled
<1> SUFFICES ASSUME ~flaky' PROVE WithinPage' /\ NotYetHandled'
  BY <1>1
<1>2. ~flaky
  <2>1. flaky' = flaky
    BY DEF Next, Loop, Load, Drain, Stream, AppendEvent, ProbePage, ProbeFails, LoadRow, ResetRow,
       StartAtHead, StartAtZero, PollPage, PollNothing, HandlePaged, SavePage, LegacyPoll, LegacyOver,
       Subscribe, SubscribeUnimplemented, SubscribeFails, RecvReplay, RecvEvent, SaveEvent,
       StreamBreaks, Crash, vars, faults
  <2> QED
    BY <2>1
<1>3. TypeOK /\ StreamInStep /\ Loaded \in Nat
  BY LoadedType DEF NothingLost
<1>4. \A v \in handled : v \in 1..head
  BY <1>3 DEF TypeOK
<1>5. CASE AppendEvent
  BY <1>2, <1>5 DEF AppendEvent, loader, pager, ghosts, faults, WithinPage, NotYetHandled, Loaded, Running
<1>6. CASE Load
  <2>1. CASE ProbePage
    <3>1. pc' = "read" => \A v \in handled : v <= known'
      BY <1>3, <1>4, <2>1, Constants DEF ProbePage, Least, TypeOK, ConstantAssumptions
    <3> QED
      BY <1>2, <2>1, <3>1 DEF ProbePage, pager, ghosts, faults, WithinPage, NotYetHandled, Loaded, Running
  <2>2. CASE ProbeFails
    BY <1>2, <2>2 DEF ProbeFails, pager, ghosts, faults, WithinPage, NotYetHandled, Loaded, Running
  <2>3. CASE LoadRow
    BY <1>2, <2>3 DEF LoadRow, loader, pager, ghosts, faults, WithinPage, NotYetHandled, Loaded, Running
  <2>4. CASE ResetRow
    BY <1>2, <1>3, <2>4, PassOverWithin DEF ResetRow
  <2>5. CASE StartAtHead
    BY <1>2, <1>3, <2>5, PassOverWithin DEF StartAtHead
  <2>6. CASE StartAtZero
    BY <1>2, <2>6 DEF StartAtZero, loader, pager, ghosts, faults, WithinPage, NotYetHandled, Loaded, Running
  <2> QED
    BY <1>6, <2>1, <2>2, <2>3, <2>4, <2>5, <2>6 DEF Load
<1>7. CASE Drain
  <2>1. CASE PollPage
    <3>1. version = Loaded /\ version \in 0..head /\ row # Echoed
      BY <1>2, <1>3, <2>1, Constants DEF PollPage, WithinPage, Loaded, TypeOK, ConstantAssumptions
    <3>2. Loaded' = Loaded /\ pageEnd' <= Loaded + PageSize /\ version \in Loaded..(Loaded + PageSize)
      BY <1>3, <2>1, <3>1, Constants DEF PollPage, Least, Loaded, TypeOK, ConstantAssumptions
    <3> QED
      BY <1>2, <2>1, <3>1, <3>2 DEF PollPage, loader, ghosts, faults, WithinPage, NotYetHandled, Running
  <2>2. CASE PollNothing
    BY <1>2, <2>2 DEF PollNothing, AfterDrain, loader, pager, ghosts, faults, WithinPage, NotYetHandled,
       Loaded, Running
  <2>3. CASE HandlePaged
    <3>1. version \in 0..head /\ row # Echoed /\ version \in Loaded..(Loaded + PageSize)
      BY <1>2, <1>3, <2>3, Constants DEF HandlePaged, WithinPage, TypeOK, ConstantAssumptions
    <3>2. version + 1 <= Loaded + PageSize /\ Loaded <= version /\ pageEnd <= Loaded + PageSize
      <4>1. pageEnd <= Loaded + PageSize /\ pageEnd \in Nat /\ version + 1 <= pageEnd
        BY <1>2, <1>3, <2>3, <3>1, Constants DEF HandlePaged, WithinPage, TypeOK, ConstantAssumptions
      <4> QED
        BY <1>3, <3>1, <4>1, Constants DEF ConstantAssumptions
    <3> QED
      BY <1>2, <1>3, <2>3, <3>1, <3>2, HandleWithin DEF HandlePaged, pager
  <2>4. CASE SavePage
    <3>1. version \in 0..head
      BY <1>3, <2>4, Constants DEF SavePage, TypeOK, ConstantAssumptions
    <3> QED
      BY <1>2, <1>3, <2>4, <3>1, CommitWithin DEF SavePage, AfterDrain
  <2> QED
    BY <1>7, <2>1, <2>2, <2>3, <2>4 DEF Drain
<1>8. CASE LegacyPoll
  BY <1>2, <1>8 DEF LegacyPoll, loader, pager, ghosts, faults, WithinPage, NotYetHandled, Loaded, Running
<1>9. CASE LegacyOver
  BY <1>2, <1>9 DEF LegacyOver, pager, ghosts, faults, WithinPage, NotYetHandled, Loaded, Running
<1>10. CASE Stream
  <2>1. CASE Subscribe
    BY <1>2, <2>1 DEF Subscribe, loader, pager, ghosts, faults, WithinPage, NotYetHandled, Loaded, Running
  <2>2. CASE SubscribeUnimplemented
    BY <1>2, <2>2 DEF SubscribeUnimplemented, loader, pager, ghosts, faults, WithinPage, NotYetHandled,
       Loaded, Running
  <2>3. CASE SubscribeFails
    BY <1>2, <2>3 DEF SubscribeFails, pager, ghosts, faults, WithinPage, NotYetHandled, Loaded, Running
  <2>4. CASE RecvReplay
    BY <1>2, <2>4 DEF RecvReplay, loader, pager, ghosts, faults, WithinPage, NotYetHandled, Loaded, Running
  <2>5. CASE RecvEvent
    <3>1. sent = version /\ version \in 0..head /\ version # Echoed
      BY <1>3, <2>5, Constants DEF RecvEvent, StreamInStep, TypeOK, ConstantAssumptions
    <3>2. version = Loaded /\ row # Echoed
      BY <1>2, <2>5, <3>1, Constants DEF RecvEvent, WithinPage, Loaded, ConstantAssumptions
    <3>3. version + 1 <= Loaded + PageSize /\ Loaded <= version
      BY <1>3, <3>2, Constants DEF ConstantAssumptions
    <3> QED
      BY <1>2, <1>3, <2>5, <3>1, <3>2, <3>3, HandleWithin DEF RecvEvent
  <2>6. CASE SaveEvent
    <3>1. version \in 0..head
      BY <1>3, <2>6 DEF SaveEvent, StreamInStep
    <3> QED
      BY <1>2, <1>3, <2>6, <3>1, CommitWithin DEF SaveEvent
  <2>7. CASE StreamBreaks
    BY <1>2, <2>7 DEF StreamBreaks, pager, ghosts, faults, WithinPage, NotYetHandled, Loaded, Running
  <2> QED
    BY <1>10, <2>1, <2>2, <2>3, <2>4, <2>5, <2>6, <2>7 DEF Stream
<1>11. CASE Crash
  <2>1. crashes' # 0
    BY <1>3, <1>11, Constants DEF Crash, TypeOK, ConstantAssumptions
  <2> QED
    BY <1>2, <1>11, <2>1 DEF Crash, ghosts, WithinPage, NotYetHandled, Loaded
<1>12. CASE UNCHANGED vars
  BY <1>12 DEF vars, loader, pager, ghosts, faults, WithinPage, NotYetHandled, Loaded, Running
<1> QED
  BY <1>5, <1>6, <1>7, <1>8, <1>9, <1>10, <1>11, <1>12 DEF Next, Loop

\* A restart handles at most one page again, for every page size and log, and
\* however often the process dies (coreevents/poller.go: drain stores the cursor
\* once per page, stream after every event).
THEOREM ReplayIsBounded == Spec => []ReplayBounded
<1>1. TypeOK /\ WithinPage => ReplayBounded
  BY DEF WithinPage, ReplayBounded, Loaded, Stored
<1>2. NothingLost => TypeOK
  BY DEF NothingLost
<1> QED
  BY <1>1, <1>2, NothingLostInit, NothingLostStep, WithinInit, WithinStep, PTL DEF Spec

\* Streams that break and deliver again, polls, and reloads of the cursor handle
\* no event twice while the process lives.
THEOREM OnceUntilCrash == Spec => []OnceWithoutCrash
<1>1. NotYetHandled => OnceWithoutCrash
  BY DEF NotYetHandled, OnceWithoutCrash
<1> QED
  BY <1>1, NothingLostInit, NothingLostStep, WithinInit, WithinStep, PTL DEF Spec

-----------------------------------------------------------------------------
(***************************************************************************)
(* Presence: the shape of the state.                                       *)
(***************************************************************************)
\* A call that tells or stores has something to say.
Fits(c) ==
    /\ c.at \in {"tell", "store"} => c.says # <<>>
    /\ c.at = "store" => Head(c.says) \in Titles

LinksOK ==
    /\ platform \in {"WUP", "CTR"}
    /\ conn \in [People -> Nat]
    /\ online \in [People -> BOOLEAN]
EntriesOK == entry \in [People -> Entry \cup {NoEntry}]
CallsOK ==
    /\ call \in [People -> Call \cup {Idle}]
    /\ \A p \in People : call[p] # Idle => Fits(call[p])
NewsOK == news \in [People -> SUBSET News]
EndingsOK ==
    /\ ending \in [People -> Ending \cup {Idle}]
    /\ \A p \in People : Ends(p, "queued") => ending[p].todo = Friends(p)
ShownOK == shown \in [People -> [People -> Sight]]
DoubtOK == doubt \subseteq People \X People
Shaped == LinksOK /\ EntriesOK /\ CallsOK /\ NewsOK /\ EndingsOK /\ ShownOK /\ DoubtOK

LEMMA ShapedIsTypeOK == Shaped => PresenceTypeOK
BY DEF Shaped, PresenceTypeOK, LinksOK, EntriesOK, CallsOK, NewsOK, EndingsOK, ShownOK, DoubtOK

\* The assumptions of Presence as one fact to cite.
LEMMA Distinct ==
    /\ NoEntry \notin Entry /\ Idle \notin Call /\ Idle \notin Ending
    /\ Offline # Unknown /\ Offline # Fresh /\ Offline \notin Titles
    /\ Fresh \notin Titles /\ NoGame \in Titles
    /\ Offline \notin Listed /\ Unknown \notin Listed
BY SightAssumption, NothingAssumption, TitleAssumption

\* Nobody is without friends.
LEMMA SomeFriends == \A p \in People : Friends(p) # {} /\ Friends(p) \in SUBSET People
<1> SUFFICES ASSUME NEW p \in People PROVE Friends(p) # {}
  BY DEF Friends
<1>1. PICK q : ~(q \in People <=> q \in {p})
  BY PeopleAssumption
<1> QED
  BY <1>1 DEF Friends

\* The pairs in doubt are pairs of people.
LEMMA DoubtTyped ==
    ASSUME NEW D, D \subseteq People \X People, DoubtOK, Doubt(D)
    PROVE  DoubtOK'
BY DEF DoubtOK, Doubt

LEMMA PairsTyped ==
    \A p \in People : Of(p) \subseteq People \X People /\ ({p} \X Friends(p)) \subseteq People \X People
BY DEF Of, Friends

LEMMA OvertakenTyped == \A p, q \in People : Overtaken(q, p) \subseteq People \X People
BY DEF Overtaken

\* What a list shows and what a notification says can be shown.
LEMMA ViewTyped == EntriesOK => \A p \in People : View(p) \in Sight
BY DEF EntriesOK, View, Entry, Sight, Listed

LEMMA AnnouncedTyped == \A n \in Notice : Announced(n) \in Sight
BY DEF Announced, Notice, Sight, Listed

LEMMA NotifyTyped ==
    ASSUME ShownOK, NEW p \in People, NEW q \in People, NEW n \in Notice, Notify(q, p, n)
    PROVE  ShownOK'
BY AnnouncedTyped DEF ShownOK, Notify

\* What is stored is an entry.
LEMMA StoreTyped ==
    ASSUME EntriesOK, NEW p \in People, NEW c \in Nat, NEW t \in Titles, NEW on \in BOOLEAN,
           Store(p, c, t, on)
    PROVE  EntriesOK'
<1> DEFINE e == [conn |-> IF entry[p] = NoEntry THEN c ELSE entry[p].conn, title |-> t, online |-> on]
<1>1. e \in Entry
  BY DEF EntriesOK, Entry
<1>2. entry' = [entry EXCEPT ![p] = e]
  BY DEF Store
<1> QED
  BY <1>1, <1>2 DEF EntriesOK

\* The entry has what was stored, and the connection it had.
LEMMA EntryStored ==
    ASSUME EntriesOK, NEW p \in People, NEW c \in Nat, NEW t \in Titles, NEW on \in BOOLEAN,
           Store(p, c, t, on)
    PROVE  /\ EntriesOK'
           /\ entry'[p] # NoEntry /\ entry'[p].title = t
           /\ entry[p] # NoEntry => entry'[p].conn = entry[p].conn
           /\ entry[p] = NoEntry => entry'[p].conn = c
           /\ \A r \in People : r # p => entry'[r] = entry[r]
<1>1. PICK e : e = [conn |-> IF entry[p] = NoEntry THEN c ELSE entry[p].conn, title |-> t, online |-> on]
  OBVIOUS
<1>2. e \in Entry /\ e.title = t /\ e.conn = (IF entry[p] = NoEntry THEN c ELSE entry[p].conn)
  BY <1>1 DEF EntriesOK, Entry
<1>3. entry' = [entry EXCEPT ![p] = e]
  BY <1>1 DEF Store
<1> QED
  BY <1>2, <1>3, Distinct DEF EntriesOK

\* A notification is shown by whom it is for, and only if that one is there.
LEMMA NotifiedElsewhere ==
    ASSUME ShownOK, NEW p \in People, NEW q \in People, NEW n, Notify(q, p, n)
    PROVE  /\ \A x \in People : ~online[x] => shown'[x] = shown[x]
           /\ \A x, y \in People : x # q \/ y # p => shown'[x][y] = shown[x][y]
           /\ Reached(q) => shown'[q][p] = Announced(n)
           /\ ~Reached(q) => shown'[q][p] = shown[q][p]
<1>1. CASE Reached(q)
  <2>1. PICK v : v = Announced(n)
    OBVIOUS
  <2>2. shown' = [shown EXCEPT ![q][p] = v]
    BY <1>1, <2>1 DEF Notify
  <2> QED
    BY <1>1, <2>1, <2>2 DEF ShownOK, Reached
<1>2. CASE ~Reached(q)
  BY <1>2 DEF Notify
<1> QED
  BY <1>1, <1>2

\* A call that begins.
LEMMA NewCallFits ==
    ASSUME LinksOK, NEW p \in People, NEW place \in {"read", "tell", "store"},
           NEW says \in Seq(Notice),
           NEW replies \in BOOLEAN
    PROVE  LET d == NewCall(p, place, says, replies) IN
           /\ d \in Call /\ d # Idle
           /\ d.at = place /\ d.says = says /\ d.todo = Friends(p) /\ d.list = Nothing
<1> DEFINE d == NewCall(p, place, says, replies)
<1>1. Nothing \in [People -> Sight]
  BY DEF Nothing, Sight
<1>2. conn[p] \in Nat /\ Friends(p) \in SUBSET People
  BY SomeFriends DEF LinksOK
<1>3. d \in Call
  BY <1>1, <1>2 DEF NewCall, Call
<1> QED
  BY <1>3, Distinct DEF NewCall

LEMMA BeginFits ==
    ASSUME LinksOK, CallsOK, NEW p \in People, NEW place \in {"read", "tell", "store"},
           NEW says \in Seq(Notice),
           NEW replies \in BOOLEAN, Begin(p, place, says, replies),
           place \in {"tell", "store"} => says # <<>>, place = "store" => Head(says) \in Titles
    PROVE  /\ CallsOK'
           /\ call[p] = Idle /\ online[p]
           /\ \A r \in People : r # p => call'[r] = call[r]
           /\ call'[p] # Idle /\ call'[p].at = place /\ call'[p].says = says /\ call'[p].todo = Friends(p)
           /\ call'[p].list = Nothing
<1>1. PICK d : d = NewCall(p, place, says, replies)
  OBVIOUS
<1>2. d \in Call /\ d # Idle /\ d.at = place /\ d.says = says /\ d.todo = Friends(p) /\ d.list = Nothing
  BY <1>1, NewCallFits
<1>3. call' = [call EXCEPT ![p] = d] /\ call[p] = Idle /\ online[p]
  BY <1>1 DEF Begin
<1>4. Fits(d)
  BY <1>2 DEF Fits
<1> QED
  BY <1>2, <1>3, <1>4 DEF CallsOK

\* What is left to say.
LEMMA SaidTyped ==
    ASSUME NEW s \in Seq(Notice)
    PROVE  /\ s = <<>> <=> Len(s) = 0
           /\ Len(s) > 1 => s # <<>> /\ Len(s) # 1 /\ Tail(s) \in Seq(Notice) /\ Tail(s) # <<>>
<1>1. PICK none, k : none = <<>> /\ k = Len(s)
  OBVIOUS
<1>2. k \in Nat /\ Len(none) = 0 /\ (s # none => k \in Nat \ {0})
  BY <1>1, EmptySeq, LenProperties
<1>3. s = none <=> k = 0
  BY <1>1, <1>2
<1>4. ASSUME k > 1 PROVE s # none /\ k # 1 /\ Tail(s) \in Seq(Notice) /\ Tail(s) # none
  <2>1. s # none /\ k # 1 /\ k - 1 # 0
    BY <1>2, <1>3, <1>4
  <2>2. Tail(s) \in Seq(Notice) /\ Len(Tail(s)) = k - 1
    BY <1>1, <2>1, HeadTailProperties
  <2>3. Tail(s) # none
    BY <1>2, <2>1, <2>2
  <2> QED
    BY <2>1, <2>2, <2>3
<1> QED
  BY <1>1, <1>3, <1>4

\* A call that goes on.
LEMMA OnwardFits ==
    ASSUME NEW p \in People, NEW c \in Call, Fits(c), c.at \in {"read", "tell"}
    PROVE  LET d == Onward(p, c) IN
           /\ d \in Call \cup {Idle}
           /\ d # Idle => Fits(d) /\ d.list = c.list /\ d.at # "store"
           /\ c.todo # {} => d = c
           /\ c.todo = {} /\ c.at = "read" /\ c.says # <<>> =>
                d # Idle /\ d.at = "tell" /\ d.says = c.says /\ d.todo = Friends(p)
           /\ c.todo = {} /\ ((c.at = "tell" /\ Len(c.says) = 1) \/ c.says = <<>>) =>
                d = Idle \/ (d.at = "reply" /\ d.says = <<>>)
<1> DEFINE d == Onward(p, c)
           tells == [c EXCEPT !.at = "tell", !.todo = Friends(p)]
           next == [c EXCEPT !.says = Tail(c.says), !.todo = Friends(p)]
           answers == [c EXCEPT !.at = "reply", !.says = <<>>]
<1>1. c \in Call /\ c # Idle /\ c.says \in Seq(Notice) /\ Friends(p) \in SUBSET People
  BY Distinct, SomeFriends DEF Call
<1>2. /\ tells \in Call /\ tells.at = "tell" /\ tells.says = c.says
      /\ tells.todo = Friends(p) /\ tells.list = c.list
  BY <1>1 DEF Call
<1>3. answers \in Call /\ answers.at = "reply" /\ answers.says = <<>> /\ answers.list = c.list
  <2>1. <<>> \in Seq(Notice)
    OBVIOUS
  <2> QED
    BY <1>1, <2>1 DEF Call
<1>4. Len(c.says) > 1 => Tail(c.says) \in Seq(Notice) /\ Tail(c.says) # <<>>
  BY <1>1, SaidTyped
<1>5. Len(c.says) > 1 => next \in Call /\ next.at = c.at /\ next.says = Tail(c.says) /\ next.list = c.list
  BY <1>1, <1>4 DEF Call
<1>6. (c.says = <<>> <=> Len(c.says) = 0) /\ (Len(c.says) > 1 => c.says # <<>> /\ Len(c.says) # 1)
  BY <1>1, SaidTyped
<1>7. CASE c.todo # {}
  BY <1>1, <1>7 DEF Onward
<1>8. CASE c.todo = {} /\ c.at = "read" /\ c.says # <<>>
  <2>1. d = tells
    BY <1>8 DEF Onward
  <2> HIDE DEF d, tells
  <2> QED
    BY <1>1, <1>2, <1>8, <2>1, Distinct DEF Fits, d
<1>9. CASE c.todo = {} /\ ~(c.at = "read" /\ c.says # <<>>) /\ Len(c.says) > 1
  <2>1. d = next
    BY <1>9 DEF Onward
  <2>2. c.at = "tell" /\ c.says # <<>> /\ Len(c.says) # 1
    BY <1>6, <1>9
  <2>3. next \in Call /\ next.at = "tell" /\ next.says # <<>> /\ next.list = c.list
    BY <1>4, <1>5, <1>9, <2>2
  <2> HIDE DEF d, next
  <2>4. d \in Call /\ d # Idle /\ d.at = "tell" /\ Fits(d) /\ d.list = c.list
    BY <2>1, <2>3, Distinct DEF Fits
  <2> QED
    BY <1>9, <2>2, <2>4 DEF d
<1>10. CASE c.todo = {} /\ ~(c.at = "read" /\ c.says # <<>>) /\ ~(Len(c.says) > 1)
  <2>1. d = answers \/ d = Idle
    BY <1>10 DEF Onward
  <2> HIDE DEF d, answers
  <2> QED
    BY <1>1, <1>3, <1>10, <2>1, Distinct DEF Fits, d
<1> QED
  BY <1>7, <1>8, <1>9, <1>10

\* The call of p that goes on with c becomes what Onward says.
LEMMA CallGoesOn ==
    ASSUME CallsOK, NEW p \in People, call[p] # Idle, NEW c \in Call, Fits(c), c.at \in {"read", "tell"},
           call' = [call EXCEPT ![p] = Onward(p, c)]
    PROVE  /\ CallsOK'
           /\ \A r \in People : r # p => call'[r] = call[r]
           /\ call'[p] = Onward(p, c)
<1>1. PICK d : d = Onward(p, c)
  OBVIOUS
<1>2. d \in Call \cup {Idle} /\ (d # Idle => Fits(d))
  BY <1>1, OnwardFits
<1>3. call' = [call EXCEPT ![p] = d]
  BY <1>1
<1> QED
  BY <1>1, <1>2, <1>3 DEF CallsOK

LEMMA CallEnds ==
    ASSUME CallsOK, NEW p \in People, Return(p)
    PROVE  CallsOK' /\ (\A r \in People : r # p => call'[r] = call[r]) /\ call'[p] = Idle
BY DEF CallsOK, Return

\* A friend is read: the list has the friend.
AfterRead(p, q) == [call[p] EXCEPT !.todo = @ \ {q}, !.list[q] = View(q)]

LEMMA ReadOn ==
    ASSUME EntriesOK, CallsOK, NEW p \in People, NEW q \in People, At(p, "read")
    PROVE  /\ AfterRead(p, q) \in Call /\ Fits(AfterRead(p, q)) /\ AfterRead(p, q).at = "read"
           /\ AfterRead(p, q).says = call[p].says /\ AfterRead(p, q).todo = call[p].todo \ {q}
           /\ AfterRead(p, q).list = [call[p].list EXCEPT ![q] = View(q)]
<1>1. call[p] \in Call /\ View(q) \in Sight
  BY ViewTyped DEF CallsOK, At
<1>2. /\ AfterRead(p, q) \in Call /\ AfterRead(p, q).at = "read"
      /\ AfterRead(p, q).says = call[p].says /\ AfterRead(p, q).todo = call[p].todo \ {q}
      /\ AfterRead(p, q).list = [call[p].list EXCEPT ![q] = View(q)]
  BY <1>1 DEF At, Call, AfterRead
<1> QED
  BY <1>2 DEF Fits

\* A friend is told.
AfterTold(p, q) == [call[p] EXCEPT !.todo = @ \ {q}]

LEMMA ToldOn ==
    ASSUME CallsOK, NEW p \in People, NEW q \in People, At(p, "tell")
    PROVE  /\ AfterTold(p, q) \in Call /\ Fits(AfterTold(p, q)) /\ AfterTold(p, q).at = "tell"
           /\ AfterTold(p, q).says = call[p].says /\ AfterTold(p, q).todo = call[p].todo \ {q}
           /\ AfterTold(p, q).list = call[p].list
<1>1. call[p] \in Call /\ Fits(call[p])
  BY DEF CallsOK, At
<1>2. /\ AfterTold(p, q) \in Call /\ AfterTold(p, q).at = "tell"
      /\ AfterTold(p, q).says = call[p].says /\ AfterTold(p, q).todo = call[p].todo \ {q}
      /\ AfterTold(p, q).list = call[p].list
  BY <1>1 DEF At, Call, AfterTold
<1> QED
  BY <1>1, <1>2 DEF Fits, At

\* Nobody is told.
AfterFailing(p) == [call[p] EXCEPT !.todo = {}]

LEMMA FailedOn ==
    ASSUME CallsOK, NEW p \in People, At(p, "tell")
    PROVE  /\ AfterFailing(p) \in Call /\ Fits(AfterFailing(p)) /\ AfterFailing(p).at = "tell"
           /\ AfterFailing(p).says = call[p].says /\ AfterFailing(p).list = call[p].list
<1>1. call[p] \in Call /\ Fits(call[p])
  BY DEF CallsOK, At
<1>2. /\ AfterFailing(p) \in Call /\ AfterFailing(p).at = "tell"
      /\ AfterFailing(p).says = call[p].says /\ AfterFailing(p).list = call[p].list
  BY <1>1 DEF At, Call, AfterFailing
<1> QED
  BY <1>1, <1>2 DEF Fits, At

LEMMA Saying == \A s \in Seq(Notice) : s # <<>> => Head(s) \in Notice
BY HeadTailProperties

LEMMA OneSaid == \A n \in Notice : <<n>> \in Seq(Notice) /\ <<n>> # <<>> /\ Head(<<n>>) = n /\ Len(<<n>>) = 1
OBVIOUS

\* What UpdatePreference announces.
Hiding(showGame, publicMode) ==
    (IF showGame THEN <<>> ELSE <<NoGame>>) \o (IF publicMode THEN <<>> ELSE <<Offline>>)

LEMMA HidingSays ==
    \A showGame, publicMode \in BOOLEAN :
        ~(showGame /\ publicMode) =>
            Hiding(showGame, publicMode) \in Seq(Notice) /\ Hiding(showGame, publicMode) # <<>>
<1> SUFFICES ASSUME NEW showGame \in BOOLEAN, NEW publicMode \in BOOLEAN, ~(showGame /\ publicMode)
             PROVE  Hiding(showGame, publicMode) \in Seq(Notice) /\ Hiding(showGame, publicMode) # <<>>
  OBVIOUS
<1> DEFINE none == IF showGame THEN <<>> ELSE <<NoGame>>
           gone == IF publicMode THEN <<>> ELSE <<Offline>>
<1>1. NoGame \in Notice /\ Offline \in Notice
  BY Distinct DEF Notice
<1>2. none \in Seq(Notice) /\ gone \in Seq(Notice) /\ (none # <<>> \/ gone # <<>>)
  BY <1>1
<1> HIDE DEF none, gone
<1>3. none \o gone \in Seq(Notice)
  BY <1>2
<1>4. none \o gone # <<>>
  BY <1>2, ConcatEqualIffEmpty, ConcatSimplifications
<1> QED
  BY <1>3, <1>4 DEF Hiding, none, gone

-----------------------------------------------------------------------------
LEMMA ShapedInit == PresenceInit => Shaped
<1> SUFFICES ASSUME PresenceInit PROVE Shaped
  OBVIOUS
<1>1. LinksOK /\ NewsOK /\ DoubtOK
  BY DEF PresenceInit, LinksOK, NewsOK, DoubtOK
<1>2. EntriesOK /\ CallsOK /\ EndingsOK
  BY DEF PresenceInit, EntriesOK, CallsOK, EndingsOK, Ends
<1>3. ShownOK
  BY DEF PresenceInit, ShownOK, Nothing, Sight
<1> QED
  BY <1>1, <1>2, <1>3 DEF Shaped

\* What a call says first.
LEMMA Saids ==
    ASSUME CallsOK, NEW p \in People
    PROVE  /\ At(p, "tell") => Head(call[p].says) \in Notice
           /\ At(p, "store") => Head(call[p].says) \in Titles
           /\ call[p] # Idle => call[p] \in Call
BY Saying DEF CallsOK, At, Fits, Call

LEMMA ShapedStep == Shaped /\ [PresenceNext]_presenceVars => Shaped'
<1> SUFFICES ASSUME Shaped, [PresenceNext]_presenceVars PROVE Shaped'
  OBVIOUS
<1> USE DEF Shaped
<1>1. CASE UNCHANGED presenceVars
  <2> QED
    BY <1>1 DEF presenceVars, LinksOK, EntriesOK, CallsOK, NewsOK, EndingsOK, ShownOK, DoubtOK, Ends
<1>2. ASSUME NEW p \in People, Connect(p)
      PROVE  Shaped'
  <2>1. PICK k \in Nat : conn' = [conn EXCEPT ![p] = k]
    <3>1. conn[p] + 1 \in Nat
      BY DEF LinksOK
    <3> QED
      BY <1>2, <3>1 DEF Connect
  <2>2. LinksOK'
    BY <1>2, <2>1 DEF Connect, LinksOK
  <2>3. conn'[p] \in Nat /\ [conn |-> conn'[p], title |-> Fresh, online |-> FALSE] \in Entry
    BY <2>2 DEF LinksOK, Entry
  <2>4. EntriesOK'
    BY <1>2, <2>3 DEF Connect, EntriesOK
  <2>5. DoubtOK'
    BY <1>2, DoubtTyped DEF Connect
  <2> QED
    BY <1>2, <2>2, <2>4, <2>5 DEF Connect, CallsOK, NewsOK, EndingsOK, ShownOK, Ends
<1>3. ASSUME NEW p \in People, NEW t \in Titles, UpdatePresenceWiiU(p, t)
      PROVE  Shaped'
  <2>1. t \in Notice /\ LinksOK /\ conn[p] \in Nat
    BY DEF Notice, LinksOK
  <2>2. CallsOK'
    BY <1>3, <2>1, BeginFits, OneSaid DEF UpdatePresenceWiiU
  <2>3. EntriesOK'
    BY <1>3, <2>1, StoreTyped DEF UpdatePresenceWiiU
  <2>4. DoubtOK'
    BY <1>3, DoubtTyped DEF UpdatePresenceWiiU
  <2> QED
    BY <1>3, <2>2, <2>3, <2>4 DEF UpdatePresenceWiiU, LinksOK, NewsOK, EndingsOK, ShownOK, Ends
<1>4. ASSUME NEW p \in People, NEW t \in Titles, UpdateAndGetAllInformation(p, t)
      PROVE  Shaped'
  <2>1. t \in Notice /\ LinksOK /\ conn[p] \in Nat
    BY DEF Notice, LinksOK
  <2>2. CallsOK'
    BY <1>4, <2>1, BeginFits, OneSaid DEF UpdateAndGetAllInformation
  <2>3. EntriesOK'
    BY <1>4, <2>1, StoreTyped DEF UpdateAndGetAllInformation
  <2>4. DoubtOK'
    BY <1>4, DoubtTyped DEF UpdateAndGetAllInformation
  <2> QED
    BY <1>4, <2>2, <2>3, <2>4 DEF UpdateAndGetAllInformation, LinksOK, NewsOK, EndingsOK, ShownOK, Ends
<1>5. ASSUME NEW p \in People, GetFriendPresence(p)
      PROVE  Shaped'
  <2>1. <<>> \in Seq(Notice)
    BY EmptySeq
  <2>2. CallsOK'
    BY <1>5, <2>1, BeginFits DEF GetFriendPresence
  <2>3. DoubtOK'
    BY <1>5, DoubtTyped DEF GetFriendPresence
  <2> QED
    BY <1>5, <2>2, <2>3 DEF GetFriendPresence, LinksOK, EntriesOK, NewsOK, EndingsOK, ShownOK, Ends
<1>6. ASSUME NEW p \in People, NEW t \in Titles, UpdatePresence3DS(p, t)
      PROVE  Shaped'
  <2>1. t \in Notice
    BY DEF Notice
  <2>2. CallsOK'
    BY <1>6, <2>1, BeginFits, OneSaid DEF UpdatePresence3DS
  <2>3. [title |-> t, todo |-> Friends(p)] \in News
    BY SomeFriends DEF News
  <2>4. NewsOK'
    BY <1>6, <2>3 DEF UpdatePresence3DS, NewsOK
  <2>5. DoubtOK'
    BY <1>6, DoubtTyped, PairsTyped DEF UpdatePresence3DS
  <2> QED
    BY <1>6, <2>2, <2>4, <2>5 DEF UpdatePresence3DS, LinksOK, EntriesOK, EndingsOK, ShownOK, Ends
<1>7. ASSUME NEW p \in People, Store3DS(p)
      PROVE  Shaped'
  <2>1. call[p].conn \in Nat /\ Head(call[p].says) \in Titles
    BY <1>7, Saids DEF Store3DS, At, Call
  <2>2. CallsOK'
    BY <1>7, CallEnds DEF Store3DS
  <2>3. EntriesOK'
    BY <1>7, <2>1, StoreTyped DEF Store3DS
  <2>4. DoubtOK'
    BY <1>7, DoubtTyped DEF Store3DS
  <2> QED
    BY <1>7, <2>2, <2>3, <2>4 DEF Store3DS, LinksOK, NewsOK, EndingsOK, ShownOK, Ends
<1>8. ASSUME NEW p \in People, NEW showGame \in BOOLEAN, NEW publicMode \in BOOLEAN,
             UpdatePreference(p, showGame, publicMode)
      PROVE  Shaped'
  <2>1. Begin(p, "tell", Hiding(showGame, publicMode), FALSE)
    BY <1>8 DEF UpdatePreference, Hiding
  <2>2. CallsOK'
    BY <1>8, <2>1, BeginFits, HidingSays DEF UpdatePreference
  <2>3. DoubtOK'
    BY <1>8, DoubtTyped, PairsTyped DEF UpdatePreference
  <2> QED
    BY <1>8, <2>2, <2>3 DEF UpdatePreference, LinksOK, EntriesOK, NewsOK, EndingsOK, ShownOK, Ends
<1>9. ASSUME NEW p \in People, NEW q \in People, ReadFriend(p, q)
      PROVE  Shaped'
  <2>1. call' = [call EXCEPT ![p] = Onward(p, AfterRead(p, q))] /\ call[p] # Idle
    BY <1>9 DEF ReadFriend, At, AfterRead
  <2>2. AfterRead(p, q) \in Call /\ Fits(AfterRead(p, q)) /\ AfterRead(p, q).at \in {"read", "tell"}
    BY <1>9, ReadOn DEF ReadFriend
  <2>4. CallsOK'
    BY <2>1, <2>2, CallGoesOn
  <2>5. DoubtOK'
    BY <1>9, DoubtTyped DEF ReadFriend
  <2> QED
    BY <1>9, <2>4, <2>5 DEF ReadFriend, LinksOK, EntriesOK, NewsOK, EndingsOK, ShownOK, Ends
<1>10. ASSUME NEW p \in People, ReadFails(p)
       PROVE  Shaped'
  <2>1. CallsOK'
    BY <1>10, CallEnds DEF ReadFails
  <2>2. DoubtOK'
    BY <1>10, DoubtTyped, PairsTyped DEF ReadFails
  <2> QED
    BY <1>10, <2>1, <2>2 DEF ReadFails, LinksOK, EntriesOK, NewsOK, EndingsOK, ShownOK, Ends
<1>11. ASSUME NEW p \in People, NEW q \in People, TellFriend(p, q)
       PROVE  Shaped'
  <2>1. call' = [call EXCEPT ![p] = Onward(p, AfterTold(p, q))] /\ call[p] # Idle
    BY <1>11 DEF TellFriend, At, AfterTold
  <2>2. AfterTold(p, q) \in Call /\ Fits(AfterTold(p, q)) /\ AfterTold(p, q).at \in {"read", "tell"}
    BY <1>11, ToldOn DEF TellFriend
  <2>5. CallsOK'
    BY <2>1, <2>2, CallGoesOn
  <2>6. ShownOK'
    BY <1>11, Saids, NotifyTyped DEF TellFriend
  <2>7. DoubtOK'
    BY <1>11, DoubtTyped, OvertakenTyped DEF TellFriend
  <2> QED
    BY <1>11, <2>5, <2>6, <2>7 DEF TellFriend, LinksOK, EntriesOK, NewsOK, EndingsOK, Ends
<1>12. ASSUME NEW p \in People, TellFails(p)
       PROVE  Shaped'
  <2>1. call' = [call EXCEPT ![p] = Onward(p, AfterFailing(p))] /\ call[p] # Idle
    BY <1>12 DEF TellFails, At, AfterFailing
  <2>2. AfterFailing(p) \in Call /\ Fits(AfterFailing(p)) /\ AfterFailing(p).at \in {"read", "tell"}
    BY <1>12, FailedOn DEF TellFails
  <2>4. CallsOK'
    BY <2>1, <2>2, CallGoesOn
  <2>5. DoubtOK'
    BY <1>12, DoubtTyped, PairsTyped DEF TellFails
  <2> QED
    BY <1>12, <2>4, <2>5 DEF TellFails, LinksOK, EntriesOK, NewsOK, EndingsOK, ShownOK, Ends
<1>13. ASSUME NEW p \in People, Reply(p)
       PROVE  Shaped'
  <2>1. CallsOK'
    BY <1>13, CallEnds DEF Reply
  <2>2. call[p] \in Call
    BY <1>13, Saids DEF Reply, At
  <2>3. call[p].list \in [People -> Sight]
    BY <2>2 DEF Call
  <2>4. ShownOK'
    BY <1>13, <2>3 DEF Reply, ShownOK
  <2>5. DoubtOK'
    BY <1>13, DoubtTyped DEF Reply
  <2> QED
    BY <1>13, <2>1, <2>4, <2>5 DEF Reply, LinksOK, EntriesOK, NewsOK, EndingsOK, Ends
<1>14. ASSUME NEW p \in People, NEW n \in news[p], NEW q \in People, NewsTell(p, n, q)
       PROVE  Shaped'
  <2>1. n \in News /\ n.title \in Notice
    BY <1>14 DEF NewsOK, News, Notice
  <2>2. [n EXCEPT !.todo = n.todo \ {q}] \in News
    BY <2>1 DEF News
  <2>3. PICK s : s = (news[p] \ {n}) \cup
                        (IF n.todo \ {q} = {} THEN {} ELSE {[n EXCEPT !.todo = n.todo \ {q}]})
    OBVIOUS
  <2>4. s \in SUBSET News
    BY <2>2, <2>3 DEF NewsOK
  <2>5. news' = [news EXCEPT ![p] = s]
    BY <1>14, <2>3 DEF NewsTell
  <2>6. NewsOK'
    BY <2>4, <2>5 DEF NewsOK
  <2>7. ShownOK'
    BY <1>14, <2>1, NotifyTyped DEF NewsTell
  <2>8. DoubtOK'
    BY <1>14, DoubtTyped, OvertakenTyped DEF NewsTell
  <2> QED
    BY <1>14, <2>6, <2>7, <2>8 DEF NewsTell, LinksOK, EntriesOK, CallsOK, EndingsOK, Ends
<1>15. ASSUME NEW p \in People, NEW n \in news[p], NewsFails(p, n)
       PROVE  Shaped'
  <2>1. NewsOK'
    BY <1>15 DEF NewsFails, NewsOK
  <2>2. DoubtOK'
    BY <1>15, DoubtTyped, PairsTyped DEF NewsFails
  <2> QED
    BY <1>15, <2>1, <2>2 DEF NewsFails, LinksOK, EntriesOK, CallsOK, EndingsOK, ShownOK, Ends
<1>16. ASSUME NEW p \in People, Disconnect(p)
       PROVE  Shaped'
  <2>1. LinksOK'
    BY <1>16 DEF Disconnect, LinksOK
  <2>2. [at |-> "queued", todo |-> Friends(p)] \in Ending
    BY SomeFriends DEF Ending
  <2>3. EndingsOK'
    BY <1>16, <2>2 DEF Disconnect, EndingsOK, Ends
  <2>4. ShownOK'
    BY <1>16 DEF Disconnect, ShownOK, Nothing, Sight
  <2>5. DoubtOK'
    BY <1>16, DoubtTyped, PairsTyped DEF Disconnect
  <2> QED
    BY <1>16, <2>1, <2>3, <2>4, <2>5 DEF Disconnect, EntriesOK, CallsOK, NewsOK
<1>17. ASSUME NEW p \in People, EndLookup(p)
       PROVE  Shaped'
  <2>1. ending[p] \in Ending /\ [ending[p] EXCEPT !.at = "tell"] \in Ending
        /\ [ending[p] EXCEPT !.at = "tell"].at = "tell"
    BY <1>17 DEF EndLookup, EndingsOK, Ends, Ending
  <2>2. PICK e : e = [ending[p] EXCEPT !.at = "tell"]
    OBVIOUS
  <2>3. ending' = [ending EXCEPT ![p] = IF entry[p] = NoEntry THEN Idle ELSE e]
    BY <1>17, <2>2 DEF EndLookup
  <2>4. EndingsOK'
    BY <2>1, <2>2, <2>3 DEF EndingsOK, Ends
  <2>5. DoubtOK'
    BY <1>17, DoubtTyped DEF EndLookup
  <2> QED
    BY <1>17, <2>4, <2>5 DEF EndLookup, LinksOK, EntriesOK, CallsOK, NewsOK, ShownOK
<1>18. ASSUME NEW p \in People, NEW q \in People, EndTell(p, q)
       PROVE  Shaped'
  <2>1. PICK e : e = [ending[p] EXCEPT !.todo = @ \ {q}]
    OBVIOUS
  <2>2. e \in Ending /\ e.at = "tell"
    BY <1>18, <2>1 DEF EndTell, EndingsOK, Ends, Ending
  <2>3. ending' = [ending EXCEPT ![p] = e]
    BY <1>18, <2>1 DEF EndTell
  <2>4. EndingsOK'
    BY <2>2, <2>3 DEF EndingsOK, Ends
  <2>5. Offline \in Notice
    BY DEF Notice
  <2>6. ShownOK'
    BY <1>18, <2>5, NotifyTyped DEF EndTell
  <2>7. DoubtOK'
    BY <1>18, DoubtTyped, OvertakenTyped DEF EndTell
  <2> QED
    BY <1>18, <2>4, <2>6, <2>7 DEF EndTell, LinksOK, EntriesOK, CallsOK, NewsOK
<1>19. ASSUME NEW p \in People, EndTellFails(p)
       PROVE  Shaped'
  <2>1. PICK e : e = [ending[p] EXCEPT !.todo = {}]
    OBVIOUS
  <2>2. e \in Ending /\ e.at = "tell"
    BY <1>19, <2>1 DEF EndTellFails, EndingsOK, Ends, Ending
  <2>3. ending' = [ending EXCEPT ![p] = e]
    BY <1>19, <2>1 DEF EndTellFails
  <2>4. EndingsOK'
    BY <2>2, <2>3 DEF EndingsOK, Ends
  <2>5. DoubtOK'
    BY <1>19, DoubtTyped, PairsTyped DEF EndTellFails
  <2> QED
    BY <1>19, <2>4, <2>5 DEF EndTellFails, LinksOK, EntriesOK, CallsOK, NewsOK, ShownOK
<1>20. ASSUME NEW p \in People, EndDelete(p)
       PROVE  Shaped'
  <2>1. EntriesOK' /\ EndingsOK'
    BY <1>20 DEF EndDelete, EntriesOK, EndingsOK, Ends
  <2>2. DoubtOK'
    BY <1>20, DoubtTyped, PairsTyped DEF EndDelete
  <2> QED
    BY <1>20, <2>1, <2>2 DEF EndDelete, LinksOK, CallsOK, NewsOK, ShownOK
<1> QED
  BY <1>1, <1>2, <1>3, <1>4, <1>5, <1>6, <1>7, <1>8, <1>9, <1>10, <1>11, <1>12, <1>13, <1>14, <1>15, <1>16,
     <1>17, <1>18, <1>19, <1>20 DEF PresenceNext

\* Every variable has its type, for any number of people and of calls, titles
\* and goroutines.
THEOREM PresenceTypeCorrect == PresenceSpec => []PresenceTypeOK
<1>1. PresenceSpec => []Shaped
  BY ShapedInit, ShapedStep, PTL DEF PresenceSpec
<1> QED
  BY <1>1, ShapedIsTypeOK, PTL

-----------------------------------------------------------------------------
(***************************************************************************)
(* Presence: what is shown is what the server has, or will be told.        *)
(***************************************************************************)
\* A person who is back before the end of an older connection is announced:
\* all that is announced of the person may be undone by it.
Doomed(p) == online[p] /\ ending[p] # Idle

\* What the server has of p or, of a 3DS, is about to store ...
Word(p) ==
    IF At(p, "store") THEN Head(call[p].says) ELSE IF entry[p] = NoEntry THEN Offline ELSE entry[p].title

\* ... and what p's friends are to show in the end.
Goal(p) == IF Ends(p, "tell") THEN Offline ELSE Word(p)

\* Who shows x shows a word.
Tallies(x, w) ==
    \/ x = Unknown
    \/ x = Offline /\ w \in {Offline, Fresh}
    \/ x \notin {Unknown, Offline} /\ w # Offline /\ x.title = w

\* q is about to be told of p: by p's call, a goroutine, the end of p's
\* connection.
CallWillTell(q, p) == (At(p, "read") /\ call[p].says # <<>>) \/ (At(p, "tell") /\ q \in call[p].todo)
NewsWillTell(q, p) == \E n \in news[p] : q \in n.todo
EndWillTell(q, p) == (Ends(p, "queued") /\ entry[p] # NoEntry) \/ (Ends(p, "tell") /\ q \in ending[p].todo)
WillTell(q, p) == CallWillTell(q, p) \/ NewsWillTell(q, p) \/ EndWillTell(q, p)

Telling(p) == At(p, "tell") \/ (At(p, "read") /\ call[p].says # <<>>)

\* p leaves nothing behind, and announces what is stored and nothing else.
Speaks(p) ==
    /\ entry[p] # NoEntry /\ ~online[p] => ending[p] # Idle
    /\ ~online[p] => call[p] = Idle /\ news[p] = {}
    /\ Telling(p) => Len(call[p].says) = 1 /\ entry[p] # NoEntry /\ Head(call[p].says) = entry[p].title
    /\ \A n, m \in news[p] : n = m
    /\ \A n \in news[p] : n.title = Word(p)

\* q will be told, or shows it, and reads nothing else.
Sees(q, p) ==
    \/ WillTell(q, p)
    \/ Tallies(shown[q][p], Goal(p)) /\ (call[q] # Idle => Tallies(call[q].list[p], Goal(p)))

\* Whoever is connected is reached.
Hears(q) == online[q] => Reached(q)

PairOK(q, p) == Hears(q) /\ (~Doomed(p) => Speaks(p) /\ Sees(q, p))

PairsOK == \A q \in People : \A p \in Friends(q) : <<q, p>> \in doubt \/ PairOK(q, p)

\* What is so of everyone, in doubt or not.
Plain(p) ==
    /\ ~online[p] => shown[p] = Nothing
    /\ Doomed(p) => entry[p] # NoEntry
    /\ platform = "WUP" => news[p] = {} /\ ~At(p, "store")
PlainOK == \A p \in People : Plain(p)

\* A step of p.
StepOf(p) ==
    \/ Connect(p)
    \/ \E t \in Titles : UpdatePresenceWiiU(p, t)
    \/ \E t \in Titles : UpdateAndGetAllInformation(p, t)
    \/ GetFriendPresence(p)
    \/ \E t \in Titles : UpdatePresence3DS(p, t)
    \/ Store3DS(p)
    \/ \E showGame, publicMode \in BOOLEAN : UpdatePreference(p, showGame, publicMode)
    \/ \E q \in People : ReadFriend(p, q)
    \/ ReadFails(p)
    \/ \E q \in People : TellFriend(p, q)
    \/ TellFails(p)
    \/ Reply(p)
    \/ \E n \in news[p] : \E q \in People : NewsTell(p, n, q)
    \/ \E n \in news[p] : NewsFails(p, n)
    \/ Disconnect(p)
    \/ EndLookup(p)
    \/ \E q \in People : EndTell(p, q)
    \/ EndTellFails(p)
    \/ EndDelete(p)

LEMMA StepIsSomeones == PresenceNext <=> \E p \in People : StepOf(p)
BY DEF PresenceNext, StepOf

\* A pair that is no longer in doubt was not, or is settled.
LEMMA DoubtSplit ==
    ASSUME NEW D, Doubt(D), NEW q \in People, NEW p \in Friends(q), <<q, p>> \notin doubt'
    PROVE  Settled(q, p)' \/ (<<q, p>> \notin doubt /\ <<q, p>> \notin D)
<1>1. PICK e : e = <<q, p>> /\ e[1] = q /\ e[2] = p
  OBVIOUS
<1>2. ASSUME e \in doubt \cup D PROVE Settled(q, p)'
  <2>1. Settled(e[1], e[2])'
    BY <1>1, <1>2 DEF Doubt
  <2> QED
    BY <1>1, <2>1
<1> QED
  BY <1>1, <1>2

LEMMA Everyones ==
    ASSUME NEW q \in People, NEW p \in Friends(q)
    PROVE  /\ p \in People /\ q # p /\ q \in Friends(p)
           /\ <<q, p>> \in Of(p) /\ <<q, p>> \in {q} \X Friends(q)
BY DEF Friends, Of

LEMMA SettledIsOK ==
    ASSUME NEW q \in People, NEW p \in Friends(q), Shaped', Settled(q, p)'
    PROVE  PairOK(q, p)'
<1>1. /\ call'[q] = Idle /\ call'[p] = Idle /\ ending'[p] = Idle /\ news'[p] = {}
      /\ entry'[p] # NoEntry => online'[p]
      /\ Agrees(q, p)' /\ Hears(q)'
  BY DEF Settled, Quiet, Hears
<1>2. Speaks(p)'
  BY <1>1 DEF Speaks, Telling, At
<1>3. Word(p)' = (IF entry'[p] = NoEntry THEN Offline ELSE entry'[p].title) /\ Goal(p)' = Word(p)'
  BY <1>1 DEF Word, Goal, At, Ends
<1>4. p \in People /\ (entry'[p] # NoEntry => entry'[p].title \in Titles \cup {Fresh})
  BY Everyones DEF Shaped, EntriesOK, Entry
<1>5. Sees(q, p)'
  BY <1>1, <1>3, <1>4, Distinct DEF Sees, Tallies, Agrees
<1> QED
  BY <1>1, <1>2, <1>5 DEF PairOK

\* The actions that change a call make it no store but UpdatePresence3DS's.
LEMMA StillNoStore ==
    ASSUME CallsOK, NEW p \in People, NEW c \in Call, Fits(c), c.at \in {"read", "tell"},
           call' = [call EXCEPT ![p] = Onward(p, c)], NEW x \in People, At(x, "store")'
    PROVE  x # p /\ At(x, "store")
<1>1. PICK d : d = Onward(p, c)
  OBVIOUS
<1>2. d \in Call \cup {Idle} /\ (d # Idle => d.at # "store")
  BY <1>1, OnwardFits
<1>3. call' = [call EXCEPT ![p] = d]
  BY <1>1
<1> QED
  BY <1>2, <1>3 DEF At, CallsOK

LEMMA PlainInit == PresenceInit => PlainOK
BY DEF PresenceInit, PlainOK, Plain, Doomed, At

LEMMA PlainStep == Shaped /\ PlainOK /\ [PresenceNext]_presenceVars => PlainOK'
<1> SUFFICES ASSUME Shaped, PlainOK, [PresenceNext]_presenceVars, NEW x \in People PROVE Plain(x)'
  BY DEF PlainOK
<1> USE DEF Plain, Doomed
<1>0. Plain(x) /\ LinksOK /\ EntriesOK /\ CallsOK /\ NewsOK /\ EndingsOK /\ ShownOK
  BY DEF PlainOK, Shaped
<1>1. CASE UNCHANGED presenceVars
  BY <1>0, <1>1 DEF presenceVars, At
<1>2. ASSUME NEW p \in People, Connect(p) PROVE Plain(x)'
  <2>1. [conn |-> conn'[p], title |-> Fresh, online |-> FALSE] # NoEntry
    <3>1. conn'[p] \in Nat
      BY <1>0, <1>2 DEF Connect, LinksOK
    <3>2. [conn |-> conn'[p], title |-> Fresh, online |-> FALSE] \in Entry
      BY <3>1 DEF Entry
    <3> QED
      BY <3>2, Distinct
  <2>2. PICK e : e = [conn |-> conn'[p], title |-> Fresh, online |-> FALSE]
    OBVIOUS
  <2>3. entry' = [entry EXCEPT ![p] = e] /\ e # NoEntry
    BY <1>2, <2>1, <2>2 DEF Connect
  <2> QED
    BY <1>0, <1>2, <2>3 DEF Connect, At, EntriesOK, LinksOK
<1>3. ASSUME NEW p \in People, NEW t \in Titles, UpdatePresenceWiiU(p, t) PROVE Plain(x)'
  <2>1. t \in Notice /\ conn[p] \in Nat
    BY <1>0 DEF Notice, LinksOK
  <2>2. (\A r \in People : r # p => call'[r] = call[r]) /\ call'[p].at = "tell"
    BY <1>0, <1>3, <2>1, BeginFits, OneSaid DEF UpdatePresenceWiiU
  <2>3. EntriesOK' /\ entry'[p] # NoEntry /\ \A r \in People : r # p => entry'[r] = entry[r]
    BY <1>0, <1>3, <2>1, EntryStored DEF UpdatePresenceWiiU
  <2> QED
    BY <1>0, <1>3, <2>2, <2>3 DEF UpdatePresenceWiiU, At
<1>4. ASSUME NEW p \in People, NEW t \in Titles, UpdateAndGetAllInformation(p, t) PROVE Plain(x)'
  <2>1. t \in Notice /\ conn[p] \in Nat
    BY <1>0 DEF Notice, LinksOK
  <2>2. (\A r \in People : r # p => call'[r] = call[r]) /\ call'[p].at = "read"
    BY <1>0, <1>4, <2>1, BeginFits, OneSaid DEF UpdateAndGetAllInformation
  <2>3. entry'[p] # NoEntry /\ \A r \in People : r # p => entry'[r] = entry[r]
    BY <1>0, <1>4, <2>1, EntryStored DEF UpdateAndGetAllInformation
  <2> QED
    BY <1>0, <1>4, <2>2, <2>3 DEF UpdateAndGetAllInformation, At
<1>5. ASSUME NEW p \in People, GetFriendPresence(p) PROVE Plain(x)'
  BY <1>0, <1>5 DEF GetFriendPresence
<1>6. ASSUME NEW p \in People, NEW t \in Titles, UpdatePresence3DS(p, t) PROVE Plain(x)'
  BY <1>0, <1>6 DEF UpdatePresence3DS
<1>7. ASSUME NEW p \in People, Store3DS(p) PROVE Plain(x)'
  <2>1. call[p].conn \in Nat /\ Head(call[p].says) \in Titles
    BY <1>0, <1>7, Saids DEF Store3DS, At, Call
  <2>2. (\A r \in People : r # p => call'[r] = call[r]) /\ call'[p] = Idle
    BY <1>0, <1>7, CallEnds DEF Store3DS
  <2>3. entry'[p] # NoEntry /\ \A r \in People : r # p => entry'[r] = entry[r]
    BY <1>0, <1>7, <2>1, EntryStored DEF Store3DS
  <2> QED
    BY <1>0, <1>7, <2>2, <2>3 DEF Store3DS, At
<1>8. ASSUME NEW p \in People, NEW showGame \in BOOLEAN, NEW publicMode \in BOOLEAN,
             UpdatePreference(p, showGame, publicMode)
      PROVE  Plain(x)'
  BY <1>0, <1>8 DEF UpdatePreference
<1>9. ASSUME NEW p \in People, NEW q \in People, ReadFriend(p, q) PROVE Plain(x)'
  <2>1. call' = [call EXCEPT ![p] = Onward(p, AfterRead(p, q))]
    BY <1>9 DEF ReadFriend, At, AfterRead
  <2>2. AfterRead(p, q) \in Call /\ Fits(AfterRead(p, q)) /\ AfterRead(p, q).at \in {"read", "tell"}
    BY <1>0, <1>9, ReadOn DEF ReadFriend
  <2> QED
    BY <1>0, <1>9, <2>1, <2>2, StillNoStore DEF ReadFriend
<1>10. ASSUME NEW p \in People, ReadFails(p) PROVE Plain(x)'
  <2>1. (\A r \in People : r # p => call'[r] = call[r]) /\ call'[p] = Idle
    BY <1>0, <1>10, CallEnds DEF ReadFails
  <2> QED
    BY <1>0, <1>10, <2>1 DEF ReadFails, At
<1>11. ASSUME NEW p \in People, NEW q \in People, TellFriend(p, q) PROVE Plain(x)'
  <2>1. call' = [call EXCEPT ![p] = Onward(p, AfterTold(p, q))]
    BY <1>11 DEF TellFriend, At, AfterTold
  <2>2. AfterTold(p, q) \in Call /\ Fits(AfterTold(p, q)) /\ AfterTold(p, q).at \in {"read", "tell"}
    BY <1>0, <1>11, ToldOn DEF TellFriend
  <2>3. ~online[x] => shown'[x] = shown[x]
    BY <1>0, <1>11, NotifiedElsewhere DEF TellFriend
  <2> QED
    BY <1>0, <1>11, <2>1, <2>2, <2>3, StillNoStore DEF TellFriend
<1>12. ASSUME NEW p \in People, TellFails(p) PROVE Plain(x)'
  <2>1. call' = [call EXCEPT ![p] = Onward(p, AfterFailing(p))]
    BY <1>12 DEF TellFails, At, AfterFailing
  <2>2. AfterFailing(p) \in Call /\ Fits(AfterFailing(p)) /\ AfterFailing(p).at \in {"read", "tell"}
    BY <1>0, <1>12, FailedOn DEF TellFails
  <2> QED
    BY <1>0, <1>12, <2>1, <2>2, StillNoStore DEF TellFails
<1>13. ASSUME NEW p \in People, Reply(p) PROVE Plain(x)'
  <2>1. (\A r \in People : r # p => call'[r] = call[r]) /\ call'[p] = Idle
    BY <1>0, <1>13, CallEnds DEF Reply
  <2>2. ~online[x] => shown'[x] = shown[x]
    BY <1>0, <1>13 DEF Reply, ShownOK
  <2> QED
    BY <1>0, <1>13, <2>1, <2>2 DEF Reply, At
<1>14. ASSUME NEW p \in People, NEW n \in news[p], NEW q \in People, NewsTell(p, n, q) PROVE Plain(x)'
  <2>1. ~online[x] => shown'[x] = shown[x]
    BY <1>0, <1>14, NotifiedElsewhere DEF NewsTell
  <2>2. platform # "WUP"
    BY <1>14 DEF PlainOK
  <2> QED
    BY <1>0, <1>14, <2>1, <2>2 DEF NewsTell, At
<1>15. ASSUME NEW p \in People, NEW n \in news[p], NewsFails(p, n) PROVE Plain(x)'
  <2>1. platform # "WUP"
    BY <1>15 DEF PlainOK
  <2> QED
    BY <1>0, <1>15, <2>1 DEF NewsFails, At
<1>16. ASSUME NEW p \in People, Disconnect(p) PROVE Plain(x)'
  BY <1>0, <1>16 DEF Disconnect, At, LinksOK, EndingsOK, ShownOK
<1>17. ASSUME NEW p \in People, EndLookup(p) PROVE Plain(x)'
  <2>1. ending[p] # Idle /\ \A r \in People : r # p => ending'[r] = ending[r]
    BY <1>0, <1>17 DEF EndLookup, Ends, EndingsOK
  <2> QED
    BY <1>0, <1>17, <2>1 DEF EndLookup, At
<1>18. ASSUME NEW p \in People, NEW q \in People, EndTell(p, q) PROVE Plain(x)'
  <2>1. ending[p] # Idle /\ \A r \in People : r # p => ending'[r] = ending[r]
    BY <1>0, <1>18 DEF EndTell, Ends, EndingsOK
  <2>2. ~online[x] => shown'[x] = shown[x]
    BY <1>0, <1>18, NotifiedElsewhere DEF EndTell
  <2> QED
    BY <1>0, <1>18, <2>1, <2>2 DEF EndTell, At
<1>19. ASSUME NEW p \in People, EndTellFails(p) PROVE Plain(x)'
  <2>1. ending[p] # Idle /\ \A r \in People : r # p => ending'[r] = ending[r]
    BY <1>0, <1>19 DEF EndTellFails, Ends, EndingsOK
  <2> QED
    BY <1>0, <1>19, <2>1 DEF EndTellFails, At
<1>20. ASSUME NEW p \in People, EndDelete(p) PROVE Plain(x)'
  BY <1>0, <1>20 DEF EndDelete, At, EntriesOK, EndingsOK
<1> QED
  BY <1>1, <1>2, <1>3, <1>4, <1>5, <1>6, <1>7, <1>8, <1>9, <1>10, <1>11, <1>12, <1>13, <1>14, <1>15, <1>16,
     <1>17, <1>18, <1>19, <1>20 DEF PresenceNext

-----------------------------------------------------------------------------
\* Whoever is connected stays reached, but for the end of an older connection.
LEMMA HearsStep ==
    ASSUME Shaped, NEW p \in People, StepOf(p), NEW x \in People, Hears(x), ~(EndDelete(x) /\ online[x])
    PROVE  Hears(x)'
<1> USE DEF Hears, Reached
<1>0. LinksOK /\ EntriesOK /\ CallsOK
  BY DEF Shaped
<1>1. CASE Connect(p)
  <2>1. [conn |-> conn'[p], title |-> Fresh, online |-> FALSE] # NoEntry
    <3>1. conn'[p] \in Nat
      BY <1>0, <1>1 DEF Connect, LinksOK
    <3>2. [conn |-> conn'[p], title |-> Fresh, online |-> FALSE] \in Entry
      BY <3>1 DEF Entry
    <3> QED
      BY <3>2, Distinct
  <2>2. PICK e : e = [conn |-> conn'[p], title |-> Fresh, online |-> FALSE]
    OBVIOUS
  <2>3. entry' = [entry EXCEPT ![p] = e] /\ e # NoEntry /\ e.conn = conn'[p]
    BY <1>1, <2>1, <2>2 DEF Connect
  <2> QED
    BY <1>0, <1>1, <2>3 DEF Connect, EntriesOK, LinksOK
<1>2. CASE \E t \in Titles : UpdatePresenceWiiU(p, t) \/ UpdateAndGetAllInformation(p, t)
  <2>1. PICK t \in Titles, on \in BOOLEAN : Store(p, conn[p], t, on)
    BY <1>2 DEF UpdatePresenceWiiU, UpdateAndGetAllInformation
  <2>2. conn[p] \in Nat /\ UNCHANGED <<conn, online>>
    BY <1>0, <1>2 DEF LinksOK, UpdatePresenceWiiU, UpdateAndGetAllInformation
  <2>3. /\ entry'[p] # NoEntry
        /\ entry[p] # NoEntry => entry'[p].conn = entry[p].conn
        /\ entry[p] = NoEntry => entry'[p].conn = conn[p]
        /\ \A r \in People : r # p => entry'[r] = entry[r]
    BY <1>0, <2>1, <2>2, EntryStored
  <2> QED
    BY <2>2, <2>3
<1>3. CASE Store3DS(p)
  <2>1. call[p].conn \in Nat /\ Head(call[p].says) \in Titles
    BY <1>0, <1>3, Saids DEF Store3DS, At, Call
  <2>2. /\ entry'[p] # NoEntry
        /\ entry[p] # NoEntry => entry'[p].conn = entry[p].conn
        /\ \A r \in People : r # p => entry'[r] = entry[r]
    BY <1>0, <1>3, <2>1, EntryStored DEF Store3DS
  <2> QED
    BY <1>3, <2>2 DEF Store3DS
<1>4. CASE Disconnect(p)
  BY <1>0, <1>4 DEF Disconnect, LinksOK
<1>5. CASE EndDelete(p)
  BY <1>0, <1>5 DEF EndDelete, EntriesOK
<1>6. CASE UNCHANGED <<conn, online, entry>>
  BY <1>6
<1> QED
  BY <1>1, <1>2, <1>3, <1>4, <1>5, <1>6 DEF StepOf, GetFriendPresence, UpdatePresence3DS, UpdatePreference,
     ReadFriend, ReadFails, TellFriend, TellFails, Reply, NewsTell, NewsFails, EndLookup, EndTell,
     EndTellFails

-----------------------------------------------------------------------------
\* A step leaves alone what is announced of p ...
Stays(p) ==
    /\ entry'[p] = entry[p] /\ call'[p] = call[p] /\ news'[p] = news[p]
    /\ ending'[p] = ending[p] /\ online'[p] = online[p]

\* ... and q reads nothing new of p.
Keeps(q, p) ==
    /\ \/ shown'[q][p] \in {Unknown, shown[q][p]}
       \/ call[q] # Idle /\ shown'[q][p] = call[q].list[p]
    /\ call'[q] # Idle =>
        call'[q].list[p] = Unknown \/ (call[q] # Idle /\ call'[q].list[p] = call[q].list[p])

LEMMA StaysTold ==
    ASSUME NEW q \in People, NEW p \in People, Stays(p)
    PROVE  /\ Doomed(p)' = Doomed(p) /\ Speaks(p)' = Speaks(p) /\ Goal(p)' = Goal(p)
           /\ WillTell(q, p)' = WillTell(q, p)
<1>1. /\ At(p, "store")' = At(p, "store") /\ At(p, "tell")' = At(p, "tell") /\ At(p, "read")' = At(p, "read")
      /\ Ends(p, "queued")' = Ends(p, "queued") /\ Ends(p, "tell")' = Ends(p, "tell")
  BY DEF Stays, At, Ends
<1>2. Word(p)' = Word(p) /\ Telling(p)' = Telling(p)
  BY <1>1 DEF Stays, Word, Telling
<1>3. Doomed(p)' = Doomed(p) /\ Goal(p)' = Goal(p)
  BY <1>1, <1>2 DEF Stays, Doomed, Goal
<1>4. Speaks(p)' = Speaks(p)
  BY <1>2 DEF Stays, Speaks
<1>5. /\ CallWillTell(q, p)' = CallWillTell(q, p) /\ NewsWillTell(q, p)' = NewsWillTell(q, p)
      /\ EndWillTell(q, p)' = EndWillTell(q, p)
  BY <1>1 DEF Stays, CallWillTell, NewsWillTell, EndWillTell
<1> QED
  BY <1>3, <1>4, <1>5 DEF WillTell

LEMMA KeepsSees ==
    ASSUME NEW q \in People, NEW p \in Friends(q), Keeps(q, p), Sees(q, p), Goal(p)' = Goal(p),
           WillTell(q, p) => WillTell(q, p)'
    PROVE  Sees(q, p)'
<1>1. CASE WillTell(q, p)
  BY <1>1 DEF Sees
<1>2. CASE ~WillTell(q, p)
  <2>1. PICK g : g = Goal(p)
    OBVIOUS
  <2>2. Tallies(shown[q][p], g) /\ (call[q] # Idle => Tallies(call[q].list[p], g))
    BY <1>2, <2>1 DEF Sees
  <2>3. Tallies(Unknown, g)
    BY DEF Tallies
  <2>4. Tallies(shown'[q][p], g) /\ (call'[q] # Idle => Tallies(call'[q].list[p], g))
    BY <2>2, <2>3 DEF Keeps
  <2>5. g = Goal(p)'
    BY <2>1
  <2>6. Tallies(shown[q][p], Goal(p))' /\ (call[q] # Idle => Tallies(call[q].list[p], Goal(p)))'
    BY <2>4, <2>5 DEF Tallies
  <2> QED
    BY <2>6 DEF Sees
<1> QED
  BY <1>1, <1>2

\* A call that goes on has its list; the others' calls are as they were.
LEMMA ListGoesOn ==
    ASSUME CallsOK, NEW p \in People, call[p] # Idle, NEW c \in Call, Fits(c), c.at \in {"read", "tell"},
           call' = [call EXCEPT ![p] = Onward(p, c)]
    PROVE  (\A r \in People : r # p => call'[r] = call[r]) /\ (call'[p] # Idle => call'[p].list = c.list)
<1>1. PICK d : d = Onward(p, c)
  OBVIOUS
<1>2. d # Idle => d.list = c.list
  BY <1>1, OnwardFits
<1> QED
  BY <1>1, <1>2, CallGoesOn

\* What another person does changes nothing of what is announced of p, and
\* is nothing new of p for q, but when q reads p.
LEMMA ElsewhereStep ==
    ASSUME Shaped, NEW q \in People, NEW p \in Friends(q), NEW r \in People, r # p, StepOf(r)
    PROVE  Stays(p) /\ (Keeps(q, p) \/ (r = q /\ ReadFriend(q, p)))
<1>0. LinksOK /\ EntriesOK /\ CallsOK /\ NewsOK /\ EndingsOK /\ ShownOK /\ p \in People /\ q # p
  BY Everyones DEF Shaped
<1> USE DEF Stays, Keeps
<1>1. CASE Connect(r)
  BY <1>0, <1>1 DEF Connect, EntriesOK, LinksOK
<1>2. CASE \E t \in Titles : UpdatePresenceWiiU(r, t)
  <2>1. PICK t \in Titles : UpdatePresenceWiiU(r, t)
    BY <1>2
  <2>2. t \in Notice /\ conn[r] \in Nat
    BY <1>0 DEF Notice, LinksOK
  <2>3. (\A x \in People : x # r => call'[x] = call[x]) /\ call'[r].list = Nothing
    BY <1>0, <2>1, <2>2, BeginFits, OneSaid DEF UpdatePresenceWiiU
  <2>4. \A x \in People : x # r => entry'[x] = entry[x]
    BY <1>0, <2>1, <2>2, EntryStored DEF UpdatePresenceWiiU
  <2> QED
    BY <1>0, <2>1, <2>3, <2>4 DEF UpdatePresenceWiiU, Nothing
<1>3. CASE \E t \in Titles : UpdateAndGetAllInformation(r, t)
  <2>1. PICK t \in Titles : UpdateAndGetAllInformation(r, t)
    BY <1>3
  <2>2. t \in Notice /\ conn[r] \in Nat
    BY <1>0 DEF Notice, LinksOK
  <2>3. (\A x \in People : x # r => call'[x] = call[x]) /\ call'[r].list = Nothing
    BY <1>0, <2>1, <2>2, BeginFits, OneSaid DEF UpdateAndGetAllInformation
  <2>4. \A x \in People : x # r => entry'[x] = entry[x]
    BY <1>0, <2>1, <2>2, EntryStored DEF UpdateAndGetAllInformation
  <2> QED
    BY <1>0, <2>1, <2>3, <2>4 DEF UpdateAndGetAllInformation, Nothing
<1>4. CASE GetFriendPresence(r)
  <2>1. <<>> \in Seq(Notice)
    BY EmptySeq
  <2>2. (\A x \in People : x # r => call'[x] = call[x]) /\ call'[r].list = Nothing
    BY <1>0, <1>4, <2>1, BeginFits DEF GetFriendPresence
  <2> QED
    BY <1>0, <1>4, <2>2 DEF GetFriendPresence, Nothing
<1>5. CASE \E t \in Titles : UpdatePresence3DS(r, t)
  <2>1. PICK t \in Titles : UpdatePresence3DS(r, t)
    BY <1>5
  <2>2. t \in Notice
    BY DEF Notice
  <2>3. (\A x \in People : x # r => call'[x] = call[x]) /\ call'[r].list = Nothing
    BY <1>0, <2>1, <2>2, BeginFits, OneSaid DEF UpdatePresence3DS
  <2> QED
    BY <1>0, <2>1, <2>3 DEF UpdatePresence3DS, Nothing, NewsOK
<1>6. CASE Store3DS(r)
  <2>1. call[r].conn \in Nat /\ Head(call[r].says) \in Titles
    BY <1>0, <1>6, Saids DEF Store3DS, At, Call
  <2>2. (\A x \in People : x # r => call'[x] = call[x]) /\ call'[r] = Idle
    BY <1>0, <1>6, CallEnds DEF Store3DS
  <2>3. \A x \in People : x # r => entry'[x] = entry[x]
    BY <1>0, <1>6, <2>1, EntryStored DEF Store3DS
  <2> QED
    BY <1>0, <1>6, <2>2, <2>3 DEF Store3DS
<1>7. CASE \E showGame, publicMode \in BOOLEAN : UpdatePreference(r, showGame, publicMode)
  <2>1. PICK showGame \in BOOLEAN, publicMode \in BOOLEAN : UpdatePreference(r, showGame, publicMode)
    BY <1>7
  <2>2. Begin(r, "tell", Hiding(showGame, publicMode), FALSE)
    BY <2>1 DEF UpdatePreference, Hiding
  <2>3. (\A x \in People : x # r => call'[x] = call[x]) /\ call'[r].list = Nothing
    BY <1>0, <2>1, <2>2, BeginFits, HidingSays DEF UpdatePreference
  <2> QED
    BY <1>0, <2>1, <2>3 DEF UpdatePreference, Nothing
<1>8. CASE \E x \in People : ReadFriend(r, x)
  <2>1. PICK x \in People : ReadFriend(r, x)
    BY <1>8
  <2>2. call' = [call EXCEPT ![r] = Onward(r, AfterRead(r, x))] /\ call[r] # Idle /\ call[r] \in Call
    BY <1>0, <2>1, Saids DEF ReadFriend, At, AfterRead
  <2>3. /\ AfterRead(r, x) \in Call /\ Fits(AfterRead(r, x)) /\ AfterRead(r, x).at \in {"read", "tell"}
        /\ AfterRead(r, x).list = [call[r].list EXCEPT ![x] = View(x)]
    BY <1>0, <2>1, ReadOn DEF ReadFriend
  <2>4. /\ \A y \in People : y # r => call'[y] = call[y]
        /\ call'[r] # Idle => call'[r].list = AfterRead(r, x).list
    BY <1>0, <2>2, <2>3, ListGoesOn
  <2>5. x # p => AfterRead(r, x).list[p] = call[r].list[p]
    BY <1>0, <2>2, <2>3 DEF Call
  <2>6. r # q => Keeps(q, p)
    BY <1>0, <2>1, <2>4 DEF ReadFriend
  <2>7. r = q /\ x # p => Keeps(q, p)
    BY <1>0, <2>1, <2>2, <2>4, <2>5 DEF ReadFriend
  <2> QED
    BY <1>0, <2>1, <2>4, <2>6, <2>7 DEF ReadFriend
<1>9. CASE ReadFails(r)
  <2>1. (\A x \in People : x # r => call'[x] = call[x]) /\ call'[r] = Idle
    BY <1>0, <1>9, CallEnds DEF ReadFails
  <2> QED
    BY <1>0, <1>9, <2>1 DEF ReadFails
<1>10. CASE \E x \in People : TellFriend(r, x)
  <2>1. PICK x \in People : TellFriend(r, x)
    BY <1>10
  <2>2. call' = [call EXCEPT ![r] = Onward(r, AfterTold(r, x))] /\ call[r] # Idle
    BY <2>1 DEF TellFriend, At, AfterTold
  <2>3. /\ AfterTold(r, x) \in Call /\ Fits(AfterTold(r, x)) /\ AfterTold(r, x).at \in {"read", "tell"}
        /\ AfterTold(r, x).list = call[r].list
    BY <1>0, <2>1, ToldOn DEF TellFriend
  <2>4. (\A y \in People : y # r => call'[y] = call[y]) /\ (call'[r] # Idle => call'[r].list = call[r].list)
    BY <1>0, <2>2, <2>3, ListGoesOn
  <2>5. shown'[q][p] = shown[q][p]
    BY <1>0, <2>1, NotifiedElsewhere DEF TellFriend
  <2> QED
    BY <1>0, <2>1, <2>2, <2>4, <2>5 DEF TellFriend
<1>11. CASE TellFails(r)
  <2>1. call' = [call EXCEPT ![r] = Onward(r, AfterFailing(r))] /\ call[r] # Idle
    BY <1>11 DEF TellFails, At, AfterFailing
  <2>2. /\ AfterFailing(r) \in Call /\ Fits(AfterFailing(r)) /\ AfterFailing(r).at \in {"read", "tell"}
        /\ AfterFailing(r).list = call[r].list
    BY <1>0, <1>11, FailedOn DEF TellFails
  <2>3. (\A y \in People : y # r => call'[y] = call[y]) /\ (call'[r] # Idle => call'[r].list = call[r].list)
    BY <1>0, <2>1, <2>2, ListGoesOn
  <2> QED
    BY <1>0, <1>11, <2>1, <2>3 DEF TellFails
<1>12. CASE Reply(r)
  <2>1. (\A x \in People : x # r => call'[x] = call[x]) /\ call'[r] = Idle
    BY <1>0, <1>12, CallEnds DEF Reply
  <2>2. r # q => shown'[q] = shown[q]
    BY <1>0, <1>12 DEF Reply, ShownOK
  <2>3. r = q => call[q] # Idle /\ shown'[q][p] \in {shown[q][p], call[q].list[p]}
    BY <1>0, <1>12 DEF Reply, ShownOK, At
  <2> QED
    BY <1>0, <1>12, <2>1, <2>2, <2>3 DEF Reply
<1>13. CASE \E n \in news[r] : \E x \in People : NewsTell(r, n, x)
  <2>1. PICK n \in news[r] : \E x \in People : NewsTell(r, n, x)
    BY <1>13
  <2>2. PICK x \in People : NewsTell(r, n, x)
    BY <2>1
  <2>3. shown'[q][p] = shown[q][p]
    BY <1>0, <2>2, NotifiedElsewhere DEF NewsTell
  <2> QED
    BY <1>0, <2>2, <2>3 DEF NewsTell, NewsOK
<1>14. CASE \E n \in news[r] : NewsFails(r, n)
  BY <1>0, <1>14 DEF NewsFails, NewsOK
<1>15. CASE Disconnect(r)
  BY <1>0, <1>15 DEF Disconnect, LinksOK, EndingsOK, ShownOK, Nothing
<1>16. CASE EndLookup(r)
  BY <1>0, <1>16 DEF EndLookup, EndingsOK
<1>17. CASE \E x \in People : EndTell(r, x)
  <2>1. PICK x \in People : EndTell(r, x)
    BY <1>17
  <2>2. shown'[q][p] = shown[q][p]
    BY <1>0, <2>1, NotifiedElsewhere DEF EndTell
  <2> QED
    BY <1>0, <2>1, <2>2 DEF EndTell, EndingsOK
<1>18. CASE EndTellFails(r)
  BY <1>0, <1>18 DEF EndTellFails, EndingsOK
<1>19. CASE EndDelete(r)
  BY <1>0, <1>19 DEF EndDelete, EntriesOK, EndingsOK
<1> QED
  BY <1>1, <1>2, <1>3, <1>4, <1>5, <1>6, <1>7, <1>8, <1>9, <1>10, <1>11, <1>12, <1>13, <1>14, <1>15, <1>16,
     <1>17, <1>18, <1>19 DEF StepOf

-----------------------------------------------------------------------------
\* p stops being doomed only as the entry is deleted.
LEMMA DoomEnds ==
    ASSUME Shaped, PlainOK, NEW p \in People, NEW r \in People, StepOf(r), Doomed(p), ~Doomed(p)'
    PROVE  EndDelete(p)
<1>0. LinksOK /\ EndingsOK /\ entry[p] # NoEntry
  BY DEF Shaped, PlainOK, Plain
<1> USE DEF Doomed
<1>1. CASE Connect(r)
  BY <1>0, <1>1 DEF Connect, LinksOK
<1>2. CASE Disconnect(r)
  BY <1>0, <1>2 DEF Disconnect, LinksOK, EndingsOK
<1>3. CASE EndLookup(r)
  BY <1>0, <1>3, Distinct DEF EndLookup, EndingsOK, Ends, Ending
<1>4. CASE \E x \in People : EndTell(r, x)
  BY <1>0, <1>4, Distinct DEF EndTell, EndingsOK, Ends, Ending
<1>5. CASE EndTellFails(r)
  BY <1>0, <1>5, Distinct DEF EndTellFails, EndingsOK, Ends, Ending
<1>6. CASE EndDelete(r)
  BY <1>0, <1>6 DEF EndDelete, EndingsOK
<1>7. CASE UNCHANGED <<online, ending>>
  BY <1>7
<1> QED
  BY <1>1, <1>2, <1>3, <1>4, <1>5, <1>6, <1>7 DEF StepOf, UpdatePresenceWiiU, UpdateAndGetAllInformation,
     GetFriendPresence, UpdatePresence3DS, Store3DS, UpdatePreference, ReadFriend, ReadFails, TellFriend,
     TellFails, Reply, NewsTell, NewsFails

\* What a list says of an entry is shown of its presence.
LEMMA ViewTallies ==
    ASSUME EntriesOK, NEW p \in People, ~At(p, "store")
    PROVE  Tallies(View(p), Word(p))
<1>1. CASE entry[p] = NoEntry
  BY <1>1 DEF View, Word, Tallies
<1>2. CASE entry[p] # NoEntry
  <2>1. PICK v : v = [title |-> entry[p].title, online |-> entry[p].online]
    OBVIOUS
  <2>2. v \in Listed /\ v.title = entry[p].title /\ entry[p].title # Offline
    BY <1>2, <2>1, Distinct DEF EntriesOK, Entry, Listed
  <2>3. View(p) = v
    BY <1>2, <2>1 DEF View
  <2> QED
    BY <1>2, <2>2, <2>3, Distinct DEF Word, Tallies
<1> QED
  BY <1>1, <1>2

\* What a notification says is shown.
LEMMA AnnouncedTallies ==
    \A n \in Titles \cup {Fresh, Offline} : Tallies(Announced(n), n)
<1> SUFFICES ASSUME NEW n \in Titles \cup {Fresh, Offline} PROVE Tallies(Announced(n), n)
  OBVIOUS
<1>1. CASE n = Offline
  BY <1>1 DEF Announced, Tallies
<1>2. CASE n # Offline
  <2>1. PICK v : v = [title |-> n, online |-> TRUE]
    OBVIOUS
  <2>2. v \in Listed /\ v.title = n
    BY <1>2, <2>1 DEF Listed
  <2>3. Announced(n) = v
    BY <1>2, <2>1 DEF Announced
  <2> QED
    BY <1>2, <2>2, <2>3, Distinct DEF Tallies
<1> QED
  BY <1>1, <1>2

\* q reads p: what it reads is what it is to show, or it will be told.
LEMMA ReadStep ==
    ASSUME Shaped, PlainOK, NEW q \in People, NEW p \in Friends(q), ReadFriend(q, p), Stays(p), Sees(q, p),
           ~((platform = "CTR" /\ At(p, "store")) \/ (Ends(p, "tell") /\ q \notin ending[p].todo))
    PROVE  Sees(q, p)'
<1>0. EntriesOK /\ CallsOK /\ ShownOK /\ p \in People /\ q # p /\ platform \in {"WUP", "CTR"}
  BY Everyones DEF Shaped, LinksOK
<1>1. Goal(p)' = Goal(p) /\ WillTell(q, p)' = WillTell(q, p)
  BY <1>0, StaysTold
<1>2. CASE WillTell(q, p)
  BY <1>1, <1>2 DEF Sees
<1>3. CASE ~WillTell(q, p)
  <2>1. ~Ends(p, "tell")
    BY <1>3 DEF WillTell, EndWillTell
  <2>2. ~At(p, "store")
    BY <1>0 DEF PlainOK, Plain
  <2>3. Goal(p) = Word(p)
    BY <2>1 DEF Goal
  <2>4. Tallies(View(p), Word(p))
    BY <1>0, <2>2, ViewTallies
  <2>5. call' = [call EXCEPT ![q] = Onward(q, AfterRead(q, p))] /\ call[q] # Idle /\ call[q] \in Call
    BY <1>0, Saids DEF ReadFriend, At, AfterRead
  <2>6. /\ AfterRead(q, p) \in Call /\ Fits(AfterRead(q, p)) /\ AfterRead(q, p).at \in {"read", "tell"}
        /\ AfterRead(q, p).list = [call[q].list EXCEPT ![p] = View(p)]
    BY <1>0, ReadOn DEF ReadFriend
  <2>7. call'[q] # Idle => call'[q].list[p] = View(p)
    <3>1. call[q].list \in [People -> Sight]
      BY <2>5 DEF Call
    <3>2. call'[q] # Idle => call'[q].list = AfterRead(q, p).list
      BY <1>0, <2>5, <2>6, ListGoesOn
    <3> QED
      BY <1>0, <2>6, <3>1, <3>2
  <2>8. PICK g, v : g = Word(p) /\ v = View(p)
    OBVIOUS
  <2>9. Goal(p)' = g /\ shown'[q][p] = shown[q][p]
    BY <1>1, <2>3, <2>8 DEF ReadFriend
  <2>10. Tallies(shown[q][p], g) /\ Tallies(v, g)
    BY <1>3, <2>3, <2>4, <2>8 DEF Sees
  <2>11. Tallies(shown[q][p], Goal(p))' /\ (call[q] # Idle => Tallies(call[q].list[p], Goal(p)))'
    BY <2>7, <2>8, <2>9, <2>10 DEF Tallies
  <2> QED
    BY <2>11 DEF Sees
<1> QED
  BY <1>2, <1>3

-----------------------------------------------------------------------------
\* What p does: the pair is as it should be, and stays so.
Open(q, p) == Hears(q) /\ Plain(q) /\ Plain(p) /\ ~Doomed(p) /\ Speaks(p) /\ Sees(q, p)

LEMMA ConnectOwn ==
    ASSUME Shaped, NEW q \in People, NEW p \in Friends(q), Open(q, p), Connect(p), ~Doomed(p)'
    PROVE  Speaks(p)' /\ Sees(q, p)'
<1>0. LinksOK /\ EntriesOK /\ p \in People /\ q # p
  BY Everyones DEF Shaped
<1>1. ~online[p] /\ call[p] = Idle /\ news[p] = {}
  BY DEF Connect, Open, Speaks
<1>2. online'[p] /\ ending[p] = Idle
  BY <1>0 DEF Connect, Doomed, LinksOK
<1>3. entry[p] = NoEntry
  BY <1>1, <1>2 DEF Open, Speaks
<1>4. PICK e : e = [conn |-> conn'[p], title |-> Fresh, online |-> FALSE]
  OBVIOUS
<1>5. e \in Entry /\ e.title = Fresh
  <2>1. conn'[p] \in Nat
    BY <1>0 DEF Connect, LinksOK
  <2> QED
    BY <1>4, <2>1 DEF Entry
<1>6. entry' = [entry EXCEPT ![p] = e] /\ UNCHANGED <<call, news, ending, shown>>
  BY <1>4 DEF Connect
<1>7. entry'[p] # NoEntry /\ entry'[p].title = Fresh
  BY <1>0, <1>5, <1>6, Distinct DEF EntriesOK
<1>8. Speaks(p)'
  BY <1>1, <1>2, <1>6 DEF Speaks, Telling, At
<1>9. ~WillTell(q, p) /\ Goal(p) = Offline /\ Goal(p)' = Fresh
  BY <1>1, <1>2, <1>3, <1>6, <1>7 DEF WillTell, CallWillTell, NewsWillTell, EndWillTell, At, Ends, Goal, Word
<1>10. \A x : Tallies(x, Offline) => Tallies(x, Fresh)
  BY Distinct DEF Tallies
<1>11. Tallies(shown[q][p], Fresh) /\ (call[q] # Idle => Tallies(call[q].list[p], Fresh))
  BY <1>9, <1>10 DEF Open, Sees
<1>12. Tallies(shown[q][p], Goal(p))' /\ (call[q] # Idle => Tallies(call[q].list[p], Goal(p)))'
  BY <1>6, <1>9, <1>11 DEF Tallies
<1> QED
  BY <1>8, <1>12 DEF Sees

\* A Wii U's presence is stored and will be told.
LEMMA StoringOwn ==
    ASSUME Shaped, NEW q \in People, NEW p \in Friends(q), Open(q, p), NEW t \in Titles,
           UpdatePresenceWiiU(p, t) \/ UpdateAndGetAllInformation(p, t)
    PROVE  Speaks(p)' /\ Sees(q, p)'
<1>0. LinksOK /\ EntriesOK /\ CallsOK /\ p \in People /\ q # p /\ q \in Friends(p)
  BY Everyones DEF Shaped
<1>1. PICK place \in {"tell", "read"}, replies \in BOOLEAN, on \in BOOLEAN :
        Begin(p, place, <<t>>, replies) /\ Store(p, conn[p], t, on)
  <2>1. CASE UpdatePresenceWiiU(p, t)
    <3>1. Begin(p, "tell", <<t>>, FALSE) /\ Store(p, conn[p], t, TRUE)
      BY <2>1 DEF UpdatePresenceWiiU
    <3> QED
      BY <3>1
  <2>2. CASE UpdateAndGetAllInformation(p, t)
    <3>1. Begin(p, "read", <<t>>, TRUE) /\ Store(p, conn[p], t, FALSE)
      BY <2>2 DEF UpdateAndGetAllInformation
    <3> QED
      BY <3>1
  <2> QED
    BY <2>1, <2>2
<1>2. platform = "WUP" /\ UNCHANGED <<online, news, ending, shown>>
  BY DEF UpdatePresenceWiiU, UpdateAndGetAllInformation
<1>3. t \in Notice /\ conn[p] \in Nat
  BY <1>0 DEF Notice, LinksOK
<1>4. /\ call[p] = Idle /\ online[p]
      /\ call'[p] # Idle /\ call'[p].at = place /\ call'[p].says = <<t>> /\ call'[p].todo = Friends(p)
  <2>1. PICK s : s = <<t>>
    OBVIOUS
  <2>2. s \in Seq(Notice) /\ s # <<>> /\ Begin(p, place, s, replies)
    BY <1>1, <1>3, <2>1, OneSaid
  <2>3. place \in {"read", "tell", "store"} /\ place # "store"
    OBVIOUS
  <2>4. /\ call[p] = Idle /\ online[p]
        /\ call'[p] # Idle /\ call'[p].at = place /\ call'[p].says = s /\ call'[p].todo = Friends(p)
    BY <1>0, <2>2, <2>3, BeginFits
  <2> QED
    BY <2>1, <2>4
<1>5. entry'[p] # NoEntry /\ entry'[p].title = t
  BY <1>0, <1>1, <1>3, EntryStored
<1>6. news'[p] = {}
  BY <1>2 DEF Open, Plain
<1>7. Speaks(p)'
  BY <1>2, <1>3, <1>4, <1>5, <1>6, OneSaid DEF Speaks
<1>8. CallWillTell(q, p)'
  BY <1>0, <1>3, <1>4, OneSaid DEF CallWillTell, At
<1> QED
  BY <1>7, <1>8 DEF Sees, WillTell

LEMMA ReadingOwn ==
    ASSUME Shaped, NEW q \in People, NEW p \in Friends(q), Open(q, p), GetFriendPresence(p)
    PROVE  Speaks(p)' /\ Sees(q, p)'
<1>0. LinksOK /\ CallsOK /\ p \in People /\ q # p
  BY Everyones DEF Shaped
<1>1. <<>> \in Seq(Notice)
  BY EmptySeq
<1>2. /\ call[p] = Idle /\ online[p] /\ call'[p] # Idle /\ call'[p].at = "read" /\ call'[p].says = <<>>
      /\ \A r \in People : r # p => call'[r] = call[r]
  BY <1>0, <1>1, BeginFits DEF GetFriendPresence
<1>3. UNCHANGED <<online, entry, news, ending, shown>>
  BY DEF GetFriendPresence
<1>4. Word(p)' = Word(p) /\ Goal(p)' = Goal(p) /\ ~Telling(p)'
  BY <1>2, <1>3 DEF Word, Goal, At, Ends, Telling
<1>5. Speaks(p)'
  BY <1>2, <1>3, <1>4 DEF Open, Speaks
<1>6. WillTell(q, p) => WillTell(q, p)'
  BY <1>2, <1>3 DEF WillTell, CallWillTell, NewsWillTell, EndWillTell, At, Ends
<1>7. Keeps(q, p)
  BY <1>0, <1>2, <1>3 DEF Keeps
<1> QED
  BY <1>4, <1>5, <1>6, <1>7, KeepsSees DEF Open

\* The goroutine of a 3DS will tell what is about to be stored.
LEMMA NewsOwn ==
    ASSUME Shaped, NEW q \in People, NEW p \in Friends(q), Open(q, p), NEW t \in Titles,
           UpdatePresence3DS(p, t), news[p] = {}
    PROVE  Speaks(p)' /\ Sees(q, p)'
<1>0. LinksOK /\ CallsOK /\ NewsOK /\ p \in People /\ q # p /\ q \in Friends(p)
  BY Everyones DEF Shaped
<1>1. t \in Notice
  BY DEF Notice
<1>2. /\ call[p] = Idle /\ online[p] /\ call'[p] # Idle /\ call'[p].at = "store" /\ call'[p].says = <<t>>
  BY <1>0, <1>1, BeginFits, OneSaid DEF UpdatePresence3DS
<1>3. PICK n : n = [title |-> t, todo |-> Friends(p)]
  OBVIOUS
<1>4. news'[p] = {n} /\ n.title = t /\ n.todo = Friends(p)
  BY <1>0, <1>3 DEF UpdatePresence3DS, NewsOK
<1>5. Word(p)' = t /\ ~Telling(p)'
  BY <1>1, <1>2, OneSaid DEF Word, At, Telling
<1>6. online'[p]
  BY <1>2 DEF UpdatePresence3DS
<1>7. Speaks(p)'
  BY <1>4, <1>5, <1>6 DEF Speaks
<1>8. NewsWillTell(q, p)'
  BY <1>0, <1>4 DEF NewsWillTell
<1> QED
  BY <1>7, <1>8 DEF Sees, WillTell

\* ... and is stored.
LEMMA StoreOwn ==
    ASSUME Shaped, NEW q \in People, NEW p \in Friends(q), Open(q, p), Store3DS(p)
    PROVE  Speaks(p)' /\ Sees(q, p)'
<1>0. EntriesOK /\ CallsOK /\ p \in People /\ q # p
  BY Everyones DEF Shaped
<1>1. At(p, "store") /\ call[p].conn \in Nat /\ Head(call[p].says) \in Titles
  BY <1>0, Saids DEF Store3DS, At, Call
<1>2. (\A r \in People : r # p => call'[r] = call[r]) /\ call'[p] = Idle
  BY <1>0, CallEnds DEF Store3DS
<1>3. entry'[p] # NoEntry /\ entry'[p].title = Head(call[p].says)
  BY <1>0, <1>1, EntryStored DEF Store3DS
<1>4. UNCHANGED <<online, news, ending, shown>>
  BY DEF Store3DS
<1>5. online[p] /\ ending[p] = Idle
  BY <1>1 DEF At, Open, Speaks, Doomed
<1>6. Word(p)' = Word(p) /\ Goal(p)' = Goal(p) /\ ~Telling(p)'
  BY <1>1, <1>2, <1>3, <1>4 DEF Word, Goal, At, Ends, Telling
<1>7. Speaks(p)'
  BY <1>4, <1>5, <1>6 DEF Open, Speaks
<1>8. WillTell(q, p) => WillTell(q, p)'
  BY <1>1, <1>4, <1>5 DEF WillTell, CallWillTell, NewsWillTell, EndWillTell, At, Ends
<1>9. Keeps(q, p)
  BY <1>0, <1>2, <1>4 DEF Keeps
<1> QED
  BY <1>6, <1>7, <1>8, <1>9, KeepsSees DEF Open

\* p's list has one more friend: what p announces is as it was.
LEMMA ReadOwn ==
    ASSUME Shaped, NEW q \in People, NEW p \in Friends(q), Open(q, p), NEW x \in People, ReadFriend(p, x)
    PROVE  Speaks(p)' /\ Sees(q, p)'
<1>0. EntriesOK /\ CallsOK /\ p \in People /\ q # p /\ q \in Friends(p)
  BY Everyones DEF Shaped
<1>1. PICK c : c = AfterRead(p, x)
  OBVIOUS
<1>2. call' = [call EXCEPT ![p] = Onward(p, c)] /\ At(p, "read") /\ call[p] # Idle
  BY <1>1 DEF ReadFriend, At, AfterRead
<1>3. c \in Call /\ Fits(c) /\ c.at = "read" /\ c.says = call[p].says
  BY <1>0, <1>1, ReadOn DEF ReadFriend
<1>4. PICK d : d = Onward(p, c)
  OBVIOUS
<1>5. call'[p] = d /\ \A r \in People : r # p => call'[r] = call[r]
  BY <1>0, <1>2, <1>3, <1>4, CallGoesOn
<1>6. /\ d # Idle => d.at # "store"
      /\ c.todo # {} => d = c
      /\ c.todo = {} /\ c.says # <<>> => d # Idle /\ d.at = "tell" /\ d.says = c.says /\ d.todo = Friends(p)
      /\ c.todo = {} /\ c.says = <<>> => d = Idle \/ (d.at = "reply" /\ d.says = <<>>)
  BY <1>0, <1>3, <1>4, OnwardFits
<1>7. UNCHANGED <<online, entry, news, ending, shown>>
  BY DEF ReadFriend
<1>8. ~At(p, "store") /\ ~At(p, "store")'
  BY <1>2, <1>3, <1>5, <1>6 DEF At
<1>9. Word(p)' = Word(p) /\ Goal(p)' = Goal(p)
  BY <1>7, <1>8 DEF Word, Goal, Ends
<1>10. Telling(p)' => Telling(p) /\ call'[p].says = call[p].says
  BY <1>2, <1>3, <1>5, <1>6 DEF Telling, At
<1>11. online[p]
  BY <1>2 DEF Open, Speaks
<1>12. Speaks(p)'
  BY <1>7, <1>9, <1>10, <1>11 DEF Open, Speaks
<1>13. CallWillTell(q, p) => CallWillTell(q, p)'
  BY <1>0, <1>2, <1>3, <1>5, <1>6, Distinct DEF CallWillTell, At
<1>14. WillTell(q, p) => WillTell(q, p)'
  BY <1>7, <1>13 DEF WillTell, NewsWillTell, EndWillTell, Ends
<1>15. Keeps(q, p)
  BY <1>0, <1>5, <1>7 DEF Keeps
<1> QED
  BY <1>9, <1>12, <1>14, <1>15, KeepsSees DEF Open

\* Whoever is not reached is not connected, and shows nothing; whoever reads
\* meanwhile has not read p.
LEMMA NotifiedSees ==
    ASSUME Shaped, NEW q \in People, NEW p \in Friends(q), Open(q, p), NEW n, n = Goal(p)',
           n \in Titles \cup {Fresh, Offline}, Notify(q, p, n), call'[q] = call[q], <<q, p>> \notin Overtaken(q, p)
    PROVE  Sees(q, p)'
<1>0. ShownOK /\ p \in People
  BY Everyones DEF Shaped
<1>1. call'[q] # Idle => call'[q].list[p] = Unknown
  BY DEF Overtaken
<1>2. CASE Reached(q)
  <2>1. shown'[q][p] = Announced(n)
    BY <1>0, <1>2, NotifiedElsewhere
  <2>2. Tallies(shown'[q][p], n)
    BY <2>1, AnnouncedTallies
  <2>3. Tallies(shown[q][p], Goal(p))' /\ (call[q] # Idle => Tallies(call[q].list[p], Goal(p)))'
    BY <1>1, <2>2 DEF Tallies
  <2> QED
    BY <2>3 DEF Sees
<1>3. CASE ~Reached(q)
  <2>1. shown'[q][p] = shown[q][p] /\ shown[q] = Nothing
    BY <1>0, <1>3, NotifiedElsewhere DEF Open, Hears, Plain
  <2>2. shown'[q][p] = Unknown
    BY <1>0, <2>1 DEF Nothing
  <2>3. Tallies(shown[q][p], Goal(p))' /\ (call[q] # Idle => Tallies(call[q].list[p], Goal(p)))'
    BY <1>1, <2>2 DEF Tallies
  <2> QED
    BY <2>3 DEF Sees
<1> QED
  BY <1>2, <1>3

\* p's call tells a friend.
LEMMA TellOwn ==
    ASSUME Shaped, NEW q \in People, NEW p \in Friends(q), Open(q, p), NEW x \in People, TellFriend(p, x),
           <<q, p>> \notin Overtaken(x, p)
    PROVE  Speaks(p)' /\ Sees(q, p)'
<1>0. EntriesOK /\ CallsOK /\ ShownOK /\ p \in People /\ q # p /\ q \in Friends(p)
  BY Everyones DEF Shaped
<1>1. PICK c : c = AfterTold(p, x)
  OBVIOUS
<1>2. call' = [call EXCEPT ![p] = Onward(p, c)] /\ At(p, "tell") /\ call[p] # Idle
  BY <1>1 DEF TellFriend, At, AfterTold
<1>3. c \in Call /\ Fits(c) /\ c.at = "tell" /\ c.says = call[p].says /\ c.todo = call[p].todo \ {x}
  BY <1>0, <1>1, ToldOn DEF TellFriend
<1>4. PICK d : d = Onward(p, c)
  OBVIOUS
<1>5. call'[p] = d /\ \A r \in People : r # p => call'[r] = call[r]
  BY <1>0, <1>2, <1>3, <1>4, CallGoesOn
<1>6. Len(call[p].says) = 1 /\ entry[p] # NoEntry /\ Head(call[p].says) = entry[p].title
  BY <1>2 DEF Open, Speaks, Telling
<1>7. /\ d # Idle => d.at # "store"
      /\ c.todo # {} => d = c
      /\ c.todo = {} => d = Idle \/ (d.at = "reply" /\ d.says = <<>>)
  BY <1>0, <1>3, <1>4, <1>6, OnwardFits
<1>8. UNCHANGED <<online, entry, news, ending>>
  BY DEF TellFriend
<1>9. ~At(p, "store") /\ ~At(p, "store")'
  BY <1>2, <1>3, <1>5, <1>7 DEF At
<1>10. Word(p)' = Word(p) /\ Goal(p)' = Goal(p) /\ Word(p) = entry[p].title
  BY <1>6, <1>8, <1>9 DEF Word, Goal, Ends
<1>11. Telling(p)' => Telling(p) /\ call'[p].says = call[p].says
  BY <1>2, <1>3, <1>5, <1>7 DEF Telling, At
<1>12. online[p] /\ ending[p] = Idle
  BY <1>2 DEF Open, Speaks, Doomed
<1>13. Speaks(p)'
  BY <1>8, <1>10, <1>11, <1>12 DEF Open, Speaks
<1>14. CASE x = q
  <2>1. Goal(p)' = Head(call[p].says)
    BY <1>6, <1>10, <1>12 DEF Goal, Ends
  <2>2. Head(call[p].says) \in Titles \cup {Fresh, Offline}
    BY <1>0, <1>6 DEF EntriesOK, Entry
  <2>3. Sees(q, p)'
    BY <1>0, <1>5, <1>14, <2>1, <2>2, NotifiedSees DEF TellFriend
  <2> QED
    BY <1>13, <2>3
<1>15. CASE x # q
  <2>1. CallWillTell(q, p) => CallWillTell(q, p)'
    BY <1>0, <1>2, <1>3, <1>5, <1>7, <1>15, Distinct DEF CallWillTell, At
  <2>2. WillTell(q, p) => WillTell(q, p)'
    BY <1>8, <2>1 DEF WillTell, NewsWillTell, EndWillTell, Ends
  <2>3. shown'[q][p] = shown[q][p]
    BY <1>0, <1>15, NotifiedElsewhere DEF TellFriend
  <2>4. Keeps(q, p)
    BY <1>0, <1>5, <2>3 DEF Keeps
  <2>5. Sees(q, p)'
    BY <1>10, <2>2, <2>4, KeepsSees DEF Open
  <2> QED
    BY <1>13, <2>5
<1> QED
  BY <1>14, <1>15

\* p's own answer says nothing of p.
LEMMA ReplyOwn ==
    ASSUME Shaped, NEW q \in People, NEW p \in Friends(q), Open(q, p), Reply(p)
    PROVE  Speaks(p)' /\ Sees(q, p)'
<1>0. CallsOK /\ ShownOK /\ p \in People /\ q # p
  BY Everyones DEF Shaped
<1>1. At(p, "reply") /\ call'[p] = Idle /\ \A r \in People : r # p => call'[r] = call[r]
  BY <1>0, CallEnds DEF Reply
<1>2. UNCHANGED <<online, entry, news, ending>> /\ shown'[q] = shown[q]
  BY <1>0 DEF Reply, ShownOK
<1>3. Word(p)' = Word(p) /\ Goal(p)' = Goal(p) /\ ~Telling(p)'
  BY <1>1, <1>2 DEF Word, Goal, At, Ends, Telling
<1>4. online[p]
  BY <1>1 DEF At, Open, Speaks
<1>5. Speaks(p)'
  BY <1>2, <1>3, <1>4 DEF Open, Speaks
<1>6. WillTell(q, p) => WillTell(q, p)'
  BY <1>1, <1>2 DEF WillTell, CallWillTell, NewsWillTell, EndWillTell, At, Ends
<1>7. Keeps(q, p)
  BY <1>0, <1>1, <1>2 DEF Keeps
<1> QED
  BY <1>3, <1>5, <1>6, <1>7, KeepsSees DEF Open

\* A goroutine of p tells a friend.
LEMMA NewsTellOwn ==
    ASSUME Shaped, NEW q \in People, NEW p \in Friends(q), Open(q, p), NEW n \in news[p], NEW x \in People,
           NewsTell(p, n, x), <<q, p>> \notin Overtaken(x, p)
    PROVE  Speaks(p)' /\ Sees(q, p)'
<1>0. NewsOK /\ ShownOK /\ p \in People /\ q # p /\ q \in Friends(p) /\ n \in News
  BY Everyones DEF Shaped, NewsOK
<1>1. PICK rest : rest = n.todo \ {x}
  OBVIOUS
<1>2. PICK m : m = [n EXCEPT !.todo = rest]
  OBVIOUS
<1>3. m.title = n.title /\ m.todo = rest /\ n.title \in Titles
  BY <1>0, <1>2 DEF News
<1>4. PICK s : s = (news[p] \ {n}) \cup (IF rest = {} THEN {} ELSE {m})
  OBVIOUS
<1>5. news' = [news EXCEPT ![p] = s]
  BY <1>1, <1>2, <1>4 DEF NewsTell
<1>6. news[p] = {n} /\ n.title = Word(p)
  BY DEF Open, Speaks
<1>7. news'[p] = IF rest = {} THEN {} ELSE {m}
  BY <1>0, <1>4, <1>5, <1>6 DEF NewsOK
<1>8. UNCHANGED <<online, entry, call, ending>>
  BY DEF NewsTell
<1>9. Word(p)' = Word(p) /\ Goal(p)' = Goal(p) /\ Telling(p)' = Telling(p)
  BY <1>8 DEF Word, Goal, At, Ends, Telling
<1>10. online[p] /\ ending[p] = Idle
  BY <1>6 DEF Open, Speaks, Doomed
<1>11. Speaks(p)'
  BY <1>3, <1>6, <1>7, <1>8, <1>9, <1>10 DEF Open, Speaks
<1>12. CASE x = q
  <2>1. Goal(p)' = n.title
    BY <1>6, <1>9, <1>10 DEF Goal, Ends
  <2>2. Sees(q, p)'
    BY <1>0, <1>3, <1>8, <1>12, <2>1, NotifiedSees DEF NewsTell
  <2> QED
    BY <1>11, <2>2
<1>13. CASE x # q
  <2>1. NewsWillTell(q, p) => NewsWillTell(q, p)'
    BY <1>1, <1>3, <1>6, <1>7, <1>13 DEF NewsWillTell
  <2>2. WillTell(q, p) => WillTell(q, p)'
    BY <1>8, <2>1 DEF WillTell, CallWillTell, EndWillTell, At, Ends
  <2>3. shown'[q][p] = shown[q][p]
    BY <1>0, <1>13, NotifiedElsewhere DEF NewsTell
  <2>4. Keeps(q, p)
    BY <1>8, <2>3 DEF Keeps
  <2>5. Sees(q, p)'
    BY <1>9, <2>2, <2>4, KeepsSees DEF Open
  <2> QED
    BY <1>11, <2>5
<1> QED
  BY <1>12, <1>13

\* p leaves with nothing under way, and will be announced gone.
LEMMA LeaveOwn ==
    ASSUME Shaped, NEW q \in People, NEW p \in Friends(q), Open(q, p), Disconnect(p),
           call[p] = Idle, news[p] = {}
    PROVE  Speaks(p)' /\ Sees(q, p)'
<1>0. EndingsOK /\ ShownOK /\ p \in People /\ q # p
  BY Everyones DEF Shaped
<1>1. PICK e : e = [at |-> "queued", todo |-> Friends(p)]
  OBVIOUS
<1>2. e \in Ending /\ e.at = "queued"
  BY <1>0, <1>1, SomeFriends DEF Ending
<1>3. ending[p] = Idle /\ ending'[p] = e /\ e # Idle
  BY <1>0, <1>1, <1>2, Distinct DEF Disconnect, EndingsOK
<1>4. UNCHANGED <<entry, call, news>> /\ shown'[q] = shown[q]
  BY <1>0 DEF Disconnect, ShownOK
<1>5. Speaks(p)'
  BY <1>3, <1>4 DEF Speaks, Telling, At
<1>6. CASE entry[p] # NoEntry
  <2>1. EndWillTell(q, p)'
    BY <1>2, <1>3, <1>4, <1>6 DEF EndWillTell, Ends
  <2> QED
    BY <1>5, <2>1 DEF Sees, WillTell
<1>7. CASE entry[p] = NoEntry
  <2>1. ~WillTell(q, p) /\ Goal(p)' = Goal(p)
    BY <1>2, <1>3, <1>4, <1>7 DEF WillTell, CallWillTell, NewsWillTell, EndWillTell, At, Ends, Goal, Word
  <2>2. Keeps(q, p)
    BY <1>4 DEF Keeps
  <2>3. Sees(q, p)'
    BY <2>1, <2>2, KeepsSees DEF Open
  <2> QED
    BY <1>5, <2>3
<1> QED
  BY <1>6, <1>7

\* The end handler of p, who is not back, finds an entry ...
LEMMA LookupOwn ==
    ASSUME Shaped, NEW q \in People, NEW p \in Friends(q), Open(q, p), EndLookup(p)
    PROVE  Speaks(p)' /\ Sees(q, p)'
<1>0. EndingsOK /\ p \in People /\ q # p /\ q \in Friends(p)
  BY Everyones DEF Shaped
<1>1. ~online[p] /\ call[p] = Idle /\ news[p] = {} /\ Ends(p, "queued") /\ ending[p] # Idle
  BY DEF EndLookup, Ends, Open, Doomed, Speaks
<1>2. PICK e : e = [ending[p] EXCEPT !.at = "tell"]
  OBVIOUS
<1>3. e \in Ending /\ e.at = "tell" /\ e.todo = Friends(p) /\ e # Idle
  BY <1>0, <1>1, <1>2, Distinct DEF EndingsOK, Ending
<1>4. ending'[p] = IF entry[p] = NoEntry THEN Idle ELSE e
  BY <1>0, <1>2 DEF EndLookup, EndingsOK
<1>5. UNCHANGED <<online, entry, call, news, shown>>
  BY DEF EndLookup
<1>6. Speaks(p)'
  BY <1>1, <1>3, <1>4, <1>5 DEF Speaks, Telling, At
<1>7. CASE entry[p] # NoEntry
  <2>1. EndWillTell(q, p)'
    BY <1>0, <1>3, <1>4, <1>7 DEF EndWillTell, Ends
  <2> QED
    BY <1>6, <2>1 DEF Sees, WillTell
<1>8. CASE entry[p] = NoEntry
  <2>1. ~WillTell(q, p) /\ Goal(p)' = Goal(p)
    BY <1>1, <1>4, <1>5, <1>8 DEF WillTell, CallWillTell, NewsWillTell, EndWillTell, At, Ends, Goal, Word
  <2>2. Keeps(q, p)
    BY <1>5 DEF Keeps
  <2>3. Sees(q, p)'
    BY <2>1, <2>2, KeepsSees DEF Open
  <2> QED
    BY <1>6, <2>3
<1> QED
  BY <1>7, <1>8

\* ... tells a friend ...
LEMMA EndTellOwn ==
    ASSUME Shaped, NEW q \in People, NEW p \in Friends(q), Open(q, p), NEW x \in People, EndTell(p, x),
           <<q, p>> \notin Overtaken(x, p)
    PROVE  Speaks(p)' /\ Sees(q, p)'
<1>0. EndingsOK /\ ShownOK /\ p \in People /\ q # p /\ q \in Friends(p)
  BY Everyones DEF Shaped
<1>1. ~online[p] /\ call[p] = Idle /\ news[p] = {} /\ Ends(p, "tell") /\ ending[p] # Idle
  BY DEF EndTell, Ends, Open, Doomed, Speaks
<1>2. PICK e : e = [ending[p] EXCEPT !.todo = @ \ {x}]
  OBVIOUS
<1>3. e \in Ending /\ e.at = "tell" /\ e.todo = ending[p].todo \ {x} /\ e # Idle
  BY <1>0, <1>1, <1>2, Distinct DEF EndingsOK, Ends, Ending
<1>4. ending'[p] = e
  BY <1>0, <1>2 DEF EndTell, EndingsOK
<1>5. UNCHANGED <<online, entry, call, news>>
  BY DEF EndTell
<1>6. Speaks(p)'
  BY <1>1, <1>3, <1>4, <1>5 DEF Speaks, Telling, At
<1>7. Goal(p) = Offline /\ Goal(p)' = Offline
  BY <1>1, <1>3, <1>4 DEF Goal, Ends
<1>8. CASE x = q
  <2>1. Sees(q, p)'
    BY <1>0, <1>5, <1>7, <1>8, NotifiedSees DEF EndTell
  <2> QED
    BY <1>6, <2>1
<1>9. CASE x # q
  <2>1. WillTell(q, p) => WillTell(q, p)'
    BY <1>1, <1>3, <1>4, <1>9 DEF WillTell, CallWillTell, NewsWillTell, EndWillTell, At, Ends
  <2>2. shown'[q][p] = shown[q][p]
    BY <1>0, <1>9, NotifiedElsewhere DEF EndTell
  <2>3. Keeps(q, p)
    BY <1>5, <2>2 DEF Keeps
  <2>4. Sees(q, p)'
    BY <1>7, <2>1, <2>3, KeepsSees DEF Open
  <2> QED
    BY <1>6, <2>4
<1> QED
  BY <1>8, <1>9

\* ... and deletes the entry.
LEMMA DeleteOwn ==
    ASSUME Shaped, NEW q \in People, NEW p \in Friends(q), Open(q, p), EndDelete(p), ~online[p]
    PROVE  Speaks(p)' /\ Sees(q, p)'
<1>0. EntriesOK /\ EndingsOK /\ p \in People /\ q # p
  BY Everyones DEF Shaped
<1>1. call[p] = Idle /\ news[p] = {} /\ Ends(p, "tell") /\ ending[p].todo = {}
  BY DEF EndDelete, Open, Speaks
<1>2. entry'[p] = NoEntry /\ ending'[p] = Idle /\ UNCHANGED <<online, call, news, shown>>
  BY <1>0 DEF EndDelete, EntriesOK, EndingsOK
<1>3. Speaks(p)'
  BY <1>1, <1>2 DEF Speaks, Telling, At
<1>4. ~WillTell(q, p) /\ Goal(p)' = Goal(p)
  BY <1>1, <1>2 DEF WillTell, CallWillTell, NewsWillTell, EndWillTell, At, Ends, Goal, Word
<1>5. Keeps(q, p)
  BY <1>2 DEF Keeps
<1> QED
  BY <1>3, <1>4, <1>5, KeepsSees DEF Open

-----------------------------------------------------------------------------
\* What p does to a pair that is as it should be, and not in doubt after it.
LEMMA OwnStep ==
    ASSUME Shaped, NEW q \in People, NEW p \in Friends(q), Open(q, p), StepOf(p), ~Doomed(p)',
           <<q, p>> \notin doubt', ~Settled(q, p)'
    PROVE  Speaks(p)' /\ Sees(q, p)'
<1>0. p \in People /\ <<q, p>> \in Of(p)
  BY Everyones
<1>1. CASE Connect(p)
  BY <1>1, ConnectOwn
<1>2. CASE \E t \in Titles : UpdatePresenceWiiU(p, t) \/ UpdateAndGetAllInformation(p, t)
  BY <1>2, StoringOwn
<1>3. CASE GetFriendPresence(p)
  BY <1>3, ReadingOwn
<1>4. CASE \E t \in Titles : UpdatePresence3DS(p, t)
  <2>1. PICK t \in Titles : UpdatePresence3DS(p, t)
    BY <1>4
  <2>2. news[p] = {}
    BY <1>0, <2>1, DoubtSplit DEF UpdatePresence3DS
  <2> QED
    BY <2>1, <2>2, NewsOwn
<1>5. CASE Store3DS(p)
  BY <1>5, StoreOwn
<1>6. CASE \E showGame, publicMode \in BOOLEAN : UpdatePreference(p, showGame, publicMode)
  BY <1>0, <1>6, DoubtSplit DEF UpdatePreference
<1>7. CASE \E x \in People : ReadFriend(p, x)
  BY <1>7, ReadOwn
<1>8. CASE ReadFails(p)
  BY <1>0, <1>8, DoubtSplit DEF ReadFails
<1>9. CASE \E x \in People : TellFriend(p, x)
  <2>1. PICK x \in People : TellFriend(p, x)
    BY <1>9
  <2>2. <<q, p>> \notin Overtaken(x, p)
    BY <2>1, DoubtSplit DEF TellFriend
  <2> QED
    BY <2>1, <2>2, TellOwn
<1>10. CASE TellFails(p)
  BY <1>0, <1>10, DoubtSplit DEF TellFails
<1>11. CASE Reply(p)
  BY <1>11, ReplyOwn
<1>12. CASE \E n \in news[p] : \E x \in People : NewsTell(p, n, x)
  <2>1. PICK n \in news[p] : \E x \in People : NewsTell(p, n, x)
    BY <1>12
  <2>2. PICK x \in People : NewsTell(p, n, x)
    BY <2>1
  <2>3. <<q, p>> \notin Overtaken(x, p)
    BY <2>2, DoubtSplit DEF NewsTell
  <2> QED
    BY <2>2, <2>3, NewsTellOwn
<1>13. CASE \E n \in news[p] : NewsFails(p, n)
  BY <1>0, <1>13, DoubtSplit DEF NewsFails
<1>14. CASE Disconnect(p)
  <2>1. call[p] = Idle /\ news[p] = {}
    BY <1>0, <1>14, DoubtSplit DEF Disconnect
  <2> QED
    BY <1>14, <2>1, LeaveOwn
<1>15. CASE EndLookup(p)
  BY <1>15, LookupOwn
<1>16. CASE \E x \in People : EndTell(p, x)
  <2>1. PICK x \in People : EndTell(p, x)
    BY <1>16
  <2>2. <<q, p>> \notin Overtaken(x, p)
    BY <2>1, DoubtSplit DEF EndTell
  <2> QED
    BY <2>1, <2>2, EndTellOwn
<1>17. CASE EndTellFails(p)
  BY <1>0, <1>17, DoubtSplit DEF EndTellFails
<1>18. CASE EndDelete(p)
  <2>1. ~online[p]
    BY <1>0, <1>18, DoubtSplit DEF EndDelete
  <2> QED
    BY <1>18, <2>1, DeleteOwn
<1> QED
  BY <1>1, <1>2, <1>3, <1>4, <1>5, <1>6, <1>7, <1>8, <1>9, <1>10, <1>11, <1>12, <1>13, <1>14, <1>15, <1>16,
     <1>17, <1>18 DEF StepOf

LEMMA PairStep ==
    ASSUME Shaped, Shaped', PlainOK, NEW r \in People, StepOf(r), NEW q \in People, NEW p \in Friends(q),
           <<q, p>> \in doubt \/ PairOK(q, p)
    PROVE  <<q, p>> \in doubt' \/ PairOK(q, p)'
<1> SUFFICES ASSUME <<q, p>> \notin doubt', ~Settled(q, p)' PROVE PairOK(q, p)'
  BY SettledIsOK
<1>0. p \in People /\ q # p /\ <<q, p>> \in Of(p) /\ <<q, p>> \in {q} \X Friends(q)
  BY Everyones
<1>1. PICK D : Doubt(D)
  BY DEF StepOf, Connect, UpdatePresenceWiiU, UpdateAndGetAllInformation, GetFriendPresence, UpdatePresence3DS,
     Store3DS, UpdatePreference, ReadFriend, ReadFails, TellFriend, TellFails, Reply, NewsTell, NewsFails,
     Disconnect, EndLookup, EndTell, EndTellFails, EndDelete
<1>2. PairOK(q, p)
  BY <1>1, DoubtSplit
<1>3. ~(EndDelete(q) /\ online[q]) /\ ~(EndDelete(p) /\ online[p])
  BY <1>0, DoubtSplit DEF EndDelete
<1>4. Hears(q)'
  BY <1>2, <1>3, HearsStep DEF PairOK
<1> SUFFICES ASSUME ~Doomed(p)' PROVE Speaks(p)' /\ Sees(q, p)'
  BY <1>4 DEF PairOK
<1>5. ~Doomed(p)
  BY <1>0, <1>3, DoomEnds DEF Doomed
<1>6. Open(q, p)
  BY <1>0, <1>2, <1>5 DEF PairOK, Open, PlainOK
<1>7. CASE r = p
  BY <1>6, <1>7, OwnStep
<1>8. CASE r # p
  <2>1. Stays(p) /\ (Keeps(q, p) \/ (r = q /\ ReadFriend(q, p)))
    BY <1>8, ElsewhereStep
  <2>2. Speaks(p)' /\ Goal(p)' = Goal(p) /\ WillTell(q, p)' = WillTell(q, p)
    BY <1>0, <1>6, <2>1, StaysTold DEF Open
  <2>3. CASE Keeps(q, p)
    BY <1>6, <2>2, <2>3, KeepsSees DEF Open
  <2>4. CASE ReadFriend(q, p)
    <3>1. ~((platform = "CTR" /\ At(p, "store")) \/ (Ends(p, "tell") /\ q \notin ending[p].todo))
      BY <2>4, DoubtSplit DEF ReadFriend
    <3> QED
      BY <1>6, <2>1, <2>2, <2>4, <3>1, ReadStep DEF Open
  <2> QED
    BY <2>1, <2>3, <2>4
<1> QED
  BY <1>7, <1>8

LEMMA PairsInit == PresenceInit => PairsOK
<1> SUFFICES ASSUME PresenceInit, NEW q \in People, NEW p \in Friends(q) PROVE PairOK(q, p)
  BY DEF PairsOK
<1>1. p \in People
  BY DEF Friends
<1>2. /\ entry[p] = NoEntry /\ ~online[p] /\ ~online[q] /\ call[p] = Idle /\ call[q] = Idle /\ news[p] = {}
      /\ ending[p] = Idle /\ shown[q][p] = Unknown
  BY <1>1 DEF PresenceInit, Nothing
<1> QED
  BY <1>2 DEF PairOK, Hears, Speaks, Sees, Telling, At, Tallies

\* The invariant: the state has its shape, and whoever is not in doubt shows
\* what the server has, or will be told it.
PresenceInvariant == Shaped /\ PlainOK /\ PairsOK

LEMMA PresenceInvariantHolds == PresenceSpec => []PresenceInvariant
<1>1. PresenceInit => PresenceInvariant
  BY ShapedInit, PlainInit, PairsInit DEF PresenceInvariant
<1>2. PresenceInvariant /\ [PresenceNext]_presenceVars => PresenceInvariant'
  <2> SUFFICES ASSUME PresenceInvariant, [PresenceNext]_presenceVars PROVE PresenceInvariant'
    OBVIOUS
  <2>1. Shaped /\ PlainOK /\ PairsOK /\ Shaped' /\ PlainOK'
    BY ShapedStep, PlainStep DEF PresenceInvariant
  <2>2. CASE PresenceNext
    <3>1. PICK r \in People : StepOf(r)
      BY <2>2, StepIsSomeones
    <3>2. \A q \in People : \A p \in Friends(q) : <<q, p>> \in doubt \/ PairOK(q, p)
      BY <2>1 DEF PairsOK
    <3>3. \A q \in People : \A p \in Friends(q) : <<q, p>> \in doubt' \/ PairOK(q, p)'
      BY <2>1, <3>1, <3>2, PairStep
    <3>4. PairsOK'
      BY <3>3 DEF PairsOK, Friends
    <3> QED
      BY <2>1, <3>4 DEF PresenceInvariant
  <2>3. CASE UNCHANGED presenceVars
    <3>1. ASSUME NEW q \in People, NEW p \in Friends(q), <<q, p>> \in doubt \/ PairOK(q, p)
          PROVE  <<q, p>> \in doubt' \/ PairOK(q, p)'
      <4>1. p \in People /\ Stays(p) /\ Keeps(q, p) /\ Hears(q)' = Hears(q) /\ doubt' = doubt
        BY <2>3, Everyones DEF presenceVars, Stays, Keeps, Hears, Reached
      <4>2. Doomed(p)' = Doomed(p) /\ Speaks(p)' = Speaks(p) /\ (Sees(q, p) => Sees(q, p)')
        BY <4>1, StaysTold, KeepsSees
      <4> QED
        BY <3>1, <4>1, <4>2 DEF PairOK
    <3>2. \A q \in People : \A p \in Friends(q) : <<q, p>> \in doubt' \/ PairOK(q, p)'
      BY <2>1, <3>1 DEF PairsOK
    <3>3. PairsOK'
      BY <3>2 DEF PairsOK, Friends
    <3> QED
      BY <2>1, <3>3 DEF PresenceInvariant
  <2> QED
    BY <2>2, <2>3
<1> QED
  BY <1>1, <1>2, PTL DEF PresenceSpec

\* With nothing under way, what q shows of p is what the server has.
LEMMA QuietAgrees ==
    ASSUME PresenceInvariant, NEW q \in People, NEW p \in Friends(q), Quiet(q, p), <<q, p>> \notin doubt
    PROVE  /\ entry[p] # NoEntry => online[p]
           /\ Tallies(shown[q][p], IF entry[p] = NoEntry THEN Offline ELSE entry[p].title)
<1>1. PairOK(q, p) /\ ~Doomed(p)
  BY DEF PresenceInvariant, PairsOK, Quiet, Doomed
<1>2. ~WillTell(q, p) /\ Goal(p) = (IF entry[p] = NoEntry THEN Offline ELSE entry[p].title)
  BY DEF Quiet, WillTell, CallWillTell, NewsWillTell, EndWillTell, At, Ends, Goal, Word
<1> QED
  BY <1>1, <1>2 DEF PairOK, Speaks, Sees, Quiet

\* What a person announced is what the friends' consoles show, but for those
\* in doubt.
THEOREM TheAnnouncedAreShown == PresenceSpec => []AnnouncedIsShown
<1>1. PresenceInvariant => AnnouncedIsShown
  <2> SUFFICES ASSUME PresenceInvariant, NEW q \in People, NEW p \in Friends(q),
                      Quiet(q, p), <<q, p>> \notin doubt, entry[p] # NoEntry, entry[p].title # Fresh,
                      shown[q][p] # Unknown
               PROVE  shown[q][p] # Offline /\ shown[q][p].title = entry[p].title
    BY DEF AnnouncedIsShown
  <2>1. Tallies(shown[q][p], entry[p].title)
    BY QuietAgrees
  <2>2. entry[p].title # Offline
    BY Everyones, Distinct DEF PresenceInvariant, Shaped, EntriesOK, Entry
  <2> QED
    BY <2>1, <2>2 DEF Tallies
<1> QED
  BY <1>1, PresenceInvariantHolds, PTL

\* Nobody who has left stays on a friend's console, but for those in doubt.
THEOREM TheGoneAreShown == PresenceSpec => []GoneIsShown
<1>1. PresenceInvariant => GoneIsShown
  BY QuietAgrees DEF GoneIsShown, Tallies
<1> QED
  BY <1>1, PresenceInvariantHolds, PTL
=============================================================================
