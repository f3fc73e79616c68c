-------------------------- MODULE ResolutionProofs --------------------------
(***************************************************************************)
(* Proofs about Resolution for every set of keys, values and callers, every *)
(* time to live, timeout and lag.                                          *)
(***************************************************************************)
EXTENDS Resolution, TLAPS

\* What the proofs use of the constants, as one fact to cite.
LEMMA Constants ==
    /\ Self \in Keys
    /\ NotFound \notin Values
    /\ TTL \in Nat \ {0} /\ NegativeTTL \in Nat \ {0} /\ Timeout \in Nat /\ Lag \in Nat
    /\ Horizon \in Nat /\ Horizon > TTL + Timeout + Lag /\ Horizon > NegativeTTL + Timeout + Lag
    /\ MaxChanges \in Nat
BY KeyAssumption, ValueAssumption, TimeAssumption, BoundAssumption

\* An answer is kept for a while, and that is within the horizon.
LEMMA TimeToLiveType ==
    ASSUME NEW v \in Answers
    PROVE  TimeToLive(v) \in 1..Horizon /\ Window(v) = TimeToLive(v) + Timeout + Lag
BY Constants DEF TimeToLive, Window

-----------------------------------------------------------------------------
\* A call that waits no more is a call.
LEMMA OverType ==
    ASSUME NEW c \in Call, NEW place \in Places
    PROVE  /\ Over(c, place) \in Call
           /\ Over(c, place).todo = c.todo /\ Over(c, place).out = c.out
           /\ Over(c, place).failed = c.failed /\ Over(c, place).friends = c.friends
           /\ Over(c, place).settled = c.settled /\ Over(c, place).at = place
<1>1. 0 \in 0..(Timeout + Lag) /\ NotFound \in Answers /\ Self \in Keys
  BY Constants DEF Answers
<1>2. \A v \in Answers : \A k \in Keys : \A e \in 0..(Timeout + Lag) :
        [c EXCEPT !.at = place, !.key = k, !.value = v, !.elapsed = e] \in Call
  BY DEF Call
<1>3. Over(c, place) \in Call
  BY <1>1, <1>2 DEF Over
<1> QED
  BY <1>3 DEF Over, Call

\* A call that is told goes on as a call, or is over.
LEMMA TellType ==
    ASSUME NEW s \in Callers, NEW c \in Call, NEW v \in Answers,
           call \in [Callers -> Call \cup {Idle}]
    PROVE  Tell(s, c, v) \in [Callers -> Call \cup {Idle}]
<1> DEFINE next ==
        IF c.key = Self THEN Over(c, "list")
        ELSE [Over(c, "look") EXCEPT !.todo = @ \ {c.key},
                                     !.out = IF v = NotFound THEN @ ELSE @ \cup {<<c.key, v>>}]
<1>1. ASSUME NEW place \in Places PROVE Over(c, place) \in Call
  BY OverType
<1>2. next \in Call
  <2>1. CASE c.key = Self
    BY <1>1, <2>1 DEF Places
  <2>2. CASE c.key # Self
    <3>1. c.key \in Friends
      BY <2>2 DEF Call, Friends
    <3>2. Over(c, "look") \in Call
      BY <1>1 DEF Places
    <3>3. (IF v = NotFound THEN Over(c, "look").out ELSE Over(c, "look").out \cup {<<c.key, v>>})
            \in SUBSET (Friends \X Values)
      BY <3>1, <3>2 DEF Call, Answers
    <3>4. Over(c, "look").todo \ {c.key} \in SUBSET Friends
      BY <3>2 DEF Call
    <3>5. \A d \in Call : \A t \in SUBSET Friends : \A o \in SUBSET (Friends \X Values) :
            [d EXCEPT !.todo = t, !.out = o] \in Call
      BY DEF Call
    <3> QED
      BY <2>2, <3>2, <3>3, <3>4, <3>5
  <2> QED
    BY <2>1, <2>2
<1> QED
  BY <1>2 DEF Tell

\* ... and so does one that is told nothing.
LEMMA TellErrorType ==
    ASSUME NEW s \in Callers, NEW c \in Call, call \in [Callers -> Call \cup {Idle}]
    PROVE  TellError(s, c) \in [Callers -> Call \cup {Idle}]
<1>1. CASE ~c.lists \/ c.key = Self
  BY <1>1 DEF TellError
<1>2. CASE ~(~c.lists \/ c.key = Self)
  <2>1. c.key \in Friends
    BY <1>2 DEF Call, Friends
  <2>2. Over(c, "look") \in Call
    BY OverType DEF Places
  <2>3. \A d \in Call : \A t, f \in SUBSET Friends : [d EXCEPT !.todo = t, !.failed = f] \in Call
    BY DEF Call
  <2>4. Over(c, "look").todo \ {c.key} \in SUBSET Friends /\ Over(c, "look").failed \cup {c.key} \in SUBSET Friends
    BY <2>1, <2>2 DEF Call
  <2>5. [Over(c, "look") EXCEPT !.todo = @ \ {c.key}, !.failed = @ \cup {c.key}] \in Call
    BY <2>2, <2>3, <2>4
  <2> QED
    BY <1>2, <2>5 DEF TellError
<1> QED
  BY <1>1, <1>2

\* A new call is a call.
LEMMA NewCallType ==
    ASSUME NEW k \in Keys, NEW lists \in BOOLEAN
    PROVE  NewCall(k, lists) \in Call
<1>1. (lists /\ Settled) \in BOOLEAN
  BY Zenon DEF Settled
<1>2. 0 \in 0..(Timeout + Lag) /\ NotFound \in Answers
  BY Constants DEF Answers
<1> QED
  BY <1>1, <1>2 DEF NewCall, Call, Places

\* A lookup leaves calls, whether the cache answers or the adapter is asked.
LEMMA LookUpType ==
    ASSUME NEW s \in Callers, NEW c \in Call, NEW k \in Keys, LookUp(s, c, k),
           call \in [Callers -> Call \cup {Idle}], cache \in [Keys -> Entry \cup {NoEntry}]
    PROVE  call' \in [Callers -> Call \cup {Idle}]
<1>1. CASE Hit(s, c, k)
  <2>1. cache[k].value \in Answers
    BY <1>1 DEF Hit, Entry
  <2>2. [c EXCEPT !.key = k] \in Call
    BY DEF Call
  <2> QED
    BY <1>1, <2>1, <2>2, TellType DEF Hit
<1>2. CASE Miss(s, c, k)
  <2>1. 0 \in 0..(Timeout + Lag)
    BY Constants
  <2>2. [c EXCEPT !.at = "ask", !.key = k, !.elapsed = 0] \in Call
    BY <2>1 DEF Call, Places
  <2> QED
    BY <1>2, <2>2 DEF Miss
<1> QED
  BY <1>1, <1>2 DEF LookUp

-----------------------------------------------------------------------------
\* Nothing is cached and nothing is under way at first.
LEMMA TypeInit == Init => TypeOK
<1> SUFFICES ASSUME Init PROVE TypeOK
  OBVIOUS
<1>1. \A k \in Keys : \A v \in Answers : (IF v = truth[k] THEN 0 ELSE Horizon) \in 0..Horizon
  BY Constants
<1>2. since \in [Keys -> [Answers -> 0..Horizon]]
  BY <1>1 DEF Init
<1>3. \A k \in Keys : since[k][truth[k]] = 0
  BY DEF Init
<1> QED
  BY <1>2, <1>3, Constants DEF Init, TypeOK

\* The part of TypeOK that only time and changed links touch.
TruthOK ==
    /\ truth \in [Keys -> Answers]
    /\ changes \in 0..MaxChanges
    /\ since \in [Keys -> [Answers -> 0..Horizon]]
    /\ \A k \in Keys : since[k][truth[k]] = 0

CallsOK == call \in [Callers -> Call \cup {Idle}]
CacheOK == cache \in [Keys -> Entry \cup {NoEntry}]

LEMMA TypeParts == TypeOK <=> TruthOK /\ CallsOK /\ CacheOK
BY DEF TypeOK, TruthOK, CallsOK, CacheOK

\* Every step keeps every variable in its range.
LEMMA TypeStep == TypeOK /\ [Next]_vars => TypeOK'
<1> SUFFICES ASSUME TypeOK, [Next]_vars PROVE TypeOK'
  OBVIOUS
<1> DEFINE Still == UNCHANGED <<truth, changes, since>>
<1>1. Still => TruthOK'
  BY DEF TypeOK, TruthOK
<1>2. UNCHANGED cache => CacheOK'
  BY DEF TypeOK, CacheOK
<1>3. ASSUME NEW s \in Callers, NEW k \in Keys, BeginLookUp(s, k) PROVE TypeOK'
  <2>1. CallsOK'
    BY <1>3, NewCallType, LookUpType DEF BeginLookUp, TypeOK, CallsOK
  <2> QED
    BY <1>1, <1>2, <1>3, <2>1, TypeParts DEF BeginLookUp, TypeOK, TruthOK, CallsOK, CacheOK
<1>4. ASSUME NEW s \in Callers, AdapterAnswers(s) PROVE TypeOK'
  <2>1. call[s] \in Call
    BY <1>4 DEF AdapterAnswers, At, TypeOK
  <2>2. truth[call[s].key] \in Answers
    BY <2>1 DEF TypeOK, Call
  <2>3. [call[s] EXCEPT !.at = "told", !.value = truth[call[s].key]] \in Call
    BY <2>1, <2>2 DEF Call, Places
  <2>4. CallsOK'
    BY <1>4, <2>3 DEF AdapterAnswers, TypeOK, CallsOK
  <2> QED
    BY <1>4, <2>4 DEF AdapterAnswers, TypeOK, CallsOK
<1>5. ASSUME NEW s \in Callers, AdapterFails(s) PROVE TypeOK'
  <2>1. call[s] \in Call
    BY <1>5 DEF AdapterFails, At, TypeOK
  <2>2. CallsOK'
    BY <1>5, <2>1, TellErrorType DEF AdapterFails, TypeOK, CallsOK
  <2> QED
    BY <1>5, <2>2 DEF AdapterFails, TypeOK, CallsOK
<1>6. ASSUME NEW s \in Callers, Store(s) PROVE TypeOK'
  <2>1. call[s] \in Call
    BY <1>6 DEF Store, At, TypeOK
  <2>2. call[s].value \in Answers /\ call[s].key \in Keys
    BY <2>1 DEF Call
  <2>3. CallsOK'
    BY <1>6, <2>1, <2>2, TellType DEF Store, TypeOK, CallsOK
  <2>4. [value |-> call[s].value, left |-> TimeToLive(call[s].value)] \in Entry
    BY <2>2, TimeToLiveType DEF Entry
  <2>5. CacheOK'
    BY <1>6, <2>2, <2>4 DEF Store, TypeOK, CacheOK
  <2> QED
    BY <1>6, <2>3, <2>5 DEF Store, TypeOK, CallsOK, CacheOK
<1>7. ASSUME NEW s \in Callers, BeginList(s) PROVE TypeOK'
  <2>1. CallsOK'
    BY <1>7, Constants, NewCallType, LookUpType DEF BeginList, TypeOK, CallsOK
  <2> QED
    BY <1>7, <2>1 DEF BeginList, TypeOK, CallsOK
<1>8. ASSUME NEW s \in Callers, ListFriends(s) PROVE TypeOK'
  <2>1. call[s] \in Call
    BY <1>8 DEF ListFriends, At, TypeOK
  <2>2. \A S \in SUBSET Friends : [call[s] EXCEPT !.at = "look", !.friends = S, !.todo = S] \in Call
    BY <2>1 DEF Call, Places
  <2>3. CallsOK'
    <3>1. PICK S \in SUBSET Friends :
            call' = [call EXCEPT ![s].at = "look", ![s].friends = S, ![s].todo = S]
      BY <1>8 DEF ListFriends
    <3>2. PICK d \in Call : d = [call[s] EXCEPT !.at = "look", !.friends = S, !.todo = S]
      BY <2>2
    <3>3. call' = [call EXCEPT ![s] = d]
      BY <3>1, <3>2
    <3> QED
      BY <3>3 DEF TypeOK, CallsOK
  <2> QED
    BY <1>8, <2>3 DEF ListFriends, TypeOK, CallsOK
<1>9. ASSUME NEW s \in Callers, ListFriendsFails(s) \/ ListDone(s) PROVE TypeOK'
  BY <1>9 DEF ListFriendsFails, ListDone, TypeOK
<1>10. ASSUME NEW s \in Callers, NEW a \in Friends, ListNext(s, a) PROVE TypeOK'
  <2>1. call[s] \in Call /\ a \in Keys
    BY <1>10 DEF ListNext, At, TypeOK, Friends
  <2>2. CallsOK'
    BY <1>10, <2>1, LookUpType DEF ListNext, TypeOK, CallsOK
  <2> QED
    BY <1>10, <2>2 DEF ListNext, TypeOK, CallsOK
<1>11. ASSUME NEW k \in Keys, NEW v \in Answers, Relink(k, v) PROVE TypeOK'
  <2>1. CallsOK'
    <3>1. \A c \in Call : [c EXCEPT !.settled = FALSE] \in Call
      BY DEF Call
    <3> QED
      BY <1>11, <3>1 DEF Relink, TypeOK, CallsOK
  <2>2. TruthOK'
    <3>1. since' \in [Keys -> [Answers -> 0..Horizon]]
      BY <1>11, Constants DEF Relink, TypeOK
    <3>2. \A j \in Keys : since'[j][truth'[j]] = 0
      BY <1>11 DEF Relink, TypeOK
    <3> QED
      BY <1>11, <3>1, <3>2, Constants DEF Relink, TypeOK, TruthOK
  <2> QED
    BY <1>11, <2>1, <2>2 DEF Relink, TypeOK, TruthOK, CallsOK
<1>12. CASE Tick
  <2>1. CallsOK'
    <3>1. ASSUME NEW s \in Callers, At(s, "ask") \/ At(s, "told")
          PROVE  [call[s] EXCEPT !.elapsed = @ + 1] \in Call
      <4>1. call[s] \in Call
        BY <3>1 DEF At, TypeOK
      <4>2. call[s].elapsed + 1 \in 0..(Timeout + Lag)
        BY <1>12, <3>1, <4>1, Constants DEF Tick, Call
      <4> QED
        BY <4>1, <4>2 DEF Call
    <3> QED
      BY <1>12, <3>1 DEF Tick, TypeOK, CallsOK
  <2>2. CacheOK'
    <3>1. ASSUME NEW k \in Keys, cache[k] # NoEntry, cache[k].left # 1
          PROVE  [cache[k] EXCEPT !.left = @ - 1] \in Entry
      <4>1. cache[k] \in Entry
        BY <3>1 DEF TypeOK
      <4>2. cache[k].left - 1 \in 1..Horizon
        BY <3>1, <4>1, Constants DEF Entry
      <4> QED
        BY <4>1, <4>2 DEF Entry
    <3> QED
      BY <1>12, <3>1 DEF Tick, TypeOK, CacheOK
  <2>3. TruthOK'
    <3>1. \A k \in Keys : \A v \in Answers :
            (IF v = truth[k] THEN 0 ELSE Least(since[k][v] + 1, Horizon)) \in 0..Horizon
      BY Constants DEF Least, TypeOK
    <3>2. since' \in [Keys -> [Answers -> 0..Horizon]]
      BY <1>12, <3>1 DEF Tick
    <3>3. \A k \in Keys : since'[k][truth'[k]] = 0
      BY <1>12 DEF Tick, TypeOK
    <3> QED
      BY <1>12, <3>2, <3>3 DEF Tick, TypeOK, TruthOK
  <2> QED
    BY <2>1, <2>2, <2>3 DEF TypeOK, TruthOK, CallsOK, CacheOK
<1>13. CASE UNCHANGED vars
  BY <1>13 DEF vars, TypeOK
<1> QED
  BY <1>3, <1>4, <1>5, <1>6, <1>7, <1>8, <1>9, <1>10, <1>11, <1>12, <1>13 DEF Next

\* Calls, cache and ages stay what they are: in particular no entry outlives its
\* time and no call its timeout (coregraph.go, AccountOfPID and PIDOfAccount).
THEOREM TypeCorrect == Spec => []TypeOK
BY TypeInit, TypeStep, PTL DEF Spec

-----------------------------------------------------------------------------
CacheAges == \A k \in Keys : cache[k] # NoEntry =>
    since[k][cache[k].value] + cache[k].left <= Window(cache[k].value)
CallAges == \A s \in Callers : At(s, "told") =>
    since[call[s].key][call[s].value] <= call[s].elapsed

\* A call that was told, or was not, waits for nothing.
LEMMA TellPlace ==
    ASSUME NEW s \in Callers, NEW c \in Call, NEW v \in Answers,
           call \in [Callers -> Call \cup {Idle}],
           call' = Tell(s, c, v) \/ call' = TellError(s, c)
    PROVE  /\ ~At(s, "told")'
           /\ \A t \in Callers \ {s} : call'[t] = call[t]
<1>1. Over(c, "list").at = "list" /\ Over(c, "look").at = "look"
  BY DEF Over, Call
<1>2. \A d \in Call : \A t, o : [d EXCEPT !.todo = t, !.out = o].at = d.at
  BY DEF Call
<1>3. \A d \in Call : \A t, f : [d EXCEPT !.todo = t, !.failed = f].at = d.at
  BY DEF Call
<1>4. Over(c, "look") \in Call
  BY OverType DEF Places
<1>5. CASE call' = Tell(s, c, v)
  <2>1. call'[s] = Idle \/ call'[s].at \in {"look", "list"}
    BY <1>1, <1>2, <1>4, <1>5 DEF Tell
  <2> QED
    BY <1>5, <2>1 DEF Tell, At
<1>6. CASE call' = TellError(s, c)
  <2>1. call'[s] = Idle \/ call'[s].at = "look"
    BY <1>1, <1>3, <1>4, <1>6 DEF TellError
  <2> QED
    BY <1>6, <2>1 DEF TellError, At
<1> QED
  BY <1>5, <1>6

\* ... and the others wait as before.
LEMMA CallAgesKept ==
    ASSUME NEW s \in Callers, CallAges, UNCHANGED since, ~At(s, "told")',
           \A t \in Callers \ {s} : call'[t] = call[t]
    PROVE  CallAges'
BY DEF CallAges, At

\* A lookup stores nothing and has no answer to store.
LEMMA LookUpAges ==
    ASSUME NEW s \in Callers, NEW c \in Call, NEW k \in Keys, LookUp(s, c, k),
           TypeOK, CallAges, UNCHANGED since
    PROVE  CallAges'
<1>1. CASE Hit(s, c, k)
  <2>1. cache[k].value \in Answers
    BY <1>1 DEF Hit, Entry, TypeOK
  <2>2. [c EXCEPT !.key = k] \in Call
    BY DEF Call
  <2> QED
    BY <1>1, <2>1, <2>2, TellPlace, CallAgesKept DEF Hit, TypeOK
<1>2. CASE Miss(s, c, k)
  <2>1. ~At(s, "told")'
    BY <1>2 DEF Miss, At, TypeOK, Call
  <2> QED
    BY <1>2, <2>1, CallAgesKept DEF Miss, TypeOK
<1> QED
  BY <1>1, <1>2 DEF LookUp

\* Every step keeps the ages of answers within what they have waited and will
\* be kept.
LEMMA AgesStep == TypeOK /\ AgesAddUp /\ [Next]_vars => AgesAddUp'
<1> SUFFICES ASSUME TypeOK, CacheAges, CallAges, [Next]_vars PROVE CacheAges' /\ CallAges'
  BY DEF AgesAddUp, CacheAges, CallAges
<1>1. UNCHANGED <<cache, since>> => CacheAges'
  BY DEF CacheAges
<1>2. ASSUME NEW s \in Callers, NEW k \in Keys, BeginLookUp(s, k) PROVE CacheAges' /\ CallAges'
  BY <1>1, <1>2, NewCallType, LookUpAges DEF BeginLookUp
<1>3. ASSUME NEW s \in Callers, AdapterAnswers(s) PROVE CacheAges' /\ CallAges'
  <2>1. call[s] \in Call
    BY <1>3 DEF AdapterAnswers, At, TypeOK
  <2>2. call'[s].key = call[s].key /\ call'[s].value = truth[call[s].key] /\ call'[s].elapsed = call[s].elapsed
    BY <1>3, <2>1 DEF AdapterAnswers, TypeOK, Call
  <2>3. since[call[s].key][truth[call[s].key]] = 0 /\ call[s].elapsed \in Nat
    BY <2>1 DEF TypeOK, Call
  <2>4. since'[call'[s].key][call'[s].value] <= call'[s].elapsed
    BY <1>3, <2>2, <2>3 DEF AdapterAnswers
  <2>5. \A t \in Callers \ {s} : call'[t] = call[t]
    BY <1>3 DEF AdapterAnswers, TypeOK
  <2>6. CallAges'
    BY <1>3, <2>4, <2>5 DEF AdapterAnswers, CallAges, At
  <2> QED
    BY <1>1, <1>3, <2>6 DEF AdapterAnswers
<1>4. ASSUME NEW s \in Callers, AdapterFails(s) PROVE CacheAges' /\ CallAges'
  <2>1. call[s] \in Call /\ NotFound \in Answers
    BY <1>4 DEF AdapterFails, At, TypeOK, Answers
  <2> QED
    BY <1>1, <1>4, <2>1, TellPlace, CallAgesKept DEF AdapterFails, TypeOK
<1>5. ASSUME NEW s \in Callers, Store(s) PROVE CacheAges' /\ CallAges'
  <2>1. call[s] \in Call
    BY <1>5 DEF Store, At, TypeOK
  <2>2. call[s].key \in Keys /\ call[s].value \in Answers /\ call[s].elapsed \in 0..(Timeout + Lag)
    BY <2>1 DEF Call
  <2>3. CallAges'
    BY <1>5, <2>1, <2>2, TellPlace, CallAgesKept DEF Store, TypeOK
  <2>4. since[call[s].key][call[s].value] <= call[s].elapsed
    BY <1>5 DEF Store, CallAges
  <2>5. since[call[s].key][call[s].value] \in Nat
    BY <2>2, Constants DEF TypeOK
  <2>6. since[call[s].key][call[s].value] + TimeToLive(call[s].value) <= Window(call[s].value)
    BY <2>2, <2>4, <2>5, Constants, TimeToLiveType
  <2>7. CacheAges'
    BY <1>5, <2>2, <2>6 DEF Store, CacheAges, TypeOK, Window, TimeToLive
  <2> QED
    BY <2>3, <2>7
<1>6. ASSUME NEW s \in Callers, BeginList(s) PROVE CacheAges' /\ CallAges'
  BY <1>1, <1>6, Constants, NewCallType, LookUpAges DEF BeginList
<1>7. ASSUME NEW s \in Callers, ListFriends(s) \/ ListFriendsFails(s) \/ ListDone(s)
      PROVE  CacheAges' /\ CallAges'
  <2>1. ~At(s, "told")'
    <3>1. CASE ListFriends(s)
      <4>1. call[s] \in Call
        BY <3>1 DEF ListFriends, At, TypeOK
      <4> QED
        BY <3>1, <4>1 DEF ListFriends, At, TypeOK, Call
    <3>2. CASE ListFriendsFails(s) \/ ListDone(s)
      BY <3>2 DEF ListFriendsFails, ListDone, At, TypeOK
    <3> QED
      BY <1>7, <3>1, <3>2
  <2>2. \A t \in Callers \ {s} : call'[t] = call[t]
    BY <1>7 DEF ListFriends, ListFriendsFails, ListDone, TypeOK
  <2> QED
    BY <1>1, <1>7, <2>1, <2>2, CallAgesKept DEF ListFriends, ListFriendsFails, ListDone
<1>8. ASSUME NEW s \in Callers, NEW a \in Friends, ListNext(s, a) PROVE CacheAges' /\ CallAges'
  <2>1. call[s] \in Call /\ a \in Keys
    BY <1>8 DEF ListNext, At, TypeOK, Friends
  <2> QED
    BY <1>1, <1>8, <2>1, LookUpAges DEF ListNext
<1>9. ASSUME NEW k \in Keys, NEW v \in Answers, Relink(k, v) PROVE CacheAges' /\ CallAges'
  <2>1. \A j \in Keys : \A w \in Answers : since'[j][w] <= since[j][w] /\ since'[j][w] \in Nat
    BY <1>9, Constants DEF Relink, TypeOK
  <2>2. CacheAges'
    <3> SUFFICES ASSUME NEW j \in Keys, cache[j] # NoEntry
                 PROVE  since'[j][cache[j].value] + cache[j].left <= Window(cache[j].value)
      BY <1>9 DEF Relink, CacheAges, Window, TimeToLive
    <3>1. cache[j].value \in Answers /\ cache[j].left \in Nat
      BY Constants DEF TypeOK, Entry
    <3>2. since[j][cache[j].value] \in Nat /\ Window(cache[j].value) \in Nat
      BY <3>1, Constants, TimeToLiveType DEF TypeOK
    <3>3. since[j][cache[j].value] + cache[j].left <= Window(cache[j].value)
      BY DEF CacheAges
    <3> QED
      BY <2>1, <3>1, <3>2, <3>3
  <2>3. CallAges'
    <3> SUFFICES ASSUME NEW t \in Callers, At(t, "told")'
                 PROVE  since'[call'[t].key][call'[t].value] <= call'[t].elapsed
      BY DEF CallAges
    <3>1. At(t, "told") /\ call[t] \in Call
      BY <1>9 DEF Relink, At, TypeOK, Call
    <3>2. call'[t].key = call[t].key /\ call'[t].value = call[t].value /\ call'[t].elapsed = call[t].elapsed
      BY <1>9, <3>1 DEF Relink, At, TypeOK, Call
    <3>3. call[t].key \in Keys /\ call[t].value \in Answers /\ call[t].elapsed \in Nat
      BY <3>1, Constants DEF Call
    <3>4. since[call[t].key][call[t].value] \in Nat
      BY <3>3, Constants DEF TypeOK
    <3> QED
      BY <2>1, <3>1, <3>2, <3>3, <3>4 DEF CallAges
  <2> QED
    BY <2>2, <2>3
<1>10. CASE Tick
  <2>1. \A j \in Keys : \A w \in Answers :
          since'[j][w] <= since[j][w] + 1 /\ since'[j][w] \in Nat /\ since[j][w] \in Nat
    <3> SUFFICES ASSUME NEW j \in Keys, NEW w \in Answers
                 PROVE  since'[j][w] <= since[j][w] + 1 /\ since'[j][w] \in Nat /\ since[j][w] \in Nat
      OBVIOUS
    <3>1. since'[j][w] = IF w = truth[j] THEN 0 ELSE Least(since[j][w] + 1, Horizon)
      BY <1>10 DEF Tick
    <3>2. since[j][w] \in Nat
      BY Constants DEF TypeOK
    <3> QED
      BY <3>1, <3>2, Constants DEF Least
  <2>2. CacheAges'
    <3> SUFFICES ASSUME NEW j \in Keys, cache'[j] # NoEntry
                 PROVE  since'[j][cache'[j].value] + cache'[j].left <= Window(cache'[j].value)
      BY <1>10 DEF Tick, CacheAges, Window, TimeToLive
    <3>1. cache[j] \in Entry /\ cache[j] # NoEntry
      BY <1>10 DEF Tick, TypeOK
    <3>2. cache'[j].value = cache[j].value /\ cache'[j].left = cache[j].left - 1
      BY <1>10, <3>1 DEF Tick, Entry
    <3>3. cache[j].value \in Answers /\ cache[j].left \in Nat
      BY <3>1, Constants DEF Entry
    <3>4. since[j][cache[j].value] + cache[j].left <= Window(cache[j].value)
      BY <3>1 DEF CacheAges
    <3>5. Window(cache[j].value) \in Nat
      BY <3>3, Constants, TimeToLiveType
    <3> QED
      BY <2>1, <3>2, <3>3, <3>4, <3>5
  <2>3. CallAges'
    <3> SUFFICES ASSUME NEW t \in Callers, At(t, "told")'
                 PROVE  since'[call'[t].key][call'[t].value] <= call'[t].elapsed
      BY DEF CallAges
    <3>1. At(t, "told") /\ call[t] \in Call
      BY <1>10 DEF Tick, At, TypeOK, Call
    <3>2. /\ call'[t].key = call[t].key /\ call'[t].value = call[t].value
          /\ call'[t].elapsed = call[t].elapsed + 1
      BY <1>10, <3>1 DEF Tick, Call
    <3>3. call[t].key \in Keys /\ call[t].value \in Answers /\ call[t].elapsed \in Nat
      BY <3>1, Constants DEF Call
    <3> QED
      BY <2>1, <3>1, <3>2, <3>3 DEF CallAges
  <2> QED
    BY <2>2, <2>3
<1>11. CASE UNCHANGED vars
  BY <1>11 DEF vars, CacheAges, CallAges, At, Window, TimeToLive
<1> QED
  BY <1>2, <1>3, <1>4, <1>5, <1>6, <1>7, <1>8, <1>9, <1>10, <1>11 DEF Next

\* Nothing is kept and nothing under way at first.
LEMMA AgesInit == Init => AgesAddUp
BY DEF Init, AgesAddUp, At

\* An entry has some of its time left, so that its answer is not as old as it
\* may get.
LEMMA AgesAreFresh == TypeOK /\ AgesAddUp => AnswersAreFresh
<1> SUFFICES ASSUME TypeOK, AgesAddUp, NEW k \in Keys, cache[k] # NoEntry
             PROVE  since[k][cache[k].value] < Window(cache[k].value)
  BY DEF AnswersAreFresh
<1>1. cache[k].value \in Answers /\ cache[k].left \in Nat /\ cache[k].left >= 1
  BY Constants DEF TypeOK, Entry
<1>2. since[k][cache[k].value] \in Nat /\ Window(cache[k].value) \in Nat
  BY <1>1, Constants, TimeToLiveType DEF TypeOK
<1> QED
  BY <1>1, <1>2 DEF AgesAddUp

\* No answer of the cache was last true longer ago than the time it is kept and
\* the time a call may take, in whatever order calls overlap and store what they
\* were told (coregraph.go, AccountOfPID and PIDOfAccount, which ask unlocked).
THEOREM AnswersStayFresh == Spec => []AnswersAreFresh
<1>1. Spec => []TypeOK
  BY TypeCorrect
<1>2. Init => AgesAddUp
  BY AgesInit
<1> QED
  BY <1>1, <1>2, AgesStep, AgesAreFresh, PTL DEF Spec

-----------------------------------------------------------------------------
\* A listing that began when every link was old enough, and under which none has
\* changed since, is right about the friends it is done with, has nothing of
\* those it has yet to ask about, and asks about one of these.
Ready(c) == IF c.key = Self THEN c.out = {} ELSE c.key \in c.todo
RightSoFar(c, links) ==
    /\ \A a \in c.friends \ (c.todo \cup c.failed) : \A v \in Values :
        <<a, v>> \in c.out <=> links[a] = v
    /\ \A a \in c.todo : \A v \in Values : <<a, v>> \notin c.out
Right(c, links) ==
    /\ RightSoFar(c, links)
    /\ c.at = "list" => c.out = {}
    /\ c.at \in {"ask", "told"} => Ready(c)
Trusted(c) == c # Idle /\ c.settled
ListsAreRight == \A s \in Callers : Trusted(call[s]) => Settled /\ Right(call[s], truth)

\* A call told the truth goes on to be right.
LEMMA TellRight ==
    ASSUME NEW s \in Callers, NEW c \in Call, NEW v \in Answers, NEW links,
           call \in [Callers -> Call \cup {Idle}],
           c.settled => v = links[c.key] /\ RightSoFar(c, links) /\ Ready(c),
           Trusted(Tell(s, c, v)[s])
    PROVE  c.settled /\ Right(Tell(s, c, v)[s], links)
<1> DEFINE over == Over(c, "look")
           d == [over EXCEPT !.todo = @ \ {c.key},
                             !.out = IF v = NotFound THEN @ ELSE @ \cup {<<c.key, v>>}]
<1>1. /\ over \in Call /\ over.at = "look" /\ over.todo = c.todo /\ over.out = c.out
      /\ over.failed = c.failed /\ over.friends = c.friends /\ over.settled = c.settled
  BY OverType DEF Places
<1>2. CASE c.key = Self
  <2>1. Tell(s, c, v)[s] = Over(c, "list")
    BY <1>2 DEF Tell, Trusted
  <2>2. LET e == Over(c, "list") IN
          /\ e.at = "list" /\ e.todo = c.todo /\ e.out = c.out
          /\ e.failed = c.failed /\ e.friends = c.friends /\ e.settled = c.settled
    BY OverType DEF Places
  <2>3. c.settled
    BY <2>1, <2>2 DEF Trusted
  <2> QED
    BY <1>2, <2>1, <2>2, <2>3 DEF Right, RightSoFar, Ready
<1>3. CASE c.key # Self
  <2>1. Tell(s, c, v)[s] = d
    BY <1>3 DEF Tell, Trusted
  <2>2. /\ d.at = "look" /\ d.friends = c.friends /\ d.failed = c.failed /\ d.settled = c.settled
        /\ d.todo = c.todo \ {c.key}
        /\ d.out = IF v = NotFound THEN c.out ELSE c.out \cup {<<c.key, v>>}
    BY <1>1 DEF Call
  <2>3. c.settled
    BY <2>1, <2>2 DEF Trusted
  <2>4. c.key \in c.todo /\ v = links[c.key] /\ RightSoFar(c, links)
    BY <1>3, <2>3 DEF Ready
  <2>5. \A a : \A w \in Values : a # c.key => (<<a, w>> \in d.out <=> <<a, w>> \in c.out)
    BY <2>2
  <2>6. \A w \in Values : <<c.key, w>> \in d.out <=> links[c.key] = w
    BY <2>2, <2>4, Constants DEF RightSoFar
  <2>7. \A a \in d.friends \ (d.todo \cup d.failed) : \A w \in Values :
          <<a, w>> \in d.out <=> links[a] = w
    <3> SUFFICES ASSUME NEW a \in d.friends \ (d.todo \cup d.failed), NEW w \in Values
                 PROVE  <<a, w>> \in d.out <=> links[a] = w
      OBVIOUS
    <3>1. CASE a = c.key
      BY <2>6, <3>1
    <3>2. CASE a # c.key
      BY <2>2, <2>4, <2>5, <3>2 DEF RightSoFar
    <3> QED
      BY <3>1, <3>2
  <2>8. \A a \in d.todo : \A w \in Values : <<a, w>> \notin d.out
    BY <2>2, <2>4, <2>5 DEF RightSoFar
  <2>9. RightSoFar(d, links)
    BY <2>7, <2>8 DEF RightSoFar
  <2> QED
    BY <2>1, <2>2, <2>3, <2>9 DEF Right
<1> QED
  BY <1>2, <1>3

\* One that is told nothing passes its friend over.
LEMMA TellErrorRight ==
    ASSUME NEW s \in Callers, NEW c \in Call, NEW links,
           call \in [Callers -> Call \cup {Idle}],
           c.settled => RightSoFar(c, links),
           Trusted(TellError(s, c)[s])
    PROVE  c.settled /\ Right(TellError(s, c)[s], links)
<1> DEFINE over == Over(c, "look")
           d == [over EXCEPT !.todo = @ \ {c.key}, !.failed = @ \cup {c.key}]
<1>1. /\ over \in Call /\ over.at = "look" /\ over.todo = c.todo /\ over.out = c.out
      /\ over.failed = c.failed /\ over.friends = c.friends /\ over.settled = c.settled
  BY OverType DEF Places
<1>2. TellError(s, c)[s] = d
  BY DEF TellError, Trusted
<1>3. /\ d.at = "look" /\ d.friends = c.friends /\ d.out = c.out /\ d.settled = c.settled
      /\ d.todo = c.todo \ {c.key} /\ d.failed = c.failed \cup {c.key}
  BY <1>1 DEF Call
<1>4. c.settled
  BY <1>2, <1>3 DEF Trusted
<1>5. RightSoFar(d, links)
  BY <1>3, <1>4 DEF RightSoFar
<1> QED
  BY <1>2, <1>3, <1>4, <1>5 DEF Right

-----------------------------------------------------------------------------
\* When every link is old enough, an answer that is not older than it may be is
\* the truth.
LEMMA SettledIsTrue ==
    ASSUME TypeOK, Settled, NEW k \in Keys, NEW v \in Answers, since[k][v] <= Window(v)
    PROVE  v = truth[k]
<1>1. since[k][v] \in Nat /\ Window(v) \in Nat
  BY Constants, TimeToLiveType DEF TypeOK
<1> QED
  BY <1>1 DEF Settled

\* A lookup goes on to be right, whether the cache answers or the adapter is
\* asked.
LEMMA LookUpRight ==
    ASSUME NEW s \in Callers, NEW c \in Call, NEW k \in Keys, LookUp(s, c, k), TypeOK, AgesAddUp,
           c.settled => Settled /\ RightSoFar(c, truth) /\ (IF k = Self THEN c.out = {} ELSE k \in c.todo),
           Trusted(call'[s])
    PROVE  c.settled /\ Right(call'[s], truth)
<1>1. CASE Hit(s, c, k)
  <2> DEFINE d == [c EXCEPT !.key = k]
             v == cache[k].value
  <2>1. /\ d \in Call /\ d.key = k /\ d.todo = c.todo /\ d.out = c.out /\ d.settled = c.settled
        /\ d.friends = c.friends /\ d.failed = c.failed
    BY DEF Call
  <2>2. v \in Answers /\ cache[k].left \in Nat
    BY <1>1, Constants DEF Hit, TypeOK, Entry
  <2>3. since[k][v] <= Window(v)
    <3>1. since[k][v] + cache[k].left <= Window(v)
      BY <1>1 DEF Hit, AgesAddUp
    <3>2. since[k][v] \in Nat /\ Window(v) \in Nat
      BY <2>2, Constants, TimeToLiveType DEF TypeOK
    <3> QED
      BY <2>2, <3>1, <3>2
  <2>4. d.settled => v = truth[d.key] /\ RightSoFar(d, truth) /\ Ready(d)
    BY <2>1, <2>2, <2>3, SettledIsTrue DEF RightSoFar, Ready
  <2>5. call' = Tell(s, d, v)
    BY <1>1 DEF Hit
  <2> HIDE DEF d, v
  <2>6. call \in [Callers -> Call \cup {Idle}]
    BY DEF TypeOK
  <2>7. Trusted(Tell(s, d, v)[s])
    BY <2>5
  <2>8. d.settled /\ Right(Tell(s, d, v)[s], truth)
    BY <2>1, <2>2, <2>4, <2>6, <2>7, TellRight
  <2> QED
    BY <2>1, <2>5, <2>8
<1>2. CASE Miss(s, c, k)
  <2> DEFINE d == [c EXCEPT !.at = "ask", !.key = k, !.elapsed = 0]
  <2>1. call'[s] = d
    BY <1>2 DEF Miss, TypeOK
  <2>2. /\ d.at = "ask" /\ d.key = k /\ d.todo = c.todo /\ d.out = c.out /\ d.settled = c.settled
        /\ d.friends = c.friends /\ d.failed = c.failed
    BY DEF Call
  <2>3. c.settled
    BY <2>1, <2>2 DEF Trusted
  <2> QED
    BY <2>1, <2>2, <2>3 DEF Right, RightSoFar, Ready
<1> QED
  BY <1>1, <1>2 DEF LookUp

-----------------------------------------------------------------------------
\* What a step of one call need show.
LEMMA OthersRight ==
    ASSUME NEW s \in Callers, ListsAreRight, UNCHANGED <<truth, since>>,
           \A t \in Callers \ {s} : call'[t] = call[t],
           Trusted(call'[s]) => Settled /\ Right(call'[s], truth)
    PROVE  ListsAreRight'
<1>1. Settled' = Settled
  BY DEF Settled, Window, TimeToLive
<1> SUFFICES ASSUME NEW t \in Callers, Trusted(call'[t])
             PROVE  Settled /\ Right(call'[t], truth)
  BY <1>1 DEF ListsAreRight, Trusted, Right, RightSoFar, Ready
<1> QED
  BY DEF ListsAreRight

\* A lookup touches no other call.
LEMMA LookUpAlone ==
    ASSUME NEW s \in Callers, NEW c, NEW k, LookUp(s, c, k), TypeOK
    PROVE  \A t \in Callers \ {s} : call'[t] = call[t]
BY DEF LookUp, Hit, Miss, Tell, TypeOK

\* Links that are old enough get older.
LEMMA SettledTick == TypeOK /\ Settled /\ Tick => Settled'
<1> SUFFICES ASSUME TypeOK, Settled, Tick, NEW k \in Keys, NEW v \in Answers \ {truth[k]}
             PROVE  since'[k][v] > Window(v)
  BY DEF Settled, Tick, Window, TimeToLive
<1>1. since'[k][v] = Least(since[k][v] + 1, Horizon)
  BY DEF Tick
<1>2. since[k][v] > Window(v) /\ since[k][v] \in Nat
  BY Constants DEF Settled, TypeOK
<1>3. Window(v) \in Nat /\ Horizon > Window(v)
  BY Constants DEF Window, TimeToLive
<1> QED
  BY <1>1, <1>2, <1>3, Constants DEF Least

\* Every step leaves the listings right so far.
LEMMA ListsStep == TypeOK /\ AgesAddUp /\ ListsAreRight /\ [Next]_vars => ListsAreRight'
<1> SUFFICES ASSUME TypeOK, AgesAddUp, ListsAreRight, [Next]_vars PROVE ListsAreRight'
  OBVIOUS
<1>1. ASSUME NEW s \in Callers, NEW k \in Keys, NEW lists \in BOOLEAN,
             LookUp(s, NewCall(k, lists), k), lists => k = Self, UNCHANGED <<truth, since>>
      PROVE  ListsAreRight'
  <2> DEFINE c == NewCall(k, lists)
  <2>1. c.settled => Settled /\ lists
    BY DEF NewCall
  <2>2. RightSoFar(c, truth) /\ c.out = {}
    BY DEF NewCall, RightSoFar
  <2>3. c \in Call
    BY NewCallType
  <2> HIDE DEF c
  <2>4. Trusted(call'[s]) => c.settled /\ Right(call'[s], truth)
    BY <1>1, <2>1, <2>2, <2>3, LookUpRight DEF c
  <2> QED
    BY <1>1, <2>1, <2>4, LookUpAlone, OthersRight
<1>2. ASSUME NEW s \in Callers, NEW k \in Keys, BeginLookUp(s, k) PROVE ListsAreRight'
  BY <1>1, <1>2, Constants DEF BeginLookUp
<1>3. ASSUME NEW s \in Callers, AdapterAnswers(s) PROVE ListsAreRight'
  <2>1. call[s] \in Call
    BY <1>3 DEF AdapterAnswers, At, TypeOK
  <2> DEFINE d == [call[s] EXCEPT !.at = "told", !.value = truth[call[s].key]]
  <2>2. call'[s] = d /\ \A t \in Callers \ {s} : call'[t] = call[t]
    BY <1>3 DEF AdapterAnswers, TypeOK
  <2>3. /\ d.at = "told" /\ d.key = call[s].key /\ d.todo = call[s].todo /\ d.out = call[s].out
        /\ d.failed = call[s].failed /\ d.friends = call[s].friends /\ d.settled = call[s].settled
    BY <2>1 DEF Call
  <2>4. call[s] # Idle /\ call[s].at = "ask"
    BY <1>3 DEF AdapterAnswers, At
  <2>5. Trusted(d) => Settled /\ Right(d, truth)
    BY <2>3, <2>4 DEF ListsAreRight, Trusted, Right, RightSoFar, Ready
  <2> QED
    BY <1>3, <2>2, <2>5, OthersRight DEF AdapterAnswers
<1>4. ASSUME NEW s \in Callers, AdapterFails(s) PROVE ListsAreRight'
  <2>1. call[s] \in Call /\ call[s] # Idle
    BY <1>4 DEF AdapterFails, At, TypeOK
  <2>2. call' = TellError(s, call[s]) /\ UNCHANGED <<truth, since>>
    BY <1>4 DEF AdapterFails
  <2>3. call[s].settled => Settled /\ RightSoFar(call[s], truth)
    BY <2>1 DEF ListsAreRight, Trusted, Right
  <2>4. Trusted(call'[s]) => call[s].settled /\ Right(call'[s], truth)
    BY <2>1, <2>2, <2>3, TellErrorRight DEF TypeOK
  <2>5. \A t \in Callers \ {s} : call'[t] = call[t]
    BY <2>2 DEF TellError, TypeOK
  <2> QED
    BY <2>2, <2>3, <2>4, <2>5, OthersRight
<1>5. ASSUME NEW s \in Callers, Store(s) PROVE ListsAreRight'
  <2>1. call[s] \in Call /\ call[s] # Idle /\ call[s].at = "told"
    BY <1>5 DEF Store, At, TypeOK
  <2>2. call' = Tell(s, call[s], call[s].value) /\ UNCHANGED <<truth, since>>
    BY <1>5 DEF Store
  <2>3. call[s].value \in Answers /\ call[s].key \in Keys /\ call[s].elapsed \in 0..(Timeout + Lag)
    BY <2>1 DEF Call
  <2>4. since[call[s].key][call[s].value] <= Window(call[s].value)
    <3>1. since[call[s].key][call[s].value] <= call[s].elapsed
      BY <1>5 DEF Store, AgesAddUp
    <3>2. since[call[s].key][call[s].value] \in Nat
      BY <2>3, Constants DEF TypeOK
    <3> QED
      BY <2>3, <3>1, <3>2, Constants DEF Window, TimeToLive
  <2>5. call[s].settled => Settled /\ RightSoFar(call[s], truth) /\ Ready(call[s])
    BY <2>1 DEF ListsAreRight, Trusted, Right
  <2>6. call[s].settled => call[s].value = truth[call[s].key]
    BY <2>3, <2>4, <2>5, SettledIsTrue
  <2>7. Trusted(call'[s]) => call[s].settled /\ Right(call'[s], truth)
    BY <2>1, <2>2, <2>3, <2>5, <2>6, TellRight DEF TypeOK
  <2>8. \A t \in Callers \ {s} : call'[t] = call[t]
    BY <2>2 DEF Tell, TypeOK
  <2> QED
    BY <2>2, <2>5, <2>7, <2>8, OthersRight
<1>6. ASSUME NEW s \in Callers, BeginList(s) PROVE ListsAreRight'
  BY <1>1, <1>6, Constants DEF BeginList
<1>7. ASSUME NEW s \in Callers, ListFriends(s) PROVE ListsAreRight'
  <2>1. call[s] \in Call /\ call[s] # Idle /\ call[s].at = "list"
    BY <1>7 DEF ListFriends, At, TypeOK
  <2>2. PICK S \in SUBSET Friends :
          call' = [call EXCEPT ![s].at = "look", ![s].friends = S, ![s].todo = S]
    BY <1>7 DEF ListFriends
  <2> DEFINE d == [call[s] EXCEPT !.at = "look", !.friends = S, !.todo = S]
  <2>3. call'[s] = d /\ \A t \in Callers \ {s} : call'[t] = call[t]
    BY <2>2 DEF TypeOK
  <2>4. /\ d.at = "look" /\ d.friends = S /\ d.todo = S /\ d.out = call[s].out
        /\ d.settled = call[s].settled
    BY <2>1 DEF Call
  <2>5. Trusted(d) => Settled /\ Right(d, truth)
    BY <2>1, <2>4 DEF ListsAreRight, Trusted, Right, RightSoFar
  <2> QED
    BY <1>7, <2>3, <2>5, OthersRight DEF ListFriends
<1>8. ASSUME NEW s \in Callers, ListFriendsFails(s) \/ ListDone(s) PROVE ListsAreRight'
  <2>1. call'[s] = Idle /\ \A t \in Callers \ {s} : call'[t] = call[t]
    BY <1>8 DEF ListFriendsFails, ListDone, TypeOK
  <2>2. ~Trusted(call'[s])
    BY <2>1 DEF Trusted
  <2> QED
    BY <1>8, <2>1, <2>2, OthersRight DEF ListFriendsFails, ListDone
<1>9. ASSUME NEW s \in Callers, NEW a \in Friends, ListNext(s, a) PROVE ListsAreRight'
  <2>1. call[s] \in Call /\ call[s] # Idle /\ a \in call[s].todo /\ a \in Keys /\ a # Self
    BY <1>9 DEF ListNext, At, TypeOK, Friends
  <2>2. LookUp(s, call[s], a) /\ UNCHANGED <<truth, since>>
    BY <1>9 DEF ListNext
  <2>3. call[s].settled => Settled /\ RightSoFar(call[s], truth)
    BY <2>1 DEF ListsAreRight, Trusted, Right
  <2>4. Trusted(call'[s]) => call[s].settled /\ Right(call'[s], truth)
    BY <2>1, <2>2, <2>3, LookUpRight
  <2> QED
    BY <2>2, <2>3, <2>4, LookUpAlone, OthersRight
<1>10. ASSUME NEW k \in Keys, NEW v \in Answers, Relink(k, v) PROVE ListsAreRight'
  <2>1. \A s \in Callers : call[s] # Idle => call[s] \in Call
    BY DEF TypeOK
  <2>2. \A s \in Callers : ~Trusted(call'[s])
    BY <1>10, <2>1 DEF Relink, Trusted, Call
  <2> QED
    BY <2>2 DEF ListsAreRight, Trusted
<1>11. CASE Tick
  <2> SUFFICES ASSUME NEW s \in Callers, Trusted(call'[s])
               PROVE  Settled' /\ Right(call'[s], truth)
    BY <1>11 DEF Tick, ListsAreRight, Trusted, Right, RightSoFar, Ready
  <2>1. call[s] # Idle
    BY <1>11 DEF Tick, Trusted, At
  <2>2. call[s] \in Call
    BY <2>1 DEF TypeOK
  <2>3. call'[s] = call[s] \/ call'[s] = [call[s] EXCEPT !.elapsed = @ + 1]
    BY <1>11 DEF Tick
  <2>4. LET c == call[s]  d == call'[s] IN
          /\ d.at = c.at /\ d.key = c.key /\ d.todo = c.todo /\ d.out = c.out
          /\ d.failed = c.failed /\ d.friends = c.friends /\ d.settled = c.settled
    BY <2>2, <2>3 DEF Call
  <2>5. Settled /\ Right(call[s], truth)
    BY <2>1, <2>4 DEF ListsAreRight, Trusted
  <2> QED
    BY <1>11, <2>4, <2>5, SettledTick DEF Right, RightSoFar, Ready
<1>12. CASE UNCHANGED vars
  BY <1>12 DEF vars, ListsAreRight, Settled, Window, TimeToLive, Trusted, Right, RightSoFar, Ready
<1> QED
  BY <1>2, <1>3, <1>4, <1>5, <1>6, <1>7, <1>8, <1>9, <1>10, <1>11, <1>12 DEF Next

\* coregraph.go: "Unresolvable accounts ... are skipped", and nobody else is: for
\* any friends, calls at one time and times to live, a friend list returned when no
\* link has changed lately names every friend who has a PID, with that PID, but for
\* those whose lookup failed (FriendPIDs, FriendAccountsByPID).
THEOREM ListsStayRight == Spec => ListIsRight
<1>1. Init => ListsAreRight
  BY DEF Init, ListsAreRight, Trusted
<1>2. ListsAreRight =>
        [\A s \in Callers : ListDone(s) /\ call[s].settled =>
            \A a \in call[s].friends \ call[s].failed : \A v \in Values :
                <<a, v>> \in call[s].out <=> truth[a] = v]_vars
  <2> SUFFICES ASSUME ListsAreRight, NEW s \in Callers, ListDone(s), call[s].settled
               PROVE  \A a \in call[s].friends \ call[s].failed : \A v \in Values :
                        <<a, v>> \in call[s].out <=> truth[a] = v
    OBVIOUS
  <2>1. call[s] # Idle /\ call[s].todo = {}
    BY DEF ListDone, At
  <2> QED
    BY <2>1 DEF ListsAreRight, Trusted, Right, RightSoFar
<1> QED
  BY <1>1, <1>2, TypeCorrect, AgesInit, AgesStep, ListsStep, PTL DEF Spec, ListIsRight
=============================================================================
