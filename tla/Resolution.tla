----------------------------- MODULE Resolution -----------------------------
(***************************************************************************)
(* The lookups of package coregraph: which account is behind a PID         *)
(* (AccountOfPID) and which PID an account has (PIDOfAccount), asked of    *)
(* the Resolution service of the account adapter and kept for a while, a   *)
(* miss for less long; and FriendPIDs, a lookup for every friend.          *)
(*                                                                         *)
(* The two maps of the cache work alike: a key here is one of either.  The *)
(* mutex is not held while the adapter is asked, so that calls overlap     *)
(* and a slow one stores its answer over a newer one.                      *)
(*                                                                         *)
(* Time passes in steps: an entry says how much of its time is left, a     *)
(* call how long it has been under way.                                    *)
(***************************************************************************)
EXTENDS Naturals

CONSTANTS
    Keys,         \* PIDs and accounts that are looked up
    Self,         \* the PID of the person whose friends are listed
    Values,       \* what the adapter has for them
    NotFound,     \* ... or has not
    NoEntry, Idle,
    Callers,      \* bound: calls at one time
    TTL,          \* how long an answer is kept (cacheTTL, five minutes)
    NegativeTTL,  \* how long a miss is kept (negativeTTL, thirty seconds)
    Timeout,      \* how long the adapter may take (five seconds)
    Lag,          \* how long a call may take to store what it was told
    Horizon,      \* bound: time is counted up to here
    MaxChanges    \* bound: links that change at the adapter

ASSUME KeyAssumption == Self \in Keys
ASSUME ValueAssumption ==
    NotFound \notin Values /\ NoEntry \notin [value : Values \cup {NotFound}, left : Nat]
ASSUME TimeAssumption ==
    /\ TTL \in Nat \ {0} /\ NegativeTTL \in Nat \ {0} /\ Timeout \in Nat /\ Lag \in Nat
    /\ Horizon \in Nat /\ Horizon > TTL + Timeout + Lag /\ Horizon > NegativeTTL + Timeout + Lag
ASSUME BoundAssumption == MaxChanges \in Nat

Answers == Values \cup {NotFound}
Friends == Keys \ {Self}

VARIABLES
    truth,    \* the adapter's answer
    cache,    \* fwd and rev
    call,     \* the lookup or listing in progress
    changes,
    since     \* history: how long ago an answer was last true (0: it is)

vars == <<truth, cache, call, changes, since>>

Entry == [value : Answers, left : 1..Horizon]
Places == {"look", "ask", "told", "list"}
Call == [at : Places, key : Keys, value : Answers, elapsed : 0..(Timeout + Lag), lists : BOOLEAN,
         friends : SUBSET Friends, todo : SUBSET Friends, out : SUBSET (Friends \X Values), failed : SUBSET Friends,
         settled : BOOLEAN]

Least(a, b) == IF a < b THEN a ELSE b

Init ==
    /\ truth \in [Keys -> Answers]
    /\ cache = [k \in Keys |-> NoEntry]
    /\ call = [s \in Callers |-> Idle]
    /\ changes = 0
    /\ since = [k \in Keys |-> [v \in Answers |-> IF v = truth[k] THEN 0 ELSE Horizon]]

-----------------------------------------------------------------------------
At(s, place) == call[s] # Idle /\ call[s].at = place

\* How long an answer is kept.
TimeToLive(v) == IF v = NotFound THEN NegativeTTL ELSE TTL

\* An answer given now was true this recently.
Window(v) == TimeToLive(v) + Timeout + Lag

\* No key has had another answer for longer than the cache remembers.
Settled == \A k \in Keys : \A v \in Answers \ {truth[k]} : since[k][v] > Window(v)

\* The call has its answer, or is without one, and waits for no more.
Over(c, place) == [c EXCEPT !.at = place, !.key = Self, !.value = NotFound, !.elapsed = 0]

\* A call is told v about its key: a lookup returns it; a listing that asked
\* about its person goes on to the core, one that asked about a friend to the
\* next friend.
Tell(s, c, v) ==
    LET next ==
        IF c.key = Self THEN Over(c, "list")
        ELSE [Over(c, "look") EXCEPT !.todo = @ \ {c.key},
                                     !.out = IF v = NotFound THEN @ ELSE @ \cup {<<c.key, v>>}]
        returns == ~c.lists \/ (c.key = Self /\ v = NotFound)
    IN [call EXCEPT ![s] = IF returns THEN Idle ELSE next]

\* A call is told nothing: only a friend's lookup is passed over.
TellError(s, c) ==
    [call EXCEPT ![s] =
        IF ~c.lists \/ c.key = Self THEN Idle
        ELSE [Over(c, "look") EXCEPT !.todo = @ \ {c.key}, !.failed = @ \cup {c.key}]]

-----------------------------------------------------------------------------
\* AccountOfPID and PIDOfAccount: a call for k finds a live entry ...
Hit(s, c, k) ==
    /\ cache[k] # NoEntry
    /\ call' = Tell(s, [c EXCEPT !.key = k], cache[k].value)

\* ... or asks the adapter, without the mutex.
Miss(s, c, k) ==
    /\ cache[k] = NoEntry
    /\ call' = [call EXCEPT ![s] = [c EXCEPT !.at = "ask", !.key = k, !.elapsed = 0]]

LookUp(s, c, k) == Hit(s, c, k) \/ Miss(s, c, k)

NewCall(k, lists) ==
    [at |-> "look", key |-> k, value |-> NotFound, elapsed |-> 0, lists |-> lists,
     friends |-> {}, todo |-> {}, out |-> {}, failed |-> {}, settled |-> lists /\ Settled]

\* A handler looks one key up.
BeginLookUp(s, k) ==
    /\ call[s] = Idle
    /\ LookUp(s, NewCall(k, FALSE), k)
    /\ UNCHANGED <<truth, cache, changes, since>>

\* The adapter reads its links and answers.
AdapterAnswers(s) ==
    /\ At(s, "ask") /\ call[s].elapsed <= Timeout
    /\ call' = [call EXCEPT ![s].at = "told", ![s].value = truth[call[s].key]]
    /\ UNCHANGED <<truth, cache, changes, since>>

\* Faulty: a friend whose lookup fails is taken for one with no PID at all, and
\* that is remembered.
ErrorIsMiss(s) ==
    /\ At(s, "ask") \/ At(s, "told")
    /\ call' = Tell(s, call[s], NotFound)
    /\ cache' = [cache EXCEPT ![call[s].key] = [value |-> NotFound, left |-> NegativeTTL]]
    /\ UNCHANGED <<truth, changes, since>>

\* The adapter, or the way back, takes too long or fails: nothing is stored.
AdapterFails(s) ==
    /\ At(s, "ask") \/ At(s, "told")
    /\ call' = TellError(s, call[s])
    /\ UNCHANGED <<truth, cache, changes, since>>

\* Faulty: a miss is kept as long as an answer.
StoreAlike(s) ==
    /\ At(s, "told")
    /\ cache' = [cache EXCEPT ![call[s].key] = [value |-> call[s].value, left |-> TTL]]
    /\ call' = Tell(s, call[s], call[s].value)
    /\ UNCHANGED <<truth, changes, since>>

\* Faulty: an entry that was written before is only given more time.
StoreExtends(s) ==
    /\ At(s, "told")
    /\ LET c == call[s]  old == cache[c.key]
           v == IF old = NoEntry THEN c.value ELSE old.value
       IN cache' = [cache EXCEPT ![c.key] = [value |-> v, left |-> TimeToLive(v)]]
    /\ call' = Tell(s, call[s], call[s].value)
    /\ UNCHANGED <<truth, changes, since>>

\* The answer arrived in time: it is stored over whatever is there.
Store(s) ==
    /\ At(s, "told")
    /\ LET c == call[s] IN
        /\ cache' = [cache EXCEPT ![c.key] = [value |-> c.value, left |-> TimeToLive(c.value)]]
        /\ call' = Tell(s, c, c.value)
    /\ UNCHANGED <<truth, changes, since>>

-----------------------------------------------------------------------------
\* FriendPIDs and FriendAccountsByPID: first the account of the person.
BeginList(s) ==
    /\ call[s] = Idle
    /\ LookUp(s, NewCall(Self, TRUE), Self)
    /\ UNCHANGED <<truth, cache, changes, since>>

\* The core lists the friends ...
ListFriends(s) ==
    /\ At(s, "list")
    /\ \E S \in SUBSET Friends : call' = [call EXCEPT ![s].at = "look", ![s].friends = S, ![s].todo = S]
    /\ UNCHANGED <<truth, cache, changes, since>>

\* ... or fails, and so does the call.
ListFriendsFails(s) ==
    /\ At(s, "list")
    /\ call' = [call EXCEPT ![s] = Idle]
    /\ UNCHANGED <<truth, cache, changes, since>>

\* Each friend is looked up in turn.
ListNext(s, a) ==
    /\ At(s, "look") /\ a \in call[s].todo
    /\ LookUp(s, call[s], a)
    /\ UNCHANGED <<truth, cache, changes, since>>

\* The list, call[s].out, goes to the caller.
ListDone(s) ==
    /\ At(s, "look") /\ call[s].todo = {}
    /\ call' = [call EXCEPT ![s] = Idle]
    /\ UNCHANGED <<truth, cache, changes, since>>

-----------------------------------------------------------------------------
\* Somebody links, unlinks or links anew at the adapter.
Relink(k, v) ==
    /\ changes < MaxChanges /\ v # truth[k]
    /\ changes' = changes + 1
    /\ truth' = [truth EXCEPT ![k] = v]
    /\ since' = [since EXCEPT ![k][v] = 0]
    /\ call' = [s \in Callers |-> IF call[s] = Idle THEN Idle ELSE [call[s] EXCEPT !.settled = FALSE]]
    /\ UNCHANGED cache

\* Faulty: an entry is still good at the moment its time is over.
TickInclusive ==
    /\ \A s \in Callers :
        /\ At(s, "ask") => call[s].elapsed < Timeout
        /\ At(s, "told") => call[s].elapsed < Timeout + Lag
    /\ call' = [s \in Callers |->
                  IF At(s, "ask") \/ At(s, "told") THEN [call[s] EXCEPT !.elapsed = @ + 1] ELSE call[s]]
    /\ cache' = [k \in Keys |->
                  IF cache[k] = NoEntry \/ cache[k].left = 0 THEN NoEntry
                  ELSE [cache[k] EXCEPT !.left = @ - 1]]
    /\ since' = [k \in Keys |-> [v \in Answers |->
                  IF v = truth[k] THEN 0 ELSE Least(since[k][v] + 1, Horizon)]]
    /\ UNCHANGED <<truth, changes>>

\* Time passes; no call is under way for longer than it may be.
Tick ==
    /\ \A s \in Callers :
        /\ At(s, "ask") => call[s].elapsed < Timeout
        /\ At(s, "told") => call[s].elapsed < Timeout + Lag
    /\ call' = [s \in Callers |->
                  IF At(s, "ask") \/ At(s, "told") THEN [call[s] EXCEPT !.elapsed = @ + 1] ELSE call[s]]
    /\ cache' = [k \in Keys |->
                  IF cache[k] = NoEntry \/ cache[k].left = 1 THEN NoEntry
                  ELSE [cache[k] EXCEPT !.left = @ - 1]]
    /\ since' = [k \in Keys |-> [v \in Answers |->
                  IF v = truth[k] THEN 0 ELSE Least(since[k][v] + 1, Horizon)]]
    /\ UNCHANGED <<truth, changes>>

-----------------------------------------------------------------------------
Next ==
    \/ \E s \in Callers :
        \/ \E k \in Keys : BeginLookUp(s, k)
        \/ AdapterAnswers(s) \/ AdapterFails(s) \/ Store(s)
        \/ BeginList(s) \/ ListFriends(s) \/ ListFriendsFails(s) \/ ListDone(s)
        \/ \E a \in Friends : ListNext(s, a)
    \/ \E k \in Keys : \E v \in Answers : Relink(k, v)
    \/ Tick

Spec == Init /\ [][Next]_vars

-----------------------------------------------------------------------------
TypeOK ==
    /\ truth \in [Keys -> Answers]
    /\ cache \in [Keys -> Entry \cup {NoEntry}]
    /\ call \in [Callers -> Call \cup {Idle}]
    /\ changes \in 0..MaxChanges
    /\ since \in [Keys -> [Answers -> 0..Horizon]]
    /\ \A k \in Keys : since[k][truth[k]] = 0

\* Whatever the cache answers was true not longer ago than an answer is kept and
\* a call may take, though answers arrive late and over newer ones: five minutes
\* and some seconds for an account that moved, half a minute for one that was not
\* found.
AnswersAreFresh ==
    \A k \in Keys : cache[k] # NoEntry => since[k][cache[k].value] < Window(cache[k].value)

\* ... in the form that every step preserves: an answer that is under way or kept
\* has not been wrong for longer than it has been under way and kept.
AgesAddUp ==
    /\ \A k \in Keys : cache[k] # NoEntry =>
        since[k][cache[k].value] + cache[k].left <= Window(cache[k].value)
    /\ \A s \in Callers : At(s, "told") =>
        since[call[s].key][call[s].value] <= call[s].elapsed

\* coregraph.go: "Unresolvable accounts ... are skipped".  The friend list that is
\* returned when no link has changed lately names every friend who has a PID, with
\* that PID, and nobody else, but for the friends whose lookup failed.
ListIsRight ==
    [][\A s \in Callers : ListDone(s) /\ call[s].settled =>
        \A a \in call[s].friends \ call[s].failed : \A v \in Values :
            <<a, v>> \in call[s].out <=> truth[a] = v]_vars
=============================================================================
