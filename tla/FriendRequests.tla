--------------------------- MODULE FriendRequests ---------------------------
(***************************************************************************)
(* Wii U friend requests: the rows of wiiu.friend_requests, which carry    *)
(* the ids consoles answer to, kept beside the core's graph, which decides *)
(* who is friends with whom.  Calls of consoles and of game servers (gRPC) *)
(* and the event loop's handler interleave; a call is one step per round   *)
(* trip to the core or to Postgres.                                        *)
(*                                                                         *)
(* A call that fails in the core or in Postgres returns at once, with what *)
(* it did so far left behind, and so does one the process dies in.         *)
(***************************************************************************)
EXTENDS AccountGraph

CONSTANTS
    Slots,       \* bound: calls at one time
    Loop,        \* the event loop, which makes calls too
    Rows,        \* bound: ids of rows
    NoRow, Idle,
    Ops,         \* bound: what consoles do in an instance
    MayExpire,   \* rows expire in an instance
    MaxFails,    \* bound: calls that fail
    MaxRestarts, \* bound: restarts of the process
    MaxElsewhere \* bound: steps of other clients of the core

ASSUME SlotAssumption == Loop \notin Slots
ASSUME BoundAssumption == MaxFails \in Nat /\ MaxRestarts \in Nat /\ MaxElsewhere \in Nat

VARIABLES
    rows,        \* wiiu.friend_requests
    blacklist,   \* wiiu.blocks: the pairs a row is there for
    call,        \* the call in progress in a slot
    handled,     \* the event handled last, which a restart repeats, or none
    fails, restarts, elsewhere,
    touched,     \* history: pairs with a row closed since a listing began, or not stored
    strays,      \* history: pairs parted while a call was under way, or whose rows
                 \* could not be deleted then
    refused,     \* history: pairs whose request was denied, and not made again
    crossed      \* history: pairs a call blocked or unblocked in the core while
                 \* another was about to write the row for its own change

table   == <<rows, blacklist>>
bounds  == <<fails, restarts, elsewhere>>
history == <<touched, strays, refused, crossed>>
vars    == <<graph, events, table, call, handled, bounds, history>>

Callers == Slots \cup {Loop}
Steps == {"ask", "complete", "select", "reset", "insert", "accept", "mark",
          "block", "blacklist", "unblock", "unlist", "remove", "delete", "materialize", "list"}
Call == [at : Steps, from : PIDs, to : PIDs, row : Rows \cup {NoRow},
         blocked : BOOLEAN, out : BOOLEAN, live : SUBSET PIDs, todo : SUBSET PIDs]
Row  == [from : PIDs, to : PIDs, accepted : BOOLEAN, denied : BOOLEAN, expired : BOOLEAN]

ASSUME RowAssumption == NoRow \notin Rows \cup Row
ASSUME CallAssumption == Idle \notin Call

Init ==
    /\ GraphInit
    /\ rows = [r \in Rows |-> NoRow]
    /\ blacklist = {}
    /\ call = [s \in Callers |-> Idle]
    /\ handled = <<>>
    /\ fails = 0 /\ restarts = 0 /\ elsewhere = 0
    /\ touched = [s \in Callers |-> {}]
    /\ strays = {}
    /\ refused = {}
    /\ crossed = {}

-----------------------------------------------------------------------------
Exists(r) == rows[r] # NoRow
Open(r) == Exists(r) /\ ~rows[r].accepted /\ ~rows[r].denied
Of(a, b) == {r \in Rows : Exists(r) /\ rows[r].from = a /\ rows[r].to = b}

\* A bigserial id: no call remembers it from an earlier row.
FreshIds == {r \in Rows : ~Exists(r) /\ \A s \in Callers : call[s] # Idle => call[s].row # r}
NewRow(a, b, denied) ==
    [from |-> a, to |-> b, accepted |-> FALSE, denied |-> denied, expired |-> FALSE]
InsertRow(a, b, denied) ==
    \E r \in FreshIds : rows' = [rows EXCEPT ![r] = NewRow(a, b, denied)]
\* An INSERT that fails, as it does when the bound is reached.
NoRowsLeft == FreshIds = {} /\ UNCHANGED rows

\* A call under way, from one person about another.
Begin(s, step, a, b, r) ==
    /\ call[s] = Idle
    /\ call' = [call EXCEPT ![s] = [at |-> step, from |-> a, to |-> b, row |-> r,
                                    blocked |-> FALSE, out |-> FALSE, live |-> {}, todo |-> {}]]
At(s, step) == call[s] # Idle /\ call[s].at = step
Goto(s, step) == call' = [call EXCEPT ![s].at = step]
Return(s) == call' = [call EXCEPT ![s] = Idle]
From(s) == call[s].from
To(s) == call[s].to

\* Pairs whose rows a step closed or deleted, for the listings under way.
Closes(S) == touched' = [s \in Callers |-> IF At(s, "materialize") THEN touched[s] \cup S ELSE {}]
ListingOver(s) == touched' = [touched EXCEPT ![s] = {}]

\* A call has changed a block in the core.  Another that did, and has its row to
\* write yet, will write it over what this one writes.
Unwritten(s, p) == (At(s, "blacklist") \/ At(s, "unlist")) /\ <<From(s), To(s)>> = p
Crosses(s) ==
    LET p == <<From(s), To(s)>> IN
    crossed' = IF \E t \in Slots \ {s} : Unwritten(t, p) THEN crossed \cup {p} ELSE crossed \ {p}

-----------------------------------------------------------------------------
(***************************************************************************)
(* AddFriendRequest and gRPC's SendUserFriendRequest: SaveFriendRequest.   *)
(***************************************************************************)
Save(s, a, b) ==
    /\ "save" \in Ops /\ call[s] = Idle
    /\ call' = [call EXCEPT ![s] = [at |-> "ask", from |-> a, to |-> b, row |-> NoRow,
                                    blocked |-> IsBlocked(b, a), out |-> FALSE, live |-> {}, todo |-> {}]]
    /\ refused' = refused \ {<<a, b>>}
    /\ UNCHANGED <<graph, events, table, handled, bounds, touched, strays, crossed>>

\* The core is asked; an unknown recipient gets a row all the same, and whatever
\* FailedPrecondition refuses is taken for a mutual add.
SaveAsk(s) ==
    /\ At(s, "ask")
    /\ LET a == From(s)  b == To(s) IN
        \/ ~Resolved(a, b) /\ Goto(s, "select") /\ UNCHANGED <<graph, events>>
        \/ Resolved(a, b) /\ Refuses(a, b) /\ Return(s) /\ UNCHANGED <<graph, events>>
        \/ Resolved(a, b) /\ (Refuses(a, b) \/ AskedBack(a, b))
              /\ Goto(s, "complete") /\ UNCHANGED <<graph, events>>
        \/ Resolved(a, b) /\ ~Refuses(a, b) /\ ~AskedBack(a, b) /\ Request(a, b) /\ Goto(s, "select")
    /\ UNCHANGED <<table, handled, bounds, history>>

\* Mutual add: the other's request is accepted, if it is still there and no block
\* is in the way.
SaveComplete(s) ==
    /\ At(s, "complete")
    /\ \/ AcceptRequest(From(s), To(s)) /\ Goto(s, "select")
       \/ /\ <<To(s), From(s)>> \notin pending \/ Refuses(From(s), To(s))
          /\ Return(s)
          /\ UNCHANGED <<graph, events>>
    /\ UNCHANGED <<table, handled, bounds, history>>

\* SELECT id of any row there is, whatever its flags.
SaveSelect(s) ==
    /\ At(s, "select")
    /\ LET found == Of(From(s), To(s)) IN
        \/ found = {} /\ Goto(s, "insert")
        \/ found # {} /\ call[s].blocked /\ Return(s)
        \/ ~call[s].blocked /\ \E r \in found :
              call' = [call EXCEPT ![s].at = "reset", ![s].row = r]
    /\ UNCHANGED <<graph, events, table, handled, bounds, history>>

\* UPDATE: the row is open again, if it is still there.
SaveReset(s) ==
    /\ At(s, "reset")
    /\ LET r == call[s].row IN
        rows' = IF Exists(r)
                THEN [rows EXCEPT ![r].accepted = FALSE, ![r].denied = FALSE, ![r].expired = FALSE]
                ELSE rows
    /\ Return(s)
    /\ UNCHANGED <<graph, events, blacklist, handled, bounds, history>>

SaveInsert(s) ==
    /\ At(s, "insert")
    /\ InsertRow(From(s), To(s), call[s].blocked) \/ NoRowsLeft
    /\ Return(s)
    /\ UNCHANGED <<graph, events, blacklist, handled, bounds, history>>

-----------------------------------------------------------------------------
(***************************************************************************)
(* AcceptFriendRequest, by id.                                             *)
(***************************************************************************)
Accept(s, r) ==
    /\ "accept" \in Ops /\ Exists(r)
    /\ Begin(s, "accept", rows[r].from, rows[r].to, r)
    /\ UNCHANGED <<graph, events, table, handled, bounds, history>>

\* The core refuses what is not pending; whether it also does when the two are
\* friends already is its affair.
AcceptAccept(s) ==
    /\ At(s, "accept")
    /\ LET a == From(s)  b == To(s) IN
        \/ Resolved(a, b) /\ AcceptRequest(b, a) /\ Goto(s, "mark")
        \/ Resolved(a, b) /\ <<a, b>> \in friends /\ Goto(s, "mark") /\ UNCHANGED <<graph, events>>
        \/ (~Resolved(a, b) \/ <<a, b>> \notin pending) /\ Return(s) /\ UNCHANGED <<graph, events>>
    /\ UNCHANGED <<table, handled, bounds, history>>

AcceptMark(s) ==
    /\ At(s, "mark")
    /\ LET r == call[s].row IN
        rows' = IF Exists(r) THEN [rows EXCEPT ![r].accepted = TRUE] ELSE rows
    /\ Closes({<<From(s), To(s)>>})
    /\ Return(s)
    /\ UNCHANGED <<graph, events, blacklist, handled, bounds, strays, refused, crossed>>

-----------------------------------------------------------------------------
(***************************************************************************)
(* DenyFriendRequest, DeleteFriendRequest (also gRPC's Deny),              *)
(* CancelFriendRequest.                                                    *)
(***************************************************************************)
Denied(r) ==
    /\ rows' = [rows EXCEPT ![r].denied = TRUE]
    /\ Closes({<<rows[r].from, rows[r].to>>})
    /\ refused' = refused \cup {<<rows[r].from, rows[r].to>>}

\* Faulty: takes the second of the row's two people for the first.
DenyBlocksOneself(s, r) ==
    /\ "deny" \in Ops /\ Exists(r)
    /\ Denied(r)
    /\ Begin(s, "block", rows[r].to, rows[r].to, r)
    /\ UNCHANGED <<graph, events, blacklist, handled, bounds, strays, crossed>>

\* The recipient denies, which also blocks: the row first ...
Deny(s, r) ==
    /\ "deny" \in Ops /\ Exists(r)
    /\ Denied(r)
    /\ Begin(s, "block", rows[r].to, rows[r].from, r)
    /\ UNCHANGED <<graph, events, blacklist, handled, bounds, strays, crossed>>

\* AddBlackList.
AddBlackList(s, a, b) ==
    /\ "block" \in Ops
    /\ Begin(s, "block", a, b, NoRow)
    /\ UNCHANGED <<graph, events, table, handled, bounds, history>>

\* ... then SetUserBlocked: the block in the core (if, for a denial, the row can
\* still be found), ...
SetBlocked(s) ==
    /\ At(s, "block")
    /\ \/ /\ Resolved(From(s), To(s))
          /\ call[s].row # NoRow => Exists(call[s].row)
          /\ Block(From(s), To(s)) /\ Goto(s, "blacklist") /\ Crosses(s)
       \/ /\ ~Resolved(From(s), To(s)) \/ (call[s].row # NoRow /\ ~Exists(call[s].row))
          /\ Return(s) /\ UNCHANGED <<graph, events, crossed>>
    /\ UNCHANGED <<table, handled, bounds, touched, strays, refused>>

\* ... and its row here.
SetBlacklisted(s) ==
    /\ At(s, "blacklist")
    /\ blacklist' = blacklist \cup {<<From(s), To(s)>>}
    /\ Return(s)
    /\ UNCHANGED <<graph, events, rows, handled, bounds, history>>

\* RemoveBlackList: UnsetUserBlocked.
RemoveBlackList(s, a, b) ==
    /\ "block" \in Ops
    /\ Begin(s, "unblock", a, b, NoRow)
    /\ UNCHANGED <<graph, events, table, handled, bounds, history>>

\* Faulty: the row stays on the console's list.
UnsetBlockedInCore(s) ==
    /\ At(s, "unblock")
    /\ IF Resolved(From(s), To(s)) THEN Unblock(From(s), To(s)) ELSE UNCHANGED <<graph, events>>
    /\ Return(s)
    /\ UNCHANGED <<table, handled, bounds, history>>

UnsetBlocked(s) ==
    /\ At(s, "unblock")
    /\ IF Resolved(From(s), To(s)) THEN Unblock(From(s), To(s)) /\ Goto(s, "unlist") /\ Crosses(s)
       ELSE Return(s) /\ UNCHANGED <<graph, events, crossed>>
    /\ UNCHANGED <<table, handled, bounds, touched, strays, refused>>

UnsetBlacklisted(s) ==
    /\ At(s, "unlist")
    /\ blacklist' = blacklist \ {<<From(s), To(s)>>}
    /\ Return(s)
    /\ UNCHANGED <<graph, events, rows, handled, bounds, history>>

\* DeleteFriendRequest: only the row.
Delete(r) ==
    /\ "delete" \in Ops /\ Exists(r)
    /\ Denied(r)
    /\ UNCHANGED <<graph, events, blacklist, call, handled, bounds, strays, crossed>>

Cancel(s, r) ==
    /\ "cancel" \in Ops /\ Exists(r)
    /\ Begin(s, "remove", rows[r].from, rows[r].to, r)
    /\ UNCHANGED <<graph, events, table, handled, bounds, history>>

CancelRemove(s) ==
    /\ At(s, "remove")
    /\ IF Resolved(From(s), To(s)) THEN Remove(From(s), To(s)) ELSE UNCHANGED <<graph, events>>
    /\ Goto(s, "delete")
    /\ UNCHANGED <<table, handled, bounds, history>>

CancelDelete(s) ==
    /\ At(s, "delete")
    /\ rows' = [rows EXCEPT ![call[s].row] = NoRow]
    /\ Closes({<<From(s), To(s)>>})
    /\ Return(s)
    /\ UNCHANGED <<graph, events, blacklist, handled, bounds, strays, refused, crossed>>

-----------------------------------------------------------------------------
(***************************************************************************)
(* GetUserFriendRequestsIn and GetUserFriendRequestsOut.                   *)
(***************************************************************************)
BeginList(s, p, out, live) ==
    /\ call[s] = Idle
    /\ call' = [call EXCEPT ![s] = [at |-> "materialize", from |-> p, to |-> p, row |-> NoRow,
                                    blocked |-> FALSE, out |-> out, live |-> live, todo |-> live]]
    /\ touched' = [touched EXCEPT ![s] = {}]

\* What the core says is pending; nobody for a PID it does not know.
CoreSays(p, out) ==
    IF p \in Unresolved THEN {}
    ELSE IF out THEN OutgoingAddresseePIDs(p) ELSE IncomingRequesterPIDs(p)

List(s, p, out) ==
    /\ "list" \in Ops
    /\ BeginList(s, p, out, CoreSays(p, out))
    /\ UNCHANGED <<graph, events, table, handled, bounds, strays, refused, crossed>>

\* The core does not answer: the list is what the rows say.
ListUnanswered(s, p, out) ==
    /\ "list" \in Ops /\ fails < MaxFails
    /\ fails' = fails + 1
    /\ BeginList(s, p, out, {})
    /\ UNCHANGED <<graph, events, table, handled, restarts, elsewhere, strays, refused, crossed>>

Pair(s, q) == IF call[s].out THEN <<From(s), q>> ELSE <<q, From(s)>>

\* Faulty: an old answer counts as a row.
MaterializeOnce(s, q) ==
    /\ At(s, "materialize") /\ q \in call[s].todo
    /\ LET p == Pair(s, q) IN
        IF Of(p[1], p[2]) # {} THEN UNCHANGED rows ELSE InsertRow(p[1], p[2], FALSE) \/ NoRowsLeft
    /\ call' = [call EXCEPT ![s].todo = @ \ {q}]
    /\ UNCHANGED <<graph, events, blacklist, handled, bounds, history>>

\* materializeRequests: an open row for everyone who has none.
Materialize(s, q) ==
    /\ At(s, "materialize") /\ q \in call[s].todo
    /\ LET p == Pair(s, q) IN
        IF \E r \in Of(p[1], p[2]) : Open(r) THEN UNCHANGED <<rows, touched>>
        ELSE \/ InsertRow(p[1], p[2], FALSE) /\ UNCHANGED touched
             \/ NoRowsLeft /\ Closes({p})
    /\ call' = [call EXCEPT ![s].todo = @ \ {q}]
    /\ UNCHANGED <<graph, events, blacklist, handled, bounds, strays, refused, crossed>>

\* ... unless the profiles of those who ask cannot be stored (EnsureProfiles).
EnsureProfilesFails(s) ==
    /\ At(s, "materialize") /\ call[s].todo # {} /\ call[s].todo = call[s].live
    /\ fails < MaxFails
    /\ fails' = fails + 1
    /\ call' = [call EXCEPT ![s].todo = {}]
    /\ touched' = [touched EXCEPT ![s] = Pairs]
    /\ UNCHANGED <<graph, events, table, handled, restarts, elsewhere, strays, refused, crossed>>

\* The rows a listing shows: the open ones (or, to a sender, the denied too),
\* of people the core named if it named any, not expired (to a recipient).
Listed(s) ==
    LET Named(q) == call[s].live # {} => q \in call[s].live IN
    IF call[s].out
    THEN {q \in PIDs : Named(q) /\ \E r \in Of(From(s), q) : ~rows[r].accepted}
    ELSE {q \in PIDs : Named(q) /\ \E r \in Of(q, From(s)) : Open(r) /\ ~rows[r].expired}

\* The answer is Listed(s).
ShowList(s) ==
    /\ At(s, "materialize") /\ call[s].todo = {}
    /\ Return(s)
    /\ ListingOver(s)
    /\ UNCHANGED <<graph, events, table, handled, bounds, strays, refused, crossed>>

-----------------------------------------------------------------------------
(***************************************************************************)
(* coreevents.handle, one event after the other.                           *)
(***************************************************************************)
NextEvent(type) ==
    /\ call[Loop] = Idle /\ events # <<>> /\ Head(events).type = type
    /\ handled' = <<Head(events)>>
    /\ events' = Tail(events)

\* Someone connected here is told, which lists their requests.
OnRequested ==
    /\ NextEvent("friend_requested")
    /\ LET p == Head(events).to IN
        \/ BeginList(Loop, p, FALSE, CoreSays(p, FALSE))
        \/ UNCHANGED <<call, touched>>
    /\ UNCHANGED <<graph, table, bounds, strays, refused, crossed>>

\* Rows are marked if the one who asked is connected here with a Wii U.
OnAccepted ==
    /\ NextEvent("friend_accepted")
    /\ LET e == Head(events) IN
        \/ /\ rows' = [r \in Rows |-> IF r \in Of(e.to, e.about)
                                      THEN [rows[r] EXCEPT !.accepted = TRUE] ELSE rows[r]]
           /\ Closes({<<e.to, e.about>>})
        \/ UNCHANGED <<rows, touched>>
    /\ UNCHANGED <<graph, blacklist, call, bounds, strays, refused, crossed>>

\* Faulty: deletes what the one who is told had asked, and not the other way.
OnRemovedOneWay ==
    /\ NextEvent("friend_removed")
    /\ LET e == Head(events) IN
        /\ rows' = [r \in Rows |-> IF r \in Of(e.to, e.about) THEN NoRow ELSE rows[r]]
        /\ Closes({<<e.to, e.about>>})
        /\ strays' = IF \E s \in Slots : call[s] # Idle THEN strays \cup Both(e.to, e.about) ELSE strays
    /\ UNCHANGED <<graph, blacklist, call, bounds, refused, crossed>>

\* Rows of the two are deleted, both ways.
OnRemoved ==
    /\ NextEvent("friend_removed")
    /\ LET e == Head(events)  both == Both(e.to, e.about) IN
        /\ rows' = [r \in Rows |-> IF Resolved(e.to, e.about) /\ Exists(r)
                                      /\ <<rows[r].from, rows[r].to>> \in both
                                   THEN NoRow ELSE rows[r]]
        /\ Closes(both)
        /\ strays' = IF \E s \in Slots : call[s] # Idle THEN strays \cup both ELSE strays
    /\ UNCHANGED <<graph, blacklist, call, bounds, refused, crossed>>

\* ... unless a PID cannot be told or the DELETE fails: the event is over.
OnRemovedFails ==
    /\ NextEvent("friend_removed") /\ fails < MaxFails
    /\ fails' = fails + 1
    /\ strays' = strays \cup Both(Head(events).to, Head(events).about)
    /\ UNCHANGED <<graph, table, call, restarts, elsewhere, touched, refused, crossed>>

-----------------------------------------------------------------------------
\* A call fails in the core or in Postgres.
CallFails(s) ==
    /\ call[s] # Idle /\ fails < MaxFails
    /\ fails' = fails + 1
    /\ Return(s)
    /\ ListingOver(s)
    /\ UNCHANGED <<graph, events, table, handled, restarts, elsewhere, strays, refused, crossed>>

\* The process dies and starts again: the calls are gone, and the event handled
\* last is handled again (its version may not have been saved).
Restart ==
    /\ restarts < MaxRestarts
    /\ restarts' = restarts + 1
    /\ call' = [s \in Callers |-> Idle]
    /\ events' = handled \o events
    /\ handled' = <<>>
    /\ touched' = [s \in Callers |-> {}]
    /\ UNCHANGED <<graph, table, fails, elsewhere, strays, refused, crossed>>

\* Other clients of the core.
ElsewhereStep ==
    /\ elsewhere < MaxElsewhere
    /\ elsewhere' = elsewhere + 1
    /\ Elsewhere
    /\ refused' = refused \ (pending' \ pending)
    /\ UNCHANGED <<table, call, handled, fails, restarts, touched, strays, crossed>>

\* A request's time is over (29 days, or 7 for a materialized one).
Expire(r) ==
    /\ MayExpire /\ Exists(r) /\ ~rows[r].expired
    /\ rows' = [rows EXCEPT ![r].expired = TRUE]
    /\ UNCHANGED <<graph, events, blacklist, call, handled, bounds, history>>

-----------------------------------------------------------------------------
Go(s) ==
    \/ SaveAsk(s) \/ SaveComplete(s) \/ SaveSelect(s) \/ SaveReset(s) \/ SaveInsert(s)
    \/ AcceptAccept(s) \/ AcceptMark(s)
    \/ SetBlocked(s) \/ SetBlacklisted(s) \/ UnsetBlocked(s) \/ UnsetBlacklisted(s)
    \/ CancelRemove(s) \/ CancelDelete(s)
    \/ (\E q \in PIDs : Materialize(s, q)) \/ ShowList(s)

OnEvent == OnRequested \/ OnAccepted \/ OnRemoved

Console(s) ==
    \/ \E p \in Pairs : Save(s, p[1], p[2]) \/ AddBlackList(s, p[1], p[2]) \/ RemoveBlackList(s, p[1], p[2])
    \/ \E r \in Rows : Accept(s, r) \/ Deny(s, r) \/ Cancel(s, r)
    \/ \E p \in PIDs : \E out \in BOOLEAN : List(s, p, out) \/ ListUnanswered(s, p, out)

Next ==
    \/ \E s \in Slots : Console(s)
    \/ \E r \in Rows : Delete(r) \/ Expire(r)
    \/ \E s \in Callers : Go(s) \/ CallFails(s) \/ EnsureProfilesFails(s)
    \/ OnEvent \/ OnRemovedFails \/ Restart \/ ElsewhereStep

Spec == Init /\ [][Next]_vars

-----------------------------------------------------------------------------
TypeOK ==
    /\ GraphOK
    /\ rows \in [Rows -> Row \cup {NoRow}]
    /\ blacklist \in SUBSET Pairs
    /\ call \in [Callers -> Call \cup {Idle}]
    /\ \A s \in Callers : call[s] # Idle => call[s].todo \subseteq call[s].live
    /\ handled \in Seq(Event) /\ Len(handled) <= 1
    /\ fails \in 0..MaxFails /\ restarts \in 0..MaxRestarts /\ elsewhere \in 0..MaxElsewhere
    /\ touched \in [Callers -> SUBSET Pairs]
    /\ strays \in SUBSET Pairs /\ refused \in SUBSET Pairs /\ crossed \in SUBSET Pairs

\* Whoever the core says is asking a person is on the list the person gets,
\* wherever they asked from and whatever became of earlier requests of theirs;
\* but for those whose row another call or event closed while the list was being
\* made, could not be stored, or is too old.
PendingIsListed ==
    [][\A s \in Callers : (ShowList(s) /\ ~call[s].out) =>
        \A q \in call[s].live :
            \/ q \in Listed(s)
            \/ <<q, From(s)>> \in touched[s]
            \/ \E r \in Of(q, From(s)) : Open(r) /\ rows[r].expired]_vars

\* A console's block list and the blocks the core enforces are the same, but for
\* the step between the two that a call is about to take; when nothing fails,
\* the blocks are the console's alone to set, and no call of the console came
\* between the two steps of another about the same person.
BlockListMatches ==
    fails = 0 /\ restarts = 0 /\ elsewhere = 0 =>
        \A p \in Pairs \ crossed : (p \in blacklist) # (p \in blocks) =>
            \E s \in Slots : At(s, IF p \in blocks THEN "blacklist" ELSE "unlist") /\ <<From(s), To(s)>> = p

\* Nothing is under way: no call, and no event of the core is waiting.
Quiet == events = <<>> /\ \A s \in Callers : call[s] = Idle

\* coreevents/poller.go: "local request metadata must not resurrect a friendship
\* the core ended."  When all is quiet no open row stays behind for two whom the
\* core has parted, in whatever order their requests, answers and events came,
\* unless a call was under way just then (or the handler's own DELETE failed,
\* which is not repeated).  A request to a PID without an account is nothing the
\* core has a say in.
EndedIsForgotten ==
    Quiet => \A p \in Pairs : \A r \in Of(p[1], p[2]) :
        Open(r) => Related(p[1], p[2]) \/ p \in strays \/ ~Resolved(p[1], p[2])
=============================================================================
