------------------------- MODULE FriendRequestsProofs -------------------------
(***************************************************************************)
(* What is proved of FriendRequests, for any people, any number of calls   *)
(* at a time, of rows, failures, restarts and steps of other clients: its  *)
(* type, that block lists match the core's blocks, that what the core has  *)
(* ended is forgotten here, and that what is pending is listed.            *)
(***************************************************************************)
EXTENDS FriendRequests, AccountGraphProofs

\* A row is between two people, and so is a call, save a listing, which names
\* others.  A call that answers to an id has one.
ByRow == {"reset", "accept", "mark", "remove", "delete"}
RowOK(x) == x \in Row /\ x.from # x.to
CallOK(c) ==
    /\ c \in Call
    /\ c.todo \subseteq c.live
    /\ c.from \notin c.live
    /\ c.at # "materialize" => c.from # c.to
    /\ c.at \in ByRow => c.row \in Rows

TableOK == rows \in [Rows -> {x \in Row : RowOK(x)} \cup {NoRow}] /\ blacklist \in SUBSET Pairs
CallsOK == call \in [Callers -> {c \in Call : CallOK(c)} \cup {Idle}]
HandledOK == handled \in Seq(Event) /\ Len(handled) <= 1
BoundsOK == fails \in 0..MaxFails /\ restarts \in 0..MaxRestarts /\ elsewhere \in 0..MaxElsewhere
HistoryOK ==
    /\ touched \in [Callers -> SUBSET Pairs]
    /\ strays \in SUBSET Pairs /\ refused \in SUBSET Pairs /\ crossed \in SUBSET Pairs

Typed == GraphOK /\ TableOK /\ CallsOK /\ HandledOK /\ BoundsOK /\ HistoryOK

LEMMA TypedIsTypeOK == Typed => TypeOK
<1> SUFFICES ASSUME Typed PROVE TypeOK
    OBVIOUS
<1>1. rows \in [Rows -> Row \cup {NoRow}] /\ call \in [Callers -> Call \cup {Idle}]
    BY DEF Typed, TableOK, CallsOK
<1>2. \A s \in Callers : call[s] # Idle => call[s].todo \subseteq call[s].live
    BY DEF Typed, CallsOK, CallOK
<1> QED BY <1>1, <1>2 DEF Typed, TypeOK, TableOK, HandledOK, BoundsOK, HistoryOK

LEMMA InitTyped == Init => Typed
<1> SUFFICES ASSUME Init PROVE Typed
    OBVIOUS
<1>1. GraphOK
    BY GraphInitOK DEF Init
<1>2. handled \in Seq(Event) /\ Len(handled) <= 1
    BY DEF Init
<1> QED BY <1>1, <1>2, BoundAssumption
        DEF Init, Typed, TableOK, CallsOK, HandledOK, BoundsOK, HistoryOK

-----------------------------------------------------------------------------
\* The parts of a step.  A call in progress, and what it is about.
LEMMA CallAt ==
    ASSUME CallsOK, NEW s \in Callers, call[s] # Idle
    PROVE  /\ CallOK(call[s]) /\ From(s) \in PIDs /\ To(s) \in PIDs
           /\ call[s].at # "materialize" => From(s) # To(s) /\ <<From(s), To(s)>> \in Pairs
<1>1. CallOK(call[s])
    BY DEF CallsOK
<1> QED BY <1>1 DEF CallOK, Call, From, To, Pairs

LEMMA Proceeds ==
    ASSUME CallsOK, NEW s \in Callers, NEW c, CallOK(c), call' = [call EXCEPT ![s] = c]
    PROVE  CallsOK'
    BY DEF CallsOK, CallOK

LEMMA Begins ==
    ASSUME CallsOK, NEW s \in Callers, NEW step \in Steps \ {"materialize"}, NEW a \in PIDs, NEW b \in PIDs,
           NEW r \in Rows \cup {NoRow}, a # b, step \in ByRow => r \in Rows, Begin(s, step, a, b, r)
    PROVE  CallsOK'
<1> DEFINE c == [at |-> step, from |-> a, to |-> b, row |-> r,
                 blocked |-> FALSE, out |-> FALSE, live |-> {}, todo |-> {}]
<1>1. CallOK(c)
    BY DEF CallOK, Call
<1> QED BY <1>1, Proceeds DEF Begin

LEMMA Returns ==
    ASSUME CallsOK, NEW s \in Callers, Return(s)
    PROVE  CallsOK'
    BY DEF Return, CallsOK

LEMMA GoesTo ==
    ASSUME CallsOK, NEW s \in Callers, NEW step \in Steps, call[s] # Idle, call[s].at # "materialize",
           step # "materialize", step \in ByRow => call[s].row \in Rows, Goto(s, step)
    PROVE  CallsOK'
<1> DEFINE c == [call[s] EXCEPT !.at = step]
<1>1. CallOK(c)
    BY CallAt DEF CallOK, Call
<1>2. call' = [call EXCEPT ![s] = c]
    BY DEF Goto
<1> QED BY <1>1, <1>2, Proceeds

LEMMA ListBegins ==
    ASSUME GraphOK, CallsOK, HistoryOK, NEW s \in Callers, NEW p \in PIDs, NEW out \in BOOLEAN,
           NEW live \in {{}, CoreSays(p, out)}, BeginList(s, p, out, live)
    PROVE  CallsOK' /\ touched' \in [Callers -> SUBSET Pairs]
<1> DEFINE c == [at |-> "materialize", from |-> p, to |-> p, row |-> NoRow,
                 blocked |-> FALSE, out |-> out, live |-> live, todo |-> live]
<1>1. live \in SUBSET PIDs /\ p \notin live
    BY DEF CoreSays, OutgoingAddresseePIDs, IncomingRequesterPIDs, GraphOK, Pairs
<1>2. CallOK(c)
    BY <1>1 DEF CallOK, Call, Steps, ByRow
<1> QED BY <1>2, Proceeds DEF BeginList, HistoryOK

\* A listing about one person less.
LEMMA ListProceeds ==
    ASSUME CallsOK, NEW s \in Callers, At(s, "materialize"), NEW todo \in SUBSET call[s].todo,
           call' = [call EXCEPT ![s].todo = todo]
    PROVE  CallsOK'
<1> DEFINE c == [call[s] EXCEPT !.todo = todo]
<1>1. CallOK(c)
    BY CallAt DEF At, CallOK, Call, ByRow
<1>2. call' = [call EXCEPT ![s] = c]
    OBVIOUS
<1> QED BY <1>1, <1>2, Proceeds

\* A row is made, changed or deleted.
LEMMA RowAt ==
    ASSUME TableOK, NEW r \in Rows, Exists(r)
    PROVE  /\ RowOK(rows[r]) /\ rows[r].from \in PIDs /\ rows[r].to \in PIDs
           /\ <<rows[r].from, rows[r].to>> \in Pairs
    BY DEF TableOK, Exists, RowOK, Row, Pairs

LEMMA RowWritten ==
    ASSUME TableOK, NEW r, NEW x, RowOK(x) \/ x = NoRow, rows' = [rows EXCEPT ![r] = x]
    PROVE  rows' \in [Rows -> {y \in Row : RowOK(y)} \cup {NoRow}]
    BY DEF TableOK, RowOK

LEMMA RowInserted ==
    ASSUME TableOK, NEW a \in PIDs, NEW b \in PIDs, a # b, NEW denied \in BOOLEAN,
           InsertRow(a, b, denied) \/ NoRowsLeft
    PROVE  rows' \in [Rows -> {y \in Row : RowOK(y)} \cup {NoRow}]
<1>1. CASE InsertRow(a, b, denied)
    <2>1. PICK r \in FreshIds : rows' = [rows EXCEPT ![r] = NewRow(a, b, denied)]
        BY <1>1 DEF InsertRow
    <2>2. RowOK(NewRow(a, b, denied))
        BY DEF RowOK, NewRow, Row
    <2> QED BY <2>1, <2>2, RowWritten
<1> QED BY <1>1 DEF NoRowsLeft, TableOK

LEMMA RowChanged ==
    ASSUME TableOK, NEW r \in Rows, Exists(r), NEW accepted \in BOOLEAN, NEW denied \in BOOLEAN,
           NEW expired \in BOOLEAN
    PROVE  RowOK([rows[r] EXCEPT !.accepted = accepted, !.denied = denied, !.expired = expired])
    BY RowAt DEF RowOK, Row

LEMMA Closed ==
    ASSUME HistoryOK, NEW S \in SUBSET Pairs, Closes(S)
    PROVE  touched' \in [Callers -> SUBSET Pairs]
    BY DEF HistoryOK, Closes

\* What is left alone stays typed.
LEMMA SameTable == TableOK /\ UNCHANGED table => TableOK'
    BY DEF TableOK, table

LEMMA SameHistory == HistoryOK /\ UNCHANGED history => HistoryOK'
    BY DEF HistoryOK, history

LEMMA SameRest == HandledOK /\ BoundsOK /\ UNCHANGED <<handled, bounds>> => HandledOK' /\ BoundsOK'
    BY DEF HandledOK, BoundsOK, bounds

LEMMA DeniedOK ==
    ASSUME TableOK, HistoryOK, NEW r \in Rows, Exists(r), Denied(r)
    PROVE  /\ rows' \in [Rows -> {y \in Row : RowOK(y)} \cup {NoRow}]
           /\ touched' \in [Callers -> SUBSET Pairs] /\ refused' \in SUBSET Pairs
<1>1. <<rows[r].from, rows[r].to>> \in Pairs /\ RowOK([rows[r] EXCEPT !.denied = TRUE])
    BY RowAt DEF RowOK, Row
<1>2. rows' = [rows EXCEPT ![r] = [rows[r] EXCEPT !.denied = TRUE]]
    BY DEF Denied
<1> QED BY <1>1, <1>2, RowWritten, Closed DEF Denied, HistoryOK

LEMMA CrossesOK ==
    ASSUME CallsOK, HistoryOK, NEW s \in Callers, At(s, "block") \/ At(s, "unblock"), Crosses(s)
    PROVE  crossed' \in SUBSET Pairs
    BY CallAt DEF At, Crosses, HistoryOK

-----------------------------------------------------------------------------
\* What a console calls.
LEMMA ConsoleTyped ==
    ASSUME Typed, NEW s \in Slots, Console(s)
    PROVE  Typed'
<1>1. GraphOK /\ TableOK /\ CallsOK /\ HandledOK /\ BoundsOK /\ HistoryOK /\ s \in Callers
    BY DEF Typed, Callers
<1>2. ASSUME NEW p \in Pairs, Save(s, p[1], p[2]) PROVE Typed'
    <2> DEFINE c == [at |-> "ask", from |-> p[1], to |-> p[2], row |-> NoRow, blocked |-> IsBlocked(p[2], p[1]),
                     out |-> FALSE, live |-> {}, todo |-> {}]
    <2>1. p[1] \in PIDs /\ p[2] \in PIDs /\ p[1] # p[2] /\ IsBlocked(p[2], p[1]) \in BOOLEAN
        BY DEF Pairs, IsBlocked
    <2>2. CallOK(c)
        BY <2>1 DEF CallOK, Call, Steps, ByRow
    <2>3. CallsOK'
        BY <1>1, <1>2, <2>2, Proceeds DEF Save
    <2>4. HistoryOK' /\ GraphOK'
        BY <1>1, <1>2, SameGraph DEF Save, HistoryOK
    <2> QED BY <1>1, <1>2, <2>3, <2>4, SameTable, SameRest DEF Typed, Save
<1>3. ASSUME NEW p \in Pairs, AddBlackList(s, p[1], p[2]) \/ RemoveBlackList(s, p[1], p[2]) PROVE Typed'
    <2>1. p[1] \in PIDs /\ p[2] \in PIDs /\ p[1] # p[2]
        BY DEF Pairs
    <2>2. CallsOK'
        BY <1>1, <1>3, <2>1, Begins DEF AddBlackList, RemoveBlackList, Steps, ByRow
    <2> QED BY <1>1, <1>3, <2>2, SameGraph, SameTable, SameRest, SameHistory DEF Typed, AddBlackList, RemoveBlackList
<1>4. ASSUME NEW r \in Rows, Accept(s, r) \/ Cancel(s, r) PROVE Typed'
    <2>1. RowOK(rows[r]) /\ rows[r].from \in PIDs /\ rows[r].to \in PIDs
        BY <1>1, <1>4, RowAt DEF Accept, Cancel
    <2>2. CallsOK'
        BY <1>1, <1>4, <2>1, Begins DEF Accept, Cancel, Steps, ByRow, RowOK
    <2> QED BY <1>1, <1>4, <2>2, SameGraph, SameTable, SameRest, SameHistory DEF Typed, Accept, Cancel
<1>5. ASSUME NEW r \in Rows, Deny(s, r) PROVE Typed'
    <2>1. RowOK(rows[r]) /\ rows[r].from \in PIDs /\ rows[r].to \in PIDs /\ <<rows[r].from, rows[r].to>> \in Pairs
        BY <1>1, <1>5, RowAt DEF Deny
    <2>2. CallsOK'
        BY <1>1, <1>5, <2>1, Begins DEF Deny, Steps, ByRow, RowOK
    <2>3. TableOK' /\ HistoryOK'
        BY <1>1, <1>5, <2>1, DeniedOK DEF Deny, TableOK, HistoryOK
    <2> QED BY <1>1, <1>5, <2>2, <2>3, SameGraph, SameRest DEF Typed, Deny
<1>6. ASSUME NEW p \in PIDs, NEW out \in BOOLEAN, List(s, p, out) \/ ListUnanswered(s, p, out) PROVE Typed'
    <2>1. CallsOK' /\ touched' \in [Callers -> SUBSET Pairs]
        BY <1>1, <1>6, ListBegins DEF List, ListUnanswered
    <2>2. HistoryOK' /\ GraphOK'
        BY <1>1, <1>6, <2>1, SameGraph DEF List, ListUnanswered, HistoryOK
    <2>3. BoundsOK' /\ HandledOK'
        BY <1>1, <1>6, BoundAssumption DEF List, ListUnanswered, BoundsOK, HandledOK, bounds
    <2> QED BY <1>1, <1>6, <2>1, <2>2, <2>3, SameTable DEF Typed, List, ListUnanswered
<1> QED BY <1>2, <1>3, <1>4, <1>5, <1>6 DEF Console

\* A call goes on, and the graph with it; the rest stays.
LEMMA OnlyGraph ==
    ASSUME Typed, GraphOK', CallsOK', UNCHANGED <<table, handled, bounds, touched, strays, refused>>,
           crossed' \in SUBSET Pairs
    PROVE  Typed'
<1>1. HistoryOK'
    BY DEF Typed, HistoryOK
<1> QED BY <1>1, SameTable, SameRest DEF Typed

\* A call that saves a request.
LEMMA SavingTyped ==
    ASSUME Typed, NEW s \in Callers,
           SaveAsk(s) \/ SaveComplete(s) \/ SaveSelect(s) \/ SaveReset(s) \/ SaveInsert(s)
    PROVE  Typed'
<1>1. GraphOK /\ TableOK /\ CallsOK /\ HandledOK /\ BoundsOK /\ HistoryOK
    BY DEF Typed
<1>2. /\ call[s] # Idle /\ CallOK(call[s]) /\ From(s) \in PIDs /\ To(s) \in PIDs /\ From(s) # To(s)
      /\ call[s].at # "materialize"
    BY <1>1, CallAt DEF SaveAsk, SaveComplete, SaveSelect, SaveReset, SaveInsert, At
<1>3. CASE SaveAsk(s)
    <2>1. CallsOK'
        BY <1>1, <1>2, <1>3, GoesTo, Returns DEF SaveAsk, Steps, ByRow
    <2>2. GraphOK'
        BY <1>1, <1>2, <1>3, SameGraph, RequestOK DEF SaveAsk
    <2> QED BY <1>1, <1>3, <2>1, <2>2, SameTable, SameRest, SameHistory DEF Typed, SaveAsk
<1>4. CASE SaveComplete(s)
    <2>1. CallsOK'
        BY <1>1, <1>2, <1>4, GoesTo, Returns DEF SaveComplete, Steps, ByRow
    <2>2. GraphOK'
        BY <1>1, <1>2, <1>4, SameGraph, AcceptOK DEF SaveComplete
    <2> QED BY <1>1, <1>4, <2>1, <2>2, SameTable, SameRest, SameHistory DEF Typed, SaveComplete
<1>5. CASE SaveSelect(s)
    <2>1. CallsOK'
        <3>1. ASSUME NEW r \in Of(From(s), To(s)), call' = [call EXCEPT ![s].at = "reset", ![s].row = r]
              PROVE CallsOK'
            <4> DEFINE c == [call[s] EXCEPT !.at = "reset", !.row = r]
            <4>1. CallOK(c)
                BY <1>2 DEF CallOK, Call, Steps, Of
            <4>2. call' = [call EXCEPT ![s] = c]
                BY <3>1, <1>1, <1>2 DEF CallsOK
            <4> QED BY <1>1, <4>1, <4>2, Proceeds
        <3> QED BY <1>1, <1>2, <1>5, <3>1, GoesTo, Returns DEF SaveSelect, Steps, ByRow
    <2> QED BY <1>1, <1>5, <2>1, SameGraph, SameTable, SameRest, SameHistory DEF Typed, SaveSelect
<1>6. CASE SaveReset(s)
    <2> DEFINE r == call[s].row
    <2>1. rows' \in [Rows -> {y \in Row : RowOK(y)} \cup {NoRow}]
        <3>1. CASE Exists(r) /\ r \in Rows
            <4> DEFINE x == [rows[r] EXCEPT !.accepted = FALSE, !.denied = FALSE, !.expired = FALSE]
            <4>1. RowOK(x)
                BY <1>1, <3>1, RowChanged
            <4>2. rows' = [rows EXCEPT ![r] = x]
                BY <1>1, <1>6, <3>1 DEF SaveReset, TableOK
            <4> QED BY <1>1, <4>1, <4>2, RowWritten
        <3>2. r \in Rows
            BY <1>2, <1>6 DEF SaveReset, At, CallOK, ByRow
        <3> QED BY <1>1, <1>6, <3>1, <3>2 DEF SaveReset, TableOK
    <2>2. TableOK' /\ CallsOK'
        BY <1>1, <1>6, <2>1, Returns DEF SaveReset, TableOK
    <2> QED BY <1>1, <1>6, <2>2, SameGraph, SameRest, SameHistory DEF Typed, SaveReset
<1>7. CASE SaveInsert(s)
    <2>1. TableOK' /\ CallsOK'
        BY <1>1, <1>2, <1>7, RowInserted, Returns DEF SaveInsert, TableOK, CallOK, Call
    <2> QED BY <1>1, <1>7, <2>1, SameGraph, SameRest, SameHistory DEF Typed, SaveInsert
<1> QED BY <1>3, <1>4, <1>5, <1>6, <1>7

\* A call that accepts or cancels one.
LEMMA AnsweringTyped ==
    ASSUME Typed, NEW s \in Callers,
           AcceptAccept(s) \/ AcceptMark(s) \/ CancelRemove(s) \/ CancelDelete(s)
    PROVE  Typed'
<1>1. GraphOK /\ TableOK /\ CallsOK /\ HandledOK /\ BoundsOK /\ HistoryOK
    BY DEF Typed
<1>2. /\ call[s] # Idle /\ CallOK(call[s]) /\ From(s) \in PIDs /\ To(s) \in PIDs /\ From(s) # To(s)
      /\ call[s].at # "materialize" /\ call[s].row \in Rows /\ <<From(s), To(s)>> \in Pairs
    BY <1>1, CallAt DEF AcceptAccept, AcceptMark, CancelRemove, CancelDelete, At, CallOK, ByRow
<1>3. CASE AcceptAccept(s)
    <2>1. CallsOK'
        BY <1>1, <1>2, <1>3, GoesTo, Returns DEF AcceptAccept, Steps
    <2>2. GraphOK'
        BY <1>1, <1>2, <1>3, SameGraph, AcceptOK DEF AcceptAccept
    <2> QED BY <1>1, <1>3, <2>1, <2>2, SameTable, SameRest, SameHistory DEF Typed, AcceptAccept
<1>4. CASE CancelRemove(s)
    <2>1. CallsOK'
        BY <1>1, <1>2, <1>4, GoesTo DEF CancelRemove, Steps
    <2>2. GraphOK'
        BY <1>1, <1>2, <1>4, SameGraph, RemoveOK DEF CancelRemove
    <2> QED BY <1>1, <1>4, <2>1, <2>2, SameTable, SameRest, SameHistory DEF Typed, CancelRemove
<1>5. ASSUME AcceptMark(s) \/ CancelDelete(s) PROVE Typed'
    <2> DEFINE r == call[s].row
    <2>1. ASSUME AcceptMark(s), Exists(r)
          PROVE  rows' = [rows EXCEPT ![r] = [rows[r] EXCEPT !.accepted = TRUE]]
                 /\ RowOK([rows[r] EXCEPT !.accepted = TRUE])
        BY <1>1, <1>2, <2>1, RowAt DEF AcceptMark, TableOK, RowOK, Row
    <2>2. rows' \in [Rows -> {y \in Row : RowOK(y)} \cup {NoRow}]
        BY <1>1, <1>2, <1>5, <2>1, RowWritten DEF AcceptMark, CancelDelete, TableOK
    <2>3. touched' \in [Callers -> SUBSET Pairs] /\ CallsOK'
        BY <1>1, <1>2, <1>5, Closed, Returns DEF AcceptMark, CancelDelete
    <2>4. TableOK' /\ HistoryOK'
        BY <1>1, <1>5, <2>2, <2>3 DEF AcceptMark, CancelDelete, TableOK, HistoryOK
    <2> QED BY <1>1, <1>5, <2>3, <2>4, SameGraph, SameRest DEF Typed, AcceptMark, CancelDelete
<1> QED BY <1>3, <1>4, <1>5

\* A call that blocks or unblocks somebody.
LEMMA BlockingTyped ==
    ASSUME Typed, NEW s \in Callers,
           SetBlocked(s) \/ SetBlacklisted(s) \/ UnsetBlocked(s) \/ UnsetBlacklisted(s)
    PROVE  Typed'
<1>1. GraphOK /\ TableOK /\ CallsOK /\ HandledOK /\ BoundsOK /\ HistoryOK
    BY DEF Typed
<1>2. /\ call[s] # Idle /\ CallOK(call[s]) /\ From(s) \in PIDs /\ To(s) \in PIDs /\ From(s) # To(s)
      /\ call[s].at # "materialize" /\ <<From(s), To(s)>> \in Pairs
    BY <1>1, CallAt DEF SetBlocked, SetBlacklisted, UnsetBlocked, UnsetBlacklisted, At
<1>3. CASE SetBlocked(s) \/ UnsetBlocked(s)
    <2>1. CallsOK'
        BY <1>1, <1>2, <1>3, GoesTo, Returns DEF SetBlocked, UnsetBlocked, Steps, ByRow
    <2>2. GraphOK'
        BY <1>1, <1>2, <1>3, SameGraph, BlockOK DEF SetBlocked, UnsetBlocked
    <2>3. crossed' \in SUBSET Pairs
        BY <1>1, <1>3, CrossesOK DEF SetBlocked, UnsetBlocked, HistoryOK
    <2> QED BY <1>3, <2>1, <2>2, <2>3, OnlyGraph DEF SetBlocked, UnsetBlocked
<1>4. CASE SetBlacklisted(s) \/ UnsetBlacklisted(s)
    <2>1. CallsOK' /\ TableOK'
        BY <1>1, <1>2, <1>4, Returns DEF SetBlacklisted, UnsetBlacklisted, TableOK
    <2> QED BY <1>1, <1>4, <2>1, SameGraph, SameRest, SameHistory DEF Typed, SetBlacklisted, UnsetBlacklisted
<1> QED BY <1>3, <1>4

\* A call that lists requests, or fails.
LEMMA ListingTyped ==
    ASSUME Typed, NEW s \in Callers,
           (\E q \in PIDs : Materialize(s, q)) \/ ShowList(s) \/ EnsureProfilesFails(s) \/ CallFails(s)
    PROVE  Typed'
<1>1. GraphOK /\ TableOK /\ CallsOK /\ HandledOK /\ BoundsOK /\ HistoryOK
    BY DEF Typed
<1>2. ASSUME NEW q \in PIDs, Materialize(s, q) PROVE Typed'
    <2> DEFINE p == Pair(s, q)
    <2>1. call[s] # Idle /\ CallOK(call[s]) /\ q # From(s) /\ From(s) \in PIDs
        BY <1>1, <1>2, CallAt DEF Materialize, At, CallOK, From
    <2>2. p \in Pairs /\ p[1] \in PIDs /\ p[2] \in PIDs /\ p[1] # p[2]
        BY <2>1 DEF Pair, Pairs
    <2>3. CallsOK'
        <3> DEFINE rest == call[s].todo \ {q}
        <3>1. rest \in SUBSET call[s].todo /\ At(s, "materialize") /\ call' = [call EXCEPT ![s].todo = rest]
            BY <1>1, <1>2 DEF Materialize, CallsOK
        <3> QED BY <1>1, <3>1, ListProceeds
    <2>4. rows' \in [Rows -> {y \in Row : RowOK(y)} \cup {NoRow}]
        <3>1. CASE UNCHANGED rows
            BY <1>1, <3>1 DEF TableOK
        <3> QED BY <1>1, <1>2, <2>2, <3>1, RowInserted DEF Materialize
    <2>5. touched' \in [Callers -> SUBSET Pairs]
        BY <1>1, <1>2, <2>2, Closed DEF Materialize, HistoryOK
    <2>6. TableOK' /\ HistoryOK'
        BY <1>1, <1>2, <2>4, <2>5 DEF Materialize, TableOK, HistoryOK
    <2> QED BY <1>1, <1>2, <2>3, <2>6, SameGraph, SameRest DEF Typed, Materialize
<1>3. CASE ShowList(s)
    <2>1. CallsOK' /\ HistoryOK'
        BY <1>1, <1>3, Returns DEF ShowList, ListingOver, HistoryOK
    <2> QED BY <1>1, <1>3, <2>1, SameGraph, SameTable, SameRest DEF Typed, ShowList
<1>4. CASE EnsureProfilesFails(s)
    <2>1. CallsOK'
        <3>1. {} \in SUBSET call[s].todo /\ At(s, "materialize") /\ call' = [call EXCEPT ![s].todo = {}]
            BY <1>4 DEF EnsureProfilesFails
        <3> QED BY <1>1, <3>1, ListProceeds
    <2>2. HistoryOK'
        BY <1>1, <1>4 DEF EnsureProfilesFails, HistoryOK
    <2>3. BoundsOK' /\ HandledOK'
        BY <1>1, <1>4, BoundAssumption DEF EnsureProfilesFails, BoundsOK, HandledOK
    <2> QED BY <1>1, <1>4, <2>1, <2>2, <2>3, SameGraph, SameTable DEF Typed, EnsureProfilesFails
<1>5. CASE CallFails(s)
    <2>1. CallsOK' /\ HistoryOK'
        BY <1>1, <1>5, Returns DEF CallFails, ListingOver, HistoryOK
    <2>2. BoundsOK' /\ HandledOK'
        BY <1>1, <1>5, BoundAssumption DEF CallFails, BoundsOK, HandledOK
    <2> QED BY <1>1, <1>5, <2>1, <2>2, SameGraph, SameTable DEF Typed, CallFails
<1> QED BY <1>2, <1>3, <1>4, <1>5

-----------------------------------------------------------------------------
\* Every event is about two people, those a restart repeats included.
NewsOK == events \in Seq(Notice) /\ handled \in Seq(Notice)

\* What a step does with the graph and the queue.
LEMMA GraphSteps ==
    ASSUME Typed, Next
    PROVE  \/ GraphCall /\ UNCHANGED <<handled, strays>>
           \/ UNCHANGED <<graph, events, handled, strays>>
           \/ UNCHANGED graph /\ OnEvent
           \/ UNCHANGED graph /\ OnRemovedFails
           \/ UNCHANGED <<graph, strays>> /\ Restart
<1>1. ASSUME NEW s \in Callers, Go(s) PROVE (GraphCall \/ UNCHANGED <<graph, events>>) /\ UNCHANGED <<handled, strays>>
    <2>1. UNCHANGED <<handled, strays>>
        BY <1>1 DEF Go, SaveAsk, SaveComplete, SaveSelect, SaveReset, SaveInsert, AcceptAccept, AcceptMark, SetBlocked,
           SetBlacklisted, UnsetBlocked, UnsetBlacklisted, CancelRemove, CancelDelete, Materialize, ShowList, history
    <2>2. CASE UNCHANGED <<graph, events>>
        BY <2>1, <2>2
    <2>3. CASE SaveAsk(s) \/ SaveComplete(s) \/ AcceptAccept(s) \/ SetBlocked(s) \/ UnsetBlocked(s) \/ CancelRemove(s)
        <3>1. <<From(s), To(s)>> \in Pairs /\ <<To(s), From(s)>> \in Pairs
            BY <2>3, CallAt DEF Typed, SaveAsk, SaveComplete, AcceptAccept, SetBlocked, UnsetBlocked, CancelRemove, At,
               Pairs
        <3>2. GraphCall \/ UNCHANGED <<graph, events>>
            BY <2>3, <3>1 DEF SaveAsk, SaveComplete, AcceptAccept, SetBlocked, UnsetBlocked, CancelRemove, GraphCall
        <3> QED BY <2>1, <3>2
    <2> QED BY <1>1, <2>1, <2>2, <2>3
            DEF Go, SaveSelect, SaveReset, SaveInsert, AcceptMark, SetBlacklisted, UnsetBlacklisted, CancelDelete,
                Materialize, ShowList
<1>2. ASSUME NEW s \in Slots, Console(s) PROVE UNCHANGED <<graph, events, handled, strays>>
    BY <1>2 DEF Console, Save, AddBlackList, RemoveBlackList, Accept, Deny, Cancel, List, ListUnanswered, history
<1>3. ASSUME NEW r \in Rows, Delete(r) \/ Expire(r) PROVE UNCHANGED <<graph, events, handled, strays>>
    BY <1>3 DEF Delete, Expire, history
<1>4. ASSUME NEW s \in Callers, CallFails(s) \/ EnsureProfilesFails(s) PROVE UNCHANGED <<graph, events, handled, strays>>
    BY <1>4 DEF CallFails, EnsureProfilesFails
<1>5. ElsewhereStep => GraphCall /\ UNCHANGED <<handled, strays>>
    BY ElsewhereIsCall DEF ElsewhereStep
<1>6. OnEvent \/ OnRemovedFails => UNCHANGED graph
    BY DEF OnEvent, OnRequested, OnAccepted, OnRemoved, OnRemovedFails
<1>7. Restart => UNCHANGED <<graph, strays>>
    BY DEF Restart
<1> QED BY <1>1, <1>2, <1>3, <1>4, <1>5, <1>6, <1>7 DEF Next

LEMMA NewsStep == Typed /\ NewsOK /\ [Next]_vars => NewsOK'
<1> SUFFICES ASSUME Typed, NewsOK, [Next]_vars PROVE NewsOK'
    OBVIOUS
<1>1. CASE GraphCall /\ UNCHANGED handled
    BY <1>1, CallPublishes DEF NewsOK, Publishes
<1>2. CASE UNCHANGED <<events, handled>>
    BY <1>2 DEF NewsOK
<1>3. ASSUME NEW type, NextEvent(type) PROVE NewsOK'
    <2>1. Head(events) \in Notice /\ Tail(events) \in Seq(Notice)
        BY <1>3 DEF NewsOK, NextEvent
    <2> QED BY <1>3, <2>1 DEF NewsOK, NextEvent
<1>4. CASE Restart
    BY <1>4 DEF NewsOK, Restart
<1> QED BY <1>1, <1>2, <1>3, <1>4, GraphSteps DEF OnEvent, OnRequested, OnAccepted, OnRemoved, OnRemovedFails, vars

\* An event is taken from the queue.
LEMMA EventTaken ==
    ASSUME GraphOK, NewsOK, NEW type, NextEvent(type), UNCHANGED graph
    PROVE  /\ GraphOK' /\ HandledOK'
           /\ Head(events).to \in PIDs /\ Head(events).about \in PIDs
           /\ Both(Head(events).to, Head(events).about) \subseteq Pairs
<1>1. events \in Seq(Event) /\ events \in Seq(Notice) /\ events # <<>>
    BY DEF GraphOK, NewsOK, NextEvent
<1>2. Head(events) \in Event /\ Head(events) \in Notice /\ Tail(events) \in Seq(Event)
    BY <1>1
<1>3. handled' = <<Head(events)>> /\ events' = Tail(events)
    BY DEF NextEvent
<1>4. HandledOK'
    BY <1>2, <1>3 DEF HandledOK
<1>5. GraphOK'
    BY <1>2, <1>3 DEF GraphOK, graph
<1> QED BY <1>2, <1>4, <1>5 DEF Notice, Event, Both, Pairs

\* coreevents.handle.
LEMMA EventTyped ==
    ASSUME Typed, NewsOK, OnEvent \/ OnRemovedFails
    PROVE  Typed'
<1>1. GraphOK /\ TableOK /\ CallsOK /\ HandledOK /\ BoundsOK /\ HistoryOK
    BY DEF Typed
<1> DEFINE e == Head(events)
<1>2. /\ GraphOK' /\ HandledOK' /\ e.to \in PIDs /\ e.about \in PIDs
      /\ Both(e.to, e.about) \subseteq Pairs /\ <<e.to, e.about>> \in Pairs
    BY <1>1, EventTaken DEF OnEvent, OnRequested, OnAccepted, OnRemoved, OnRemovedFails, Both
<1>3. CASE OnRequested
    <2>1. CASE BeginList(Loop, e.to, FALSE, CoreSays(e.to, FALSE))
        BY <1>1, <1>2, <1>3, <2>1, ListBegins, SameTable
           DEF OnRequested, Typed, HistoryOK, BoundsOK, bounds, Callers
    <2>2. CASE UNCHANGED <<call, touched>>
        BY <1>1, <1>2, <1>3, <2>2, SameTable DEF OnRequested, Typed, HistoryOK, BoundsOK, bounds, CallsOK
    <2> QED BY <1>3, <2>1, <2>2 DEF OnRequested
<1>4. CASE OnAccepted
    <2>1. \A r \in Rows : r \in Of(e.to, e.about) => RowOK([rows[r] EXCEPT !.accepted = TRUE])
        BY <1>1, RowAt DEF Of, RowOK, Row
    <2>2. TableOK'
        BY <1>1, <1>4, <2>1 DEF OnAccepted, TableOK, RowOK
    <2>3. HistoryOK'
        BY <1>1, <1>2, <1>4, Closed DEF OnAccepted, HistoryOK
    <2> QED BY <1>1, <1>2, <1>4, <2>2, <2>3 DEF OnAccepted, Typed, BoundsOK, bounds, CallsOK
<1>5. CASE OnRemoved
    <2>1. TableOK'
        BY <1>1, <1>5 DEF OnRemoved, TableOK
    <2>2. HistoryOK'
        BY <1>1, <1>2, <1>5, Closed DEF OnRemoved, HistoryOK
    <2> QED BY <1>1, <1>2, <1>5, <2>1, <2>2 DEF OnRemoved, Typed, BoundsOK, bounds, CallsOK
<1>6. CASE OnRemovedFails
    BY <1>1, <1>2, <1>6, SameTable, BoundAssumption DEF OnRemovedFails, Typed, HistoryOK, BoundsOK, CallsOK
<1> QED BY <1>3, <1>4, <1>5, <1>6 DEF OnEvent

LEMMA RestartTyped ==
    ASSUME Typed, NewsOK, Restart
    PROVE  Typed'
<1>1. GraphOK /\ TableOK /\ CallsOK /\ HandledOK /\ BoundsOK /\ HistoryOK
    BY DEF Typed
<1>2. CallsOK' /\ HistoryOK' /\ BoundsOK'
    BY <1>1, BoundAssumption DEF Restart, CallsOK, HistoryOK, BoundsOK
<1>3. handled \o events \in Seq(Event)
    BY <1>1 DEF HandledOK, GraphOK
<1>4. GraphOK' /\ HandledOK'
    BY <1>1, <1>3 DEF Restart, GraphOK, HandledOK, graph
<1> QED BY <1>1, <1>2, <1>4, SameTable DEF Restart, Typed

LEMMA RestTyped ==
    ASSUME Typed, ElsewhereStep \/ \E r \in Rows : Delete(r) \/ Expire(r)
    PROVE  Typed'
<1>1. GraphOK /\ TableOK /\ CallsOK /\ HandledOK /\ BoundsOK /\ HistoryOK
    BY DEF Typed
<1>2. CASE ElsewhereStep
    <2>1. GraphOK' /\ HistoryOK' /\ BoundsOK'
        BY <1>1, <1>2, ElsewhereOK, BoundAssumption DEF ElsewhereStep, HistoryOK, BoundsOK
    <2> QED BY <1>1, <1>2, <2>1, SameTable DEF ElsewhereStep, Typed, CallsOK, HandledOK
<1>3. ASSUME NEW r \in Rows, Delete(r) PROVE Typed'
    <2>1. TableOK' /\ HistoryOK'
        BY <1>1, <1>3, DeniedOK DEF Delete, TableOK, HistoryOK
    <2> QED BY <1>1, <1>3, <2>1, SameGraph, SameRest DEF Delete, Typed, CallsOK
<1>4. ASSUME NEW r \in Rows, Expire(r) PROVE Typed'
    <2>1. RowOK([rows[r] EXCEPT !.expired = TRUE])
        BY <1>1, <1>4, RowAt DEF Expire, RowOK, Row
    <2>2. rows' = [rows EXCEPT ![r] = [rows[r] EXCEPT !.expired = TRUE]]
        BY <1>4 DEF Expire
    <2>3. TableOK'
        BY <1>1, <1>4, <2>1, <2>2, RowWritten DEF Expire, TableOK
    <2> QED BY <1>1, <1>4, <2>3, SameGraph, SameRest, SameHistory DEF Expire, Typed, CallsOK
<1> QED BY <1>2, <1>3, <1>4

LEMMA NextTyped == Typed /\ NewsOK /\ [Next]_vars => Typed'
<1> SUFFICES ASSUME Typed, NewsOK, [Next]_vars PROVE Typed'
    OBVIOUS
<1>1. CASE UNCHANGED vars
    BY <1>1, SameGraph, SameTable, SameHistory, SameRest DEF vars, Typed, CallsOK
<1>2. ASSUME NEW s \in Callers, Go(s) PROVE Typed'
    BY <1>2, SavingTyped, AnsweringTyped, BlockingTyped, ListingTyped DEF Go
<1> QED BY <1>1, <1>2, ConsoleTyped, ListingTyped, EventTyped, RestartTyped, RestTyped DEF Next

\* Rows, calls and histories keep their shape, and the graph its own, whatever
\* calls of consoles, events and other clients interleave: no request, block or
\* event is ever of somebody with themselves.
THEOREM TypeCorrect == Spec => []TypeOK
<1>1. Init => NewsOK
    BY DEF Init, GraphInit, NewsOK
<1> QED BY <1>1, InitTyped, NextTyped, NewsStep, TypedIsTypeOK, PTL DEF Spec

-----------------------------------------------------------------------------
\* The event loop only lists.
LoopLists == call[Loop] # Idle => call[Loop].at = "materialize"

\* As long as nothing fails and nobody else works on the core: a pair that is not
\* crossed has at most one call between its two writes, which is on its way to
\* what the core has, and without one the two agree.
Alone == fails = 0 /\ restarts = 0 /\ elsewhere = 0
PairSettles(p) ==
    /\ \A s, t \in Slots : Unwritten(s, p) /\ Unwritten(t, p) => s = t
    /\ \A s \in Slots : Unwritten(s, p) => At(s, IF p \in blocks THEN "blacklist" ELSE "unlist")
    /\ (p \in blacklist) # (p \in blocks) => \E s \in Slots : Unwritten(s, p)
BlocksSettle == Alone => \A p \in Pairs \ crossed : PairSettles(p)

Writes(c) == c # Idle /\ c.at \in {"blacklist", "unlist"}
SameWrites ==
    /\ UNCHANGED <<blocks, blacklist, crossed>>
    /\ \A s \in Slots : call'[s] = call[s] \/ (~Writes(call[s]) /\ ~Writes(call'[s]))

LEMMA LoopStep == Typed /\ LoopLists /\ [Next]_vars => LoopLists'
<1> SUFFICES ASSUME Typed, LoopLists, [Next]_vars PROVE LoopLists'
    OBVIOUS
<1>1. Loop \in Callers /\ call \in [Callers -> {c \in Call : CallOK(c)} \cup {Idle}]
    BY DEF Callers, Typed, CallsOK
<1>2. CASE call'[Loop] = call[Loop] \/ call'[Loop] = Idle
    BY <1>2 DEF LoopLists
<1>3. ASSUME NEW s \in Slots, Console(s) PROVE call'[Loop] = call[Loop]
    BY <1>1, <1>3, SlotAssumption
       DEF Console, Save, AddBlackList, RemoveBlackList, Accept, Deny, Cancel, List, ListUnanswered, Begin, BeginList
<1>4. ASSUME NEW s \in Callers, Go(s) \/ CallFails(s) \/ EnsureProfilesFails(s) PROVE LoopLists'
    <2>1. CASE s # Loop
        BY <1>1, <1>2, <1>4, <2>1
           DEF Go, CallFails, EnsureProfilesFails, SaveAsk, SaveComplete, SaveSelect, SaveReset, SaveInsert, AcceptAccept,
               AcceptMark, SetBlocked, SetBlacklisted, UnsetBlocked, UnsetBlacklisted, CancelRemove, CancelDelete,
               Materialize, ShowList, Goto, Return
    <2>2. CASE s = Loop
        <3>1. (\E q \in PIDs : Materialize(s, q)) \/ ShowList(s) \/ CallFails(s) \/ EnsureProfilesFails(s)
            BY <1>4, <2>2 DEF LoopLists, Go, SaveAsk, SaveComplete, SaveSelect, SaveReset, SaveInsert, AcceptAccept,
               AcceptMark, SetBlocked, SetBlacklisted, UnsetBlocked, UnsetBlacklisted, CancelRemove, CancelDelete, At
        <3>2. CASE ShowList(s) \/ CallFails(s)
            BY <1>1, <1>2, <2>2, <3>2 DEF ShowList, CallFails, Return
        <3>3. ASSUME NEW todo, call[s] # Idle, call' = [call EXCEPT ![s].todo = todo] PROVE LoopLists'
            BY <1>1, <2>2, <3>3 DEF LoopLists, Call
        <3> QED BY <3>1, <3>2, <3>3 DEF Materialize, EnsureProfilesFails, At
    <2> QED BY <2>1, <2>2
<1>5. CASE OnEvent
    <2>1. ASSUME BeginList(Loop, Head(events).to, FALSE, CoreSays(Head(events).to, FALSE)) PROVE LoopLists'
        BY <1>1, <2>1 DEF BeginList, LoopLists
    <2> QED BY <1>2, <1>5, <2>1 DEF OnEvent, OnRequested, OnAccepted, OnRemoved
<1> QED BY <1>1, <1>2, <1>3, <1>4, <1>5 DEF Next, Delete, Expire, OnRemovedFails, Restart, ElsewhereStep, vars

\* What leaves the blocks and the calls between their two writes alone.
LEMMA OtherStepsKeepWrites ==
    ASSUME Typed, [Next]_vars, Alone'
    PROVE  \/ SameWrites
           \/ \E s \in Callers : SetBlocked(s) \/ SetBlacklisted(s) \/ UnsetBlocked(s) \/ UnsetBlacklisted(s)
<1>1. call \in [Callers -> {c \in Call : CallOK(c)} \cup {Idle}] /\ Slots \subseteq Callers
    BY DEF Callers, Typed, CallsOK
<1>2. ASSUME NEW s \in Slots, Console(s) PROVE SameWrites
    <2>1. UNCHANGED <<blocks, blacklist, crossed>> /\ call[s] = Idle
        BY <1>2 DEF Console, Save, AddBlackList, RemoveBlackList, Accept, Deny, Cancel, List, ListUnanswered, Begin,
           BeginList, graph, table, history
    <2>2. \A t \in Slots \ {s} : call'[t] = call[t]
        BY <1>1, <1>2 DEF Console, Save, AddBlackList, RemoveBlackList, Accept, Deny, Cancel, List, ListUnanswered, Begin,
           BeginList
    <2>3. call'[s].at \notin {"blacklist", "unlist"}
        BY <1>1, <1>2 DEF Console, Save, AddBlackList, RemoveBlackList, Accept, Deny, Cancel, List, ListUnanswered, Begin,
           BeginList
    <2> QED BY <2>1, <2>2, <2>3 DEF SameWrites, Writes
<1>3. ASSUME NEW s \in Callers,
             \/ SaveAsk(s) \/ SaveComplete(s) \/ SaveSelect(s) \/ SaveReset(s) \/ SaveInsert(s)
             \/ AcceptAccept(s) \/ AcceptMark(s) \/ CancelRemove(s) \/ CancelDelete(s)
      PROVE  SameWrites
    <2>1. UNCHANGED <<blocks, blacklist, crossed>>
        BY <1>3 DEF SaveAsk, SaveComplete, SaveSelect, SaveReset, SaveInsert, AcceptAccept, AcceptMark, CancelRemove,
           CancelDelete, Request, AcceptRequest, Remove, graph, table, history
    <2>2. call[s] # Idle /\ call[s].at \notin {"blacklist", "unlist"} /\ call[s] \in Call
        BY <1>1, <1>3 DEF SaveAsk, SaveComplete, SaveSelect, SaveReset, SaveInsert, AcceptAccept, AcceptMark, CancelRemove,
           CancelDelete, At
    <2>3. \/ Return(s) \/ Goto(s, "select") \/ Goto(s, "complete") \/ Goto(s, "insert") \/ Goto(s, "mark") \/ Goto(s, "delete")
          \/ \E r \in Rows : call' = [call EXCEPT ![s].at = "reset", ![s].row = r]
        BY <1>3 DEF SaveAsk, SaveComplete, SaveSelect, SaveReset, SaveInsert, AcceptAccept, AcceptMark, CancelRemove,
           CancelDelete, Of
    <2>4. \A t \in Slots \ {s} : call'[t] = call[t]
        BY <1>1, <2>3 DEF Return, Goto
    <2>5. call'[s] = Idle \/ call'[s].at \notin {"blacklist", "unlist"}
        BY <1>1, <2>2, <2>3 DEF Return, Goto, Call
    <2> QED BY <2>1, <2>2, <2>4, <2>5 DEF SameWrites, Writes
<1>4. ASSUME NEW s \in Callers, (\E q \in PIDs : Materialize(s, q)) \/ ShowList(s) PROVE SameWrites
    <2>1. UNCHANGED <<blocks, blacklist, crossed>> /\ At(s, "materialize")
        BY <1>4 DEF Materialize, ShowList, graph, table
    <2>2. call'[s] = Idle \/ call'[s].at = "materialize"
        BY <1>1, <1>4, <2>1 DEF Materialize, ShowList, Return, At, Call
    <2>3. \A t \in Slots \ {s} : call'[t] = call[t]
        BY <1>1, <1>4 DEF Materialize, ShowList, Return
    <2> QED BY <2>1, <2>2, <2>3 DEF SameWrites, Writes, At
<1>5. ASSUME NEW s \in Callers, CallFails(s) \/ EnsureProfilesFails(s) PROVE FALSE
    BY <1>5 DEF CallFails, EnsureProfilesFails, Alone, Typed, BoundsOK
<1>6. ~OnRemovedFails /\ ~Restart /\ ~ElsewhereStep
    BY DEF OnRemovedFails, Restart, ElsewhereStep, Alone, Typed, BoundsOK
<1>7. CASE OnEvent
    <2>1. UNCHANGED <<blocks, blacklist, crossed>>
        BY <1>7 DEF OnEvent, OnRequested, OnAccepted, OnRemoved, graph, table
    <2>2. \A t \in Slots : call'[t] = call[t]
        BY <1>1, <1>7, SlotAssumption DEF OnEvent, OnRequested, OnAccepted, OnRemoved, BeginList
    <2> QED BY <2>1, <2>2 DEF SameWrites
<1>8. ASSUME NEW r \in Rows, Delete(r) \/ Expire(r) PROVE SameWrites
    BY <1>8 DEF Delete, Expire, SameWrites, graph, history
<1>9. UNCHANGED vars => SameWrites
    BY DEF vars, SameWrites, graph, table, history
<1> QED BY <1>2, <1>3, <1>4, <1>5, <1>6, <1>7, <1>8, <1>9 DEF Next, Go

LEMMA SameWritesSettle ==
    ASSUME BlocksSettle, SameWrites, Alone, Alone'
    PROVE  BlocksSettle'
<1>1. \A s \in Slots, p \in Pairs : Unwritten(s, p)' <=> Unwritten(s, p)
    BY DEF SameWrites, Unwritten, Writes, At, From, To
<1>2. \A s \in Slots, p \in Pairs, step \in {"blacklist", "unlist"} :
        Unwritten(s, p) /\ At(s, step) => At(s, step)'
    BY DEF SameWrites, Unwritten, Writes, At, From, To
<1> SUFFICES ASSUME NEW p \in Pairs \ crossed' PROVE PairSettles(p)'
    BY DEF BlocksSettle
<1>3. PairSettles(p) /\ blocks' = blocks /\ blacklist' = blacklist
    BY DEF BlocksSettle, SameWrites
<1>4. \A s, t \in Slots : Unwritten(s, p)' /\ Unwritten(t, p)' => s = t
    BY <1>1, <1>3 DEF PairSettles
<1>5. ASSUME NEW s \in Slots, Unwritten(s, p)' PROVE At(s, IF p \in blocks THEN "blacklist" ELSE "unlist")'
    <2>1. Unwritten(s, p) /\ At(s, IF p \in blocks THEN "blacklist" ELSE "unlist")
        BY <1>1, <1>3, <1>5 DEF PairSettles
    <2> QED BY <1>2, <1>3, <2>1
<1>6. (p \in blacklist') # (p \in blocks') => \E s \in Slots : Unwritten(s, p)'
    BY <1>1, <1>3 DEF PairSettles
<1> QED BY <1>4, <1>5, <1>6 DEF PairSettles

\* The two writes of a call about one pair, while the calls in the other slots
\* stay where they are.
LEMMA WritesSettle ==
    ASSUME Typed, LoopLists, BlocksSettle, Alone, Alone', NEW s \in Callers,
           SetBlocked(s) \/ SetBlacklisted(s) \/ UnsetBlocked(s) \/ UnsetBlacklisted(s)
    PROVE  BlocksSettle'
<1> DEFINE q == <<From(s), To(s)>>
<1>1. /\ call \in [Callers -> {c \in Call : CallOK(c)} \cup {Idle}] /\ Slots \subseteq Callers
      /\ call[s] # Idle /\ call[s] \in Call
    BY DEF Callers, Typed, CallsOK, SetBlocked, SetBlacklisted, UnsetBlocked, UnsetBlacklisted, At
<1>2. s \in Slots
    BY DEF Callers, LoopLists, SetBlocked, SetBlacklisted, UnsetBlocked, UnsetBlacklisted, At
<1>3. \A t \in Slots \ {s} : call'[t] = call[t]
    BY <1>1 DEF SetBlocked, SetBlacklisted, UnsetBlocked, UnsetBlacklisted, Goto, Return
<1>4. \A t \in Slots \ {s}, p \in Pairs : /\ Unwritten(t, p)' <=> Unwritten(t, p)
                                        /\ \A step \in {"blacklist", "unlist"} : At(t, step)' <=> At(t, step)
    BY <1>3 DEF Unwritten, At, From, To
<1>5. CASE Return(s) /\ UNCHANGED <<blocks, blacklist, crossed>> /\ (At(s, "block") \/ At(s, "unblock"))
    <2>1. SameWrites
        BY <1>1, <1>3, <1>5 DEF SameWrites, Writes, Return, At
    <2> QED BY <2>1, SameWritesSettle
\* The write in the core ...
<1>6. ASSUME NEW step \in {"blacklist", "unlist"}, Goto(s, step), Crosses(s), UNCHANGED blacklist,
             At(s, "block") \/ At(s, "unblock"),
             blocks' = IF step = "blacklist" THEN blocks \cup {q} ELSE blocks \ {q}
      PROVE  BlocksSettle'
    <2>1. call'[s] = [call[s] EXCEPT !.at = step] /\ call'[s] # Idle
        BY <1>1, <1>6, CallAssumption DEF Goto, Call, Steps
    <2>2. \A p \in Pairs : (Unwritten(s, p)' <=> p = q) /\ ~Unwritten(s, p)
        BY <1>1, <1>6, <2>1 DEF Unwritten, At, From, To, Call
    <2>3. At(s, step)'
        BY <1>1, <2>1 DEF At, Call
    <2> SUFFICES ASSUME NEW p \in Pairs \ crossed' PROVE PairSettles(p)'
        BY DEF BlocksSettle
    <2>4. CASE p = q
        <3>1. \A t \in Slots \ {s} : ~Unwritten(t, p)
            BY <1>6, <2>4 DEF Crosses
        <3>2. p \in blocks' <=> step = "blacklist"
            BY <1>6, <2>4
        <3> QED BY <1>2, <1>4, <2>2, <2>3, <2>4, <3>1, <3>2 DEF PairSettles
    <2>5. CASE p # q
        <3>1. PairSettles(p) /\ (p \in blocks' <=> p \in blocks)
            BY <1>6, <2>5 DEF Crosses, BlocksSettle
        <3> QED BY <1>2, <1>4, <1>6, <2>2, <2>5, <3>1 DEF PairSettles
    <2> QED BY <2>4, <2>5
\* ... and the one here.
<1>7. ASSUME NEW step \in {"blacklist", "unlist"}, At(s, step), Return(s), UNCHANGED <<blocks, crossed>>,
             blacklist' = IF step = "blacklist" THEN blacklist \cup {q} ELSE blacklist \ {q}
      PROVE  BlocksSettle'
    <2>1. \A p \in Pairs : ~Unwritten(s, p)' /\ (Unwritten(s, p) <=> p = q)
        BY <1>1, <1>7 DEF Return, Unwritten, At
    <2> SUFFICES ASSUME NEW p \in Pairs \ crossed' PROVE PairSettles(p)'
        BY DEF BlocksSettle
    <2>2. PairSettles(p)
        BY <1>7 DEF BlocksSettle
    <2>3. CASE p = q
        <3>1. \A t \in Slots \ {s} : ~Unwritten(t, p)
            BY <1>2, <2>1, <2>2, <2>3 DEF PairSettles
        <3>2. p \in blocks <=> step = "blacklist"
            BY <1>2, <1>7, <2>1, <2>2, <2>3 DEF PairSettles, At
        <3> QED BY <1>2, <1>4, <1>7, <2>1, <2>3, <3>1, <3>2 DEF PairSettles
    <2>4. CASE p # q
        BY <1>2, <1>4, <1>7, <2>1, <2>2, <2>4 DEF PairSettles
    <2> QED BY <2>3, <2>4
<1>8. CASE SetBlocked(s)
    BY <1>5, <1>6, <1>8 DEF SetBlocked, Block, graph, table
<1>9. CASE UnsetBlocked(s)
    BY <1>5, <1>6, <1>9 DEF UnsetBlocked, Unblock, graph, table
<1>10. CASE SetBlacklisted(s)
    BY <1>7, <1>10 DEF SetBlacklisted, graph, history
<1>11. CASE UnsetBlacklisted(s)
    BY <1>7, <1>11 DEF UnsetBlacklisted, graph, history
<1> QED BY <1>8, <1>9, <1>10, <1>11

LEMMA AloneBefore == Typed /\ [Next]_vars /\ Alone' => Alone
<1> SUFFICES ASSUME Typed, [Next]_vars, Alone' PROVE Alone
    OBVIOUS
<1>1. fails \in Nat /\ restarts \in Nat /\ elsewhere \in Nat
    BY BoundAssumption DEF Typed, BoundsOK
<1>2. CASE UNCHANGED bounds
    BY <1>2 DEF Alone, bounds
<1>3. ASSUME NEW s \in Slots, Console(s) PROVE UNCHANGED bounds \/ fails' = fails + 1
    BY <1>3 DEF Console, Save, AddBlackList, RemoveBlackList, Accept, Deny, Cancel, List, ListUnanswered, bounds
<1>4. ASSUME NEW s \in Callers, Go(s) PROVE UNCHANGED bounds
    BY <1>4 DEF Go, SaveAsk, SaveComplete, SaveSelect, SaveReset, SaveInsert, AcceptAccept, AcceptMark, SetBlocked,
       SetBlacklisted, UnsetBlocked, UnsetBlacklisted, CancelRemove, CancelDelete, Materialize, ShowList
<1>5. ASSUME NEW s \in Callers, CallFails(s) \/ EnsureProfilesFails(s) PROVE fails' = fails + 1
    BY <1>5 DEF CallFails, EnsureProfilesFails
<1>6. OnEvent => UNCHANGED bounds
    BY DEF OnEvent, OnRequested, OnAccepted, OnRemoved
<1>7. OnRemovedFails \/ Restart \/ ElsewhereStep =>
          fails' = fails + 1 \/ restarts' = restarts + 1 \/ elsewhere' = elsewhere + 1
    BY DEF OnRemovedFails, Restart, ElsewhereStep
<1>8. ASSUME NEW r \in Rows, Delete(r) \/ Expire(r) PROVE UNCHANGED bounds
    BY <1>8 DEF Delete, Expire
<1>9. UNCHANGED vars => UNCHANGED bounds
    BY DEF vars
<1>10. UNCHANGED bounds \/ fails' = fails + 1 \/ restarts' = restarts + 1 \/ elsewhere' = elsewhere + 1
    BY <1>3, <1>4, <1>5, <1>6, <1>7, <1>8, <1>9 DEF Next
<1> QED BY <1>1, <1>2, <1>10 DEF Alone

LEMMA BlocksStep == Typed /\ LoopLists /\ BlocksSettle /\ [Next]_vars => BlocksSettle'
<1> SUFFICES ASSUME Typed, LoopLists, BlocksSettle, [Next]_vars PROVE BlocksSettle'
    OBVIOUS
<1>1. CASE Alone'
    BY <1>1, AloneBefore, OtherStepsKeepWrites, SameWritesSettle, WritesSettle
<1> QED BY <1>1 DEF BlocksSettle

\* set_user_blocked.go and unset_user_blocked.go write the core and then the row,
\* without a transaction: for any number of calls at a time, block lists and the
\* core's blocks differ only while one of two writes is due, or after calls about
\* one pair have crossed.
THEOREM BlockListsMatch == Spec => []BlockListMatches
<1>1. Init => LoopLists /\ BlocksSettle /\ NewsOK
    BY DEF Init, GraphInit, LoopLists, BlocksSettle, PairSettles, Unwritten, At, Callers, NewsOK
<1>2. BlocksSettle => BlockListMatches
    BY DEF BlocksSettle, BlockListMatches, PairSettles, Unwritten, Alone
<1> QED BY <1>1, <1>2, InitTyped, NextTyped, NewsStep, LoopStep, BlocksStep, PTL DEF Spec

-----------------------------------------------------------------------------
\* The pairs for which a call is about to leave an open row.
PairOf(r) == <<rows[r].from, rows[r].to>>
Wants(c) ==
    IF c = Idle THEN {}
    ELSE IF c.at \in {"select", "insert", "reset"} THEN {<<c.from, c.to>>}
    ELSE IF c.at = "materialize" THEN {IF c.out THEN <<c.from, q>> ELSE <<q, c.from>> : q \in c.todo}
    ELSE {}

\* The row that a call answers to, if it is still there, is of the call's two people.
Answers(c) == c # Idle /\ c.at \in ByRow
RowsAreTheirs ==
    \A s \in Callers : Answers(call[s]) =>
        \A r \in Rows : r = call[s].row /\ Exists(r) => PairOf(r) = <<From(s), To(s)>>

\* What a step makes of a row: it is still of the same two, and open only if it
\* was or a call resets it; or it is new, with an id no call knows.
RowKept(r) == Exists(r) /\ PairOf(r)' = PairOf(r) /\ (Open(r)' => Open(r))
RowReset(r) ==
    /\ Exists(r) /\ PairOf(r)' = PairOf(r)
    /\ \E s \in Callers : call[s] # Idle /\ call[s].at = "reset" /\ call[s].row = r
RowNew(r) == r \in FreshIds /\ \E s \in Callers : PairOf(r)' \in Wants(call[s])
RowSteps == \A r \in Rows : Exists(r)' => RowKept(r) \/ RowReset(r) \/ RowNew(r)

LEMMA InsertSteps ==
    ASSUME TableOK, NEW a, NEW b, NEW denied, NEW s \in Callers, <<a, b>> \in Wants(call[s]),
           InsertRow(a, b, denied) \/ NoRowsLeft
    PROVE  RowSteps
<1>1. CASE NoRowsLeft
    BY <1>1 DEF NoRowsLeft, RowSteps, RowKept, Exists, Open, PairOf
<1>2. ASSUME NEW r \in FreshIds, rows' = [rows EXCEPT ![r] = NewRow(a, b, denied)] PROVE RowSteps
    <2>1. rows'[r] = NewRow(a, b, denied) /\ \A q \in Rows \ {r} : rows'[q] = rows[q]
        BY <1>2 DEF TableOK, FreshIds
    <2>2. PairOf(r)' = <<a, b>>
        BY <2>1 DEF PairOf, NewRow
    <2>3. RowNew(r)
        BY <2>2 DEF RowNew
    <2>4. \A q \in Rows \ {r} : Exists(q)' => RowKept(q)
        BY <2>1 DEF RowKept, Exists, Open, PairOf
    <2> QED BY <2>3, <2>4 DEF RowSteps
<1> QED BY <1>1, <1>2 DEF InsertRow

\* A row that a step writes over with the same two people, and not open.
LEMMA CloseSteps ==
    ASSUME TableOK,
           \A r \in Rows : \/ rows'[r] \in {rows[r], NoRow}
                           \/ Exists(r) /\ rows'[r] \in {[rows[r] EXCEPT !.accepted = TRUE], [rows[r] EXCEPT !.denied = TRUE],
                                                         [rows[r] EXCEPT !.expired = TRUE]}
    PROVE  RowSteps
<1> SUFFICES ASSUME NEW r \in Rows, Exists(r)' PROVE RowKept(r)
    BY DEF RowSteps
<1>1. CASE rows'[r] = rows[r]
    BY <1>1 DEF RowKept, Exists, Open, PairOf
<1>2. CASE Exists(r) /\ rows'[r] \in {[rows[r] EXCEPT !.accepted = TRUE], [rows[r] EXCEPT !.denied = TRUE],
                                      [rows[r] EXCEPT !.expired = TRUE]}
    <2>1. rows[r] \in Row
        BY <1>2 DEF Exists, TableOK
    <2> QED BY <1>2, <2>1 DEF RowKept, Exists, Open, PairOf, Row
<1> QED BY <1>1, <1>2 DEF Exists

LEMMA NextRowSteps == Typed /\ [Next]_vars => RowSteps
<1> SUFFICES ASSUME Typed, [Next]_vars PROVE RowSteps
    OBVIOUS
<1>1. TableOK /\ CallsOK
    BY DEF Typed
<1>2. CASE UNCHANGED rows
    BY <1>1, <1>2, CloseSteps
<1>3. ASSUME NEW r \in Rows, Exists(r), Denied(r) PROVE RowSteps
    <2>1. \A q \in Rows : rows'[q] = IF q = r THEN [rows[r] EXCEPT !.denied = TRUE] ELSE rows[q]
        BY <1>1, <1>3 DEF Denied, TableOK
    <2> QED BY <1>1, <1>3, <2>1, CloseSteps
<1>4. ASSUME NEW s \in Slots, Console(s) PROVE RowSteps
    BY <1>2, <1>3, <1>4 DEF Console, Save, AddBlackList, RemoveBlackList, Accept, Deny, Cancel, List, ListUnanswered, table
<1>5. ASSUME NEW s \in Callers, SaveReset(s) PROVE RowSteps
    <2>1. PICK r \in Rows : r = call[s].row /\ call[s] # Idle /\ call[s].at = "reset"
        BY <1>1, <1>5, CallAt DEF SaveReset, At, CallOK, ByRow
    <2>2. \A q \in Rows \ {r} : rows'[q] = rows[q]
        BY <1>1, <1>5, <2>1 DEF SaveReset, TableOK
    <2>3. ASSUME Exists(r) PROVE RowReset(r)
        <3>1. rows'[r] = [rows[r] EXCEPT !.accepted = FALSE, !.denied = FALSE, !.expired = FALSE] /\ rows[r] \in Row
            BY <1>1, <1>5, <2>1, <2>3 DEF SaveReset, TableOK, Exists
        <3>2. PairOf(r)' = PairOf(r)
            BY <3>1 DEF PairOf, Row
        <3> QED BY <2>1, <2>3, <3>2 DEF RowReset
    <2>4. ~Exists(r) => ~Exists(r)'
        BY <1>5, <2>1 DEF SaveReset, Exists
    <2>5. \A q \in Rows \ {r} : Exists(q)' => RowKept(q)
        BY <2>2 DEF RowKept, Exists, Open, PairOf
    <2> QED BY <2>3, <2>4, <2>5 DEF RowSteps, Exists
<1>6. ASSUME NEW s \in Callers, SaveInsert(s) PROVE RowSteps
    <2>1. <<From(s), To(s)>> \in Wants(call[s])
        BY <1>6 DEF SaveInsert, At, Wants, From, To
    <2> QED BY <1>1, <1>6, <2>1, InsertSteps DEF SaveInsert
<1>7. ASSUME NEW s \in Callers, NEW q \in PIDs, Materialize(s, q) PROVE RowSteps
    <2> DEFINE p == Pair(s, q)
    <2>1. p = <<p[1], p[2]>> /\ p \in Wants(call[s])
        BY <1>7 DEF Materialize, At, Wants, From, Pair
    <2> QED BY <1>1, <1>2, <1>7, <2>1, InsertSteps DEF Materialize
<1>8. ASSUME NEW s \in Callers, AcceptMark(s) \/ CancelDelete(s) PROVE RowSteps
    <2> DEFINE r == call[s].row
    <2>1. \A q \in Rows : \/ rows'[q] = rows[q]
                          \/ q = r /\ CancelDelete(s) /\ rows'[q] = NoRow
                          \/ q = r /\ Exists(r) /\ rows'[q] = [rows[r] EXCEPT !.accepted = TRUE]
        BY <1>1, <1>8 DEF AcceptMark, CancelDelete, TableOK
    <2> QED BY <1>1, <2>1, CloseSteps
<1>9. ASSUME NEW s \in Callers, Go(s) PROVE RowSteps
    BY <1>2, <1>5, <1>6, <1>7, <1>8, <1>9
       DEF Go, SaveAsk, SaveComplete, SaveSelect, AcceptAccept, SetBlocked, SetBlacklisted, UnsetBlocked,
           UnsetBlacklisted, CancelRemove, ShowList, table
<1>10. CASE OnEvent
    <2>1. CASE OnAccepted
        BY <1>1, <1>2, <2>1, CloseSteps DEF OnAccepted, Of
    <2>2. CASE OnRemoved
        BY <1>1, <2>2, CloseSteps DEF OnRemoved
    <2> QED BY <1>2, <1>10, <2>1, <2>2 DEF OnEvent, OnRequested, table
<1>11. ASSUME NEW r \in Rows, Delete(r) \/ Expire(r) PROVE RowSteps
    <2>1. ASSUME Expire(r) PROVE RowSteps
        <3>1. \A q \in Rows : rows'[q] = IF q = r THEN [rows[r] EXCEPT !.expired = TRUE] ELSE rows[q]
            BY <1>1, <2>1 DEF Expire, TableOK
        <3> QED BY <1>1, <2>1, <3>1, CloseSteps DEF Expire
    <2> QED BY <1>3, <1>11, <2>1 DEF Delete
<1> QED BY <1>2, <1>4, <1>9, <1>10, <1>11
        DEF Next, CallFails, EnsureProfilesFails, OnRemovedFails, Restart, ElsewhereStep, table, vars

\* A call answers to the row it did, or takes one that is there, with its people.
AnswerKept(s) ==
    Answers(call[s]) /\ call'[s].row = call[s].row /\ call'[s].from = From(s) /\ call'[s].to = To(s)
AnswerTaken(s) ==
    \E r \in Rows : Exists(r) /\ call'[s].row = r /\ PairOf(r) = <<call'[s].from, call'[s].to>>
AnswerSteps == \A s \in Callers : Answers(call'[s]) => AnswerKept(s) \/ AnswerTaken(s)

LEMMA NextAnswerSteps == Typed /\ [Next]_vars => AnswerSteps
<1> SUFFICES ASSUME Typed, [Next]_vars PROVE AnswerSteps
    OBVIOUS
<1>1. call \in [Callers -> {c \in Call : CallOK(c)} \cup {Idle}] /\ Slots \subseteq Callers /\ CallsOK /\ TableOK
    BY DEF Callers, Typed, CallsOK
<1>2. \A s \in Callers : Answers(call'[s]) /\ call'[s] = call[s] => AnswerKept(s)
    BY DEF AnswerKept, From, To
<1>3. CASE \A s \in Callers : call'[s] = call[s] \/ ~Answers(call'[s])
    BY <1>2, <1>3 DEF AnswerSteps
<1>4. ASSUME NEW s \in Callers, \A t \in Callers \ {s} : call'[t] = call[t],
             Answers(call'[s]) => AnswerKept(s) \/ AnswerTaken(s)
      PROVE  AnswerSteps
    BY <1>2, <1>4 DEF AnswerSteps
<1>5. ASSUME NEW s \in Callers, Return(s) PROVE AnswerSteps
    BY <1>1, <1>3, <1>5 DEF Return, Answers
<1>6. ASSUME NEW s \in Callers, NEW step, call[s] # Idle, call[s].at \in ByRow \/ step \notin ByRow, Goto(s, step)
      PROVE  AnswerSteps
    <2>1. call'[s] = [call[s] EXCEPT !.at = step] /\ call[s] \in Call
        BY <1>1, <1>6 DEF Goto
    <2>2. \A t \in Callers \ {s} : call'[t] = call[t]
        BY <1>1, <1>6 DEF Goto
    <2>3. Answers(call'[s]) => AnswerKept(s)
        BY <1>6, <2>1 DEF Answers, AnswerKept, From, To, Call
    <2> QED BY <1>4, <2>2, <2>3
<1>7. ASSUME NEW s \in Callers, NEW step, NEW a, NEW b, NEW r, Begin(s, step, a, b, r),
             step \notin ByRow \/ (r \in Rows /\ Exists(r) /\ PairOf(r) = <<a, b>>)
      PROVE  AnswerSteps
    <2>1. \A t \in Callers \ {s} : call'[t] = call[t]
        BY <1>1, <1>7 DEF Begin
    <2>2. call'[s].at = step /\ call'[s].row = r /\ call'[s].from = a /\ call'[s].to = b
        BY <1>1, <1>7 DEF Begin
    <2>3. Answers(call'[s]) => AnswerTaken(s)
        BY <1>7, <2>2 DEF Answers, AnswerTaken
    <2> QED BY <1>4, <2>1, <2>3
<1>8. ASSUME NEW s \in Callers, NEW p, NEW out, NEW live, BeginList(s, p, out, live) PROVE AnswerSteps
    BY <1>1, <1>3, <1>8 DEF BeginList, Answers, ByRow
<1>9. ASSUME NEW s \in Callers, NEW todo, At(s, "materialize"), call' = [call EXCEPT ![s].todo = todo] PROVE AnswerSteps
    BY <1>1, <1>3, <1>9 DEF At, Answers, ByRow, Call
<1>10. ASSUME NEW s \in Slots, Console(s) PROVE AnswerSteps
    <2>1. ASSUME NEW p \in Pairs, Save(s, p[1], p[2]) PROVE AnswerSteps
        BY <1>1, <1>3, <2>1 DEF Save, Answers, ByRow
    <2>2. ASSUME NEW p \in Pairs, AddBlackList(s, p[1], p[2]) \/ RemoveBlackList(s, p[1], p[2]) PROVE AnswerSteps
        BY <1>1, <1>7, <2>2 DEF AddBlackList, RemoveBlackList, ByRow
    <2>3. ASSUME NEW r \in Rows, Accept(s, r) \/ Deny(s, r) \/ Cancel(s, r) PROVE AnswerSteps
        <3>1. Exists(r) /\ PairOf(r) = <<rows[r].from, rows[r].to>>
            BY <2>3 DEF Accept, Deny, Cancel, PairOf
        <3> QED BY <1>1, <1>7, <2>3, <3>1 DEF Accept, Deny, Cancel, ByRow
    <2> QED BY <1>1, <1>8, <1>10, <2>1, <2>2, <2>3 DEF Console, List, ListUnanswered
<1>11. ASSUME NEW s \in Callers, SaveSelect(s) PROVE AnswerSteps
    <2>1. ASSUME NEW r \in Of(From(s), To(s)), call' = [call EXCEPT ![s].at = "reset", ![s].row = r], call[s] \in Call
          PROVE AnswerSteps
        <3>1. Exists(r) /\ r \in Rows /\ PairOf(r) = <<From(s), To(s)>>
            BY DEF Of, PairOf
        <3>2. call'[s] = [call[s] EXCEPT !.at = "reset", !.row = r]
            BY <1>1, <2>1
        <3>3. \A t \in Callers \ {s} : call'[t] = call[t]
            BY <1>1, <2>1
        <3>4. call'[s].row = r /\ call'[s].from = From(s) /\ call'[s].to = To(s)
            BY <2>1, <3>2 DEF From, To, Call
        <3>5. AnswerTaken(s)
            BY <3>1, <3>4 DEF AnswerTaken
        <3> QED BY <1>4, <3>3, <3>5
    <2>2. call[s] # Idle /\ call[s] \in Call
        BY <1>1, <1>11 DEF SaveSelect, At
    <2> QED BY <1>5, <1>6, <1>11, <2>1, <2>2 DEF SaveSelect, ByRow
<1>12. ASSUME NEW s \in Callers, Go(s) PROVE AnswerSteps
    BY <1>3, <1>5, <1>6, <1>9, <1>11, <1>12
       DEF Go, SaveAsk, SaveComplete, SaveReset, SaveInsert, AcceptAccept, AcceptMark, SetBlocked, SetBlacklisted,
           UnsetBlocked, UnsetBlacklisted, CancelRemove, CancelDelete, Materialize, ShowList, At, ByRow
<1>13. CASE OnEvent
    <2>1. Loop \in Callers
        BY DEF Callers
    <2> QED BY <1>3, <1>8, <1>13, <2>1 DEF OnEvent, OnRequested, OnAccepted, OnRemoved
<1>14. CASE Restart
    BY <1>3, <1>14 DEF Restart, Answers
<1>15. ASSUME NEW s \in Callers, CallFails(s) \/ EnsureProfilesFails(s) PROVE AnswerSteps
    BY <1>5, <1>9, <1>15 DEF CallFails, EnsureProfilesFails
<1> QED BY <1>3, <1>10, <1>12, <1>13, <1>14, <1>15 DEF Next, Delete, Expire, OnRemovedFails, ElsewhereStep, vars

LEMMA TheirsStep == Typed /\ RowsAreTheirs /\ [Next]_vars => RowsAreTheirs'
<1> SUFFICES ASSUME Typed, RowsAreTheirs, [Next]_vars,
                    NEW s \in Callers, Answers(call[s])', NEW r \in Rows, r = call'[s].row, Exists(r)'
             PROVE  PairOf(r)' = <<call'[s].from, call'[s].to>>
    BY DEF RowsAreTheirs, From, To
<1>1. RowKept(r) \/ RowReset(r) \/ RowNew(r)
    BY NextRowSteps DEF RowSteps
<1>2. AnswerKept(s) \/ AnswerTaken(s)
    BY NextAnswerSteps DEF AnswerSteps, Answers
<1>3. CASE Exists(r) /\ PairOf(r)' = PairOf(r)
    <2>1. CASE AnswerKept(s)
        <3>1. PairOf(r) = <<From(s), To(s)>> /\ From(s) = call'[s].from /\ To(s) = call'[s].to
            BY <1>3, <2>1 DEF AnswerKept, RowsAreTheirs
        <3> QED BY <1>3, <3>1
    <2>2. CASE AnswerTaken(s)
        BY <1>3, <2>2 DEF AnswerTaken
    <2> QED BY <1>2, <2>1, <2>2
<1>4. ~RowNew(r)
    BY <1>2 DEF RowNew, FreshIds, AnswerKept, AnswerTaken, Answers
<1> QED BY <1>1, <1>3, <1>4 DEF RowKept, RowReset

-----------------------------------------------------------------------------
\* A pair for which there is an open row, or about to be one; and why there may
\* be: the core has the two related, or a word of its that they no longer are is
\* still to come, or nobody could have cleared up after them.
Held(p) == (\E r \in Rows : Open(r) /\ PairOf(r) = p) \/ (\E s \in Callers : p \in Wants(call[s]))
Told(p) == \E i \in DOMAIN events : Removal(events[i], p[1], p[2])
Linked(p) == Related(p[1], p[2]) \/ p \in strays \/ ~Resolved(p[1], p[2]) \/ Told(p)
HeldAreLinked == \A p \in Pairs : Held(p) => Linked(p)

\* Calls want only what the core has just told them of, or been told.
Sourced(p) == (pending' \cup friends') \cap Both(p[1], p[2]) # {} \/ ~Resolved(p[1], p[2])
WantSteps == \A s \in Callers : \A p \in Wants(call'[s]) : p \in Wants(call[s]) \/ Sourced(p)

LEMMA ListedAreSourced ==
    ASSUME NEW s, NEW p, NEW out \in BOOLEAN, NEW live \in {{}, CoreSays(p, out)}, UNCHANGED graph,
           call'[s] = [at |-> "materialize", from |-> p, to |-> p, row |-> NoRow,
                       blocked |-> FALSE, out |-> out, live |-> live, todo |-> live],
           NEW x \in Wants(call'[s]), call'[s] # Idle
    PROVE  Sourced(x)
<1>1. \A q \in live : (IF out THEN <<p, q>> ELSE <<q, p>>) \in pending'
    BY DEF CoreSays, OutgoingAddresseePIDs, IncomingRequesterPIDs, graph
<1>2. PICK q \in live : x = IF out THEN <<p, q>> ELSE <<q, p>>
    BY DEF Wants
<1>3. x \in pending' /\ x = <<x[1], x[2]>>
    BY <1>1, <1>2
<1> QED BY <1>3 DEF Sourced, Related, Both

LEMMA NextWantSteps == Typed /\ [Next]_vars => WantSteps
<1> SUFFICES ASSUME Typed, [Next]_vars PROVE WantSteps
    OBVIOUS
<1>1. call \in [Callers -> {c \in Call : CallOK(c)} \cup {Idle}] /\ Slots \subseteq Callers /\ CallsOK /\ GraphOK
    BY DEF Callers, Typed, CallsOK
<1>2. CASE \A s \in Callers : call'[s] = call[s] \/ Wants(call'[s]) = {}
    BY <1>2 DEF WantSteps
<1>3. ASSUME NEW s \in Callers, \A t \in Callers \ {s} : call'[t] = call[t],
             \A p \in Wants(call'[s]) : p \in Wants(call[s]) \/ Sourced(p)
      PROVE  WantSteps
    BY <1>3 DEF WantSteps
<1>4. ASSUME NEW s \in Callers, Return(s) PROVE WantSteps
    BY <1>1, <1>2, <1>4 DEF Return, Wants
<1>5. ASSUME NEW s \in Callers, NEW step \in Steps, call[s] # Idle, Goto(s, step),
             \/ step \notin {"select", "insert", "reset", "materialize"}
             \/ step # "materialize" /\ call[s].at = "select"
             \/ step # "materialize" /\ Sourced(<<From(s), To(s)>>)
      PROVE  WantSteps
    <2>1. call'[s] = [call[s] EXCEPT !.at = step] /\ call[s] \in Call
        BY <1>1, <1>5 DEF Goto
    <2>2. \A t \in Callers \ {s} : call'[t] = call[t]
        BY <1>1, <1>5 DEF Goto
    <2>3. call'[s] \in Call /\ call'[s] # Idle /\ call'[s].at = step
          /\ call'[s].from = From(s) /\ call'[s].to = To(s)
        BY <2>1, CallAssumption DEF Call, From, To
    <2>4. \A p \in Wants(call'[s]) : p = <<From(s), To(s)>> /\ step \in {"select", "insert", "reset"}
        BY <1>5, <2>3 DEF Wants
    <2>5. call[s].at = "select" => <<From(s), To(s)>> \in Wants(call[s])
        BY <1>5 DEF Wants, From, To
    <2> QED BY <1>3, <1>5, <2>2, <2>4, <2>5
<1>6. ASSUME NEW s \in Callers, NEW step \in Steps \ {"select", "insert", "reset", "materialize"},
             NEW a, NEW b, NEW r, Begin(s, step, a, b, r)
      PROVE  WantSteps
    <2>1. call'[s].at = step /\ \A t \in Callers \ {s} : call'[t] = call[t]
        BY <1>1, <1>6 DEF Begin
    <2>2. Wants(call'[s]) = {}
        BY <2>1 DEF Wants
    <2> QED BY <1>2, <2>1, <2>2
<1>7. ASSUME NEW s \in Callers, NEW p \in PIDs, NEW out \in BOOLEAN, NEW live \in {{}, CoreSays(p, out)},
             UNCHANGED graph, BeginList(s, p, out, live)
      PROVE  WantSteps
    <2> DEFINE c == [at |-> "materialize", from |-> p, to |-> p, row |-> NoRow,
                     blocked |-> FALSE, out |-> out, live |-> live, todo |-> live]
    <2>1. call'[s] = c
        BY <1>1, <1>7 DEF BeginList
    <2>2. \A t \in Callers \ {s} : call'[t] = call[t]
        BY <1>1, <1>7 DEF BeginList
    <2>3. CASE call'[s] = Idle
        BY <1>2, <2>2, <2>3 DEF Wants
    <2>4. CASE call'[s] # Idle
        BY <1>3, <1>7, <2>1, <2>2, <2>4, ListedAreSourced
    <2> QED BY <2>3, <2>4
<1>8. ASSUME NEW s \in Callers, NEW todo \in SUBSET call[s].todo, At(s, "materialize"),
             call' = [call EXCEPT ![s].todo = todo]
      PROVE  WantSteps
    <2>1. call'[s] = [call[s] EXCEPT !.todo = todo] /\ call[s] \in Call /\ call[s] # Idle
        BY <1>1, <1>8 DEF At
    <2>2. \A t \in Callers \ {s} : call'[t] = call[t]
        BY <1>1, <1>8
    <2>3. /\ call'[s] # Idle => call'[s].at = "materialize" /\ call[s].at = "materialize"
          /\ call'[s].from = call[s].from /\ call'[s].out = call[s].out /\ call'[s].todo \subseteq call[s].todo
        BY <1>8, <2>1 DEF Call, At
    <2>4. Wants(call'[s]) \subseteq Wants(call[s])
        BY <2>1, <2>3 DEF Wants
    <2> QED BY <1>3, <2>2, <2>4
<1>9. ASSUME NEW s \in Slots, Console(s) PROVE WantSteps
    <2>1. ASSUME NEW p \in Pairs, Save(s, p[1], p[2]) PROVE WantSteps
        BY <1>1, <1>2, <2>1 DEF Save, Wants
    <2>2. ASSUME NEW p \in Pairs, AddBlackList(s, p[1], p[2]) \/ RemoveBlackList(s, p[1], p[2]) PROVE WantSteps
        BY <1>1, <1>6, <2>2 DEF AddBlackList, RemoveBlackList, Steps
    <2>3. ASSUME NEW r \in Rows, Accept(s, r) \/ Deny(s, r) \/ Cancel(s, r) PROVE WantSteps
        BY <1>1, <1>6, <2>3 DEF Accept, Deny, Cancel, Steps
    <2>4. ASSUME NEW p \in PIDs, NEW out \in BOOLEAN, List(s, p, out) \/ ListUnanswered(s, p, out) PROVE WantSteps
        BY <1>1, <1>7, <2>4 DEF List, ListUnanswered
    <2> QED BY <1>9, <2>1, <2>2, <2>3, <2>4 DEF Console
<1>10. ASSUME NEW s \in Callers, SaveAsk(s) PROVE WantSteps
    <2>1. call[s] # Idle /\ From(s) \in PIDs /\ To(s) \in PIDs /\ From(s) # To(s)
        BY <1>1, <1>10, CallAt DEF SaveAsk, At
    <2>2. ASSUME Request(From(s), To(s)), ~AskedBack(From(s), To(s)) PROVE Sourced(<<From(s), To(s)>>)
        BY <1>1, <2>1, <2>2, RequestOK DEF Sourced, Related, Both
    <2>3. ~Resolved(From(s), To(s)) => Sourced(<<From(s), To(s)>>)
        BY DEF Sourced
    <2> QED BY <1>4, <1>5, <1>10, <2>1, <2>2, <2>3 DEF SaveAsk, Steps
<1>11. ASSUME NEW s \in Callers, SaveComplete(s) PROVE WantSteps
    <2>1. call[s] # Idle /\ From(s) \in PIDs /\ To(s) \in PIDs
        BY <1>1, <1>11, CallAt DEF SaveComplete, At
    <2>2. ASSUME AcceptRequest(From(s), To(s)) PROVE Sourced(<<From(s), To(s)>>)
        BY <1>1, <2>1, <2>2, AcceptOK DEF Sourced, Related, Both
    <2> QED BY <1>4, <1>5, <1>11, <2>1, <2>2 DEF SaveComplete, Steps
<1>12. ASSUME NEW s \in Callers, SaveSelect(s) PROVE WantSteps
    <2>1. call[s] # Idle /\ call[s] \in Call /\ call[s].at = "select"
        BY <1>1, <1>12 DEF SaveSelect, At
    <2>2. ASSUME NEW r \in Rows, call' = [call EXCEPT ![s].at = "reset", ![s].row = r] PROVE WantSteps
        <3>1. call'[s] = [call[s] EXCEPT !.at = "reset", !.row = r]
            BY <1>1, <2>2
        <3>2. \A t \in Callers \ {s} : call'[t] = call[t]
            BY <1>1, <2>2
        <3>3. call'[s].at = "reset" /\ call'[s].from = call[s].from /\ call'[s].to = call[s].to
            BY <2>1, <3>1 DEF Call
        <3>4. Wants(call'[s]) \subseteq Wants(call[s])
            BY <2>1, <3>3 DEF Wants
        <3> QED BY <1>3, <3>2, <3>4
    <2> QED BY <1>4, <1>5, <1>12, <2>1, <2>2 DEF SaveSelect, Steps, Of
<1>13. ASSUME NEW s \in Callers, NEW q \in PIDs, Materialize(s, q) PROVE WantSteps
    BY <1>8, <1>13 DEF Materialize
<1>14. ASSUME NEW s \in Callers, Go(s) PROVE WantSteps
    BY <1>4, <1>5, <1>10, <1>11, <1>12, <1>13, <1>14
       DEF Go, SaveReset, SaveInsert, AcceptAccept, AcceptMark, SetBlocked, SetBlacklisted, UnsetBlocked, UnsetBlacklisted,
           CancelRemove, CancelDelete, ShowList, At, Steps
<1>15. CASE OnEvent
    <2>1. CASE BeginList(Loop, Head(events).to, FALSE, CoreSays(Head(events).to, FALSE)) /\ UNCHANGED graph /\ events # <<>>
        <3>1. Loop \in Callers /\ Head(events) \in Event
            BY <1>1, <2>1 DEF Callers, GraphOK
        <3>2. Head(events).to \in PIDs
            BY <3>1 DEF Event
        <3> QED BY <1>7, <2>1, <3>1, <3>2
    <2> QED BY <1>2, <1>15, <2>1 DEF OnEvent, OnRequested, OnAccepted, OnRemoved, NextEvent
<1>16. CASE Restart
    BY <1>2, <1>16 DEF Restart, Wants
<1>17. ASSUME NEW s \in Callers, CallFails(s) \/ EnsureProfilesFails(s) PROVE WantSteps
    BY <1>4, <1>8, <1>17 DEF CallFails, EnsureProfilesFails
<1> QED BY <1>2, <1>9, <1>14, <1>15, <1>16, <1>17 DEF Next, Delete, Expire, OnRemovedFails, ElsewhereStep, vars

\* A pair comes to be held only by a word of the core's.
LEMMA HeldStep ==
    ASSUME Typed, RowsAreTheirs, [Next]_vars, NEW p \in Pairs, Held(p)'
    PROVE  Held(p) \/ Sourced(p)
<1>1. ASSUME NEW s \in Callers, p \in Wants(call'[s]) PROVE Held(p) \/ Sourced(p)
    BY <1>1, NextWantSteps DEF WantSteps, Held
<1>2. ASSUME NEW r \in Rows, Open(r)', PairOf(r)' = p PROVE Held(p)
    <2>1. RowKept(r) \/ RowReset(r) \/ RowNew(r)
        BY <1>2, NextRowSteps DEF RowSteps, Open
    <2>2. CASE RowKept(r)
        BY <1>2, <2>2 DEF RowKept, Held
    <2>3. CASE RowReset(r)
        <3>1. PICK s \in Callers : call[s] # Idle /\ call[s].at = "reset" /\ call[s].row = r
            BY <2>3 DEF RowReset
        <3>2. PairOf(r) = <<From(s), To(s)>>
            BY <2>3, <3>1 DEF RowReset, RowsAreTheirs, Answers, ByRow
        <3>3. p \in Wants(call[s])
            BY <1>2, <2>3, <3>1, <3>2 DEF RowReset, Wants, From, To
        <3> QED BY <3>3 DEF Held
    <2>4. CASE RowNew(r)
        BY <1>2, <2>4 DEF RowNew, Held
    <2> QED BY <2>1, <2>2, <2>3, <2>4
<1> QED BY <1>1, <1>2 DEF Held

\* What links a pair stays, or gives way to the next; but for the last word, when
\* it is heard.
Hears(p) == OnRemoved /\ Removal(Head(events), p[1], p[2]) /\ Resolved(p[1], p[2])

LEMMA ToldLasts ==
    ASSUME Typed, Publishes \/ Restart, NEW p, Told(p)
    PROVE  Told(p)'
<1>1. events \in Seq(Event) /\ handled \in Seq(Event)
    BY DEF Typed, GraphOK, HandledOK
<1>2. PICK i \in DOMAIN events : Removal(events[i], p[1], p[2])
    BY DEF Told
<1>3. CASE events' = events
    BY <1>2, <1>3 DEF Told
<1>4. ASSUME NEW e, events' = Append(events, e) PROVE Told(p)'
    <2>1. i \in DOMAIN events' /\ events'[i] = events[i]
        BY <1>1, <1>2, <1>4
    <2> QED BY <1>2, <2>1 DEF Told
<1>5. CASE Restart
    <2>1. events' = handled \o events
        BY <1>5 DEF Restart
    <2>2. i + Len(handled) \in DOMAIN events' /\ events'[i + Len(handled)] = events[i]
        BY <1>1, <1>2, <2>1
    <2>3. Removal(events'[i + Len(handled)], p[1], p[2])
        BY <1>2, <2>2
    <2> QED BY <2>2, <2>3 DEF Told
<1> QED BY <1>3, <1>4, <1>5 DEF Publishes

LEMMA StraysLast ==
    ASSUME Typed, [Next]_vars
    PROVE  strays \subseteq strays'
<1>1. OnEvent => strays \subseteq strays'
    BY DEF OnEvent, OnRequested, OnAccepted, OnRemoved
<1>2. OnRemovedFails => strays \subseteq strays'
    BY DEF OnRemovedFails
<1> QED BY <1>1, <1>2, GraphSteps DEF vars, history

\* One event less: what is left of the queue.
LEMMA QueueMoves ==
    ASSUME Typed, NEW p, Told(p), OnEvent \/ OnRemovedFails
    PROVE  Told(p)' \/ Removal(Head(events), p[1], p[2])
<1>1. events \in Seq(Event) /\ events # <<>> /\ events' = Tail(events)
    BY DEF Typed, GraphOK, OnEvent, OnRequested, OnAccepted, OnRemoved, OnRemovedFails, NextEvent
<1>2. PICK i \in DOMAIN events : Removal(events[i], p[1], p[2])
    BY DEF Told
<1>3. CASE i = 1
    BY <1>1, <1>2, <1>3
<1>4. CASE i # 1
    <2>1. i - 1 \in DOMAIN events' /\ events'[i - 1] = events[i]
        BY <1>1, <1>2, <1>4
    <2>2. Removal(events'[i - 1], p[1], p[2])
        BY <1>2, <2>1
    <2> QED BY <2>1, <2>2 DEF Told
<1> QED BY <1>3, <1>4

LEMMA LinkedStep ==
    ASSUME Typed, [Next]_vars, MaxQueue > 0, NEW p \in Pairs, Linked(p)
    PROVE  Linked(p)' \/ Hears(p)
<1>1. CASE p \in strays \/ ~Resolved(p[1], p[2])
    BY <1>1, StraysLast DEF Linked
<1>2. CASE Related(p[1], p[2]) /\ GraphCall
    <2>1. p[1] \in PIDs /\ p[2] \in PIDs /\ events \in Seq(Event) /\ GraphOK
        BY DEF Pairs, Typed, GraphOK
    <2>2. CASE Related(p[1], p[2])'
        BY <2>2 DEF Linked
    <2>3. ASSUME NEW e \in Notice, Removal(e, p[1], p[2]), events' = Append(events, e) PROVE Told(p)'
        <3>1. Len(events) + 1 \in DOMAIN events' /\ events'[Len(events) + 1] = e
            BY <2>1, <2>3
        <3>2. Removal(events'[Len(events) + 1], p[1], p[2])
            BY <2>3, <3>1
        <3> QED BY <3>1, <3>2 DEF Told
    <2> QED BY <1>2, <2>1, <2>2, <2>3, PartedAreTold DEF Linked
<1>3. CASE Related(p[1], p[2]) /\ UNCHANGED graph
    BY <1>3 DEF Linked, Related, graph
<1>4. CASE Told(p) /\ (GraphCall \/ Restart \/ UNCHANGED events)
    BY <1>4, ToldLasts, CallPublishes DEF Linked, Publishes
<1>5. CASE Told(p) /\ Resolved(p[1], p[2]) /\ (OnEvent \/ OnRemovedFails)
    <2>1. CASE Told(p)'
        BY <2>1 DEF Linked
    <2>2. CASE Removal(Head(events), p[1], p[2])
        <3>1. Head(events).type = "friend_removed" /\ p \in Both(Head(events).to, Head(events).about)
            BY <2>2 DEF Removal, Both, Pairs
        <3>2. OnRemoved \/ OnRemovedFails
            BY <1>5, <3>1 DEF OnEvent, OnRequested, OnAccepted, NextEvent
        <3>3. OnRemovedFails => p \in strays'
            BY <3>1 DEF OnRemovedFails
        <3> QED BY <1>5, <2>2, <3>2, <3>3 DEF Linked, Hears
    <2> QED BY <1>5, <2>1, <2>2, QueueMoves
<1>6. CASE UNCHANGED vars
    BY <1>1, <1>3, <1>4, <1>6 DEF Linked, vars
<1> QED BY <1>1, <1>2, <1>3, <1>4, <1>5, <1>6, GraphSteps DEF Linked

\* Once it is heard nothing is held, if no call was under way.
LEMMA HearingForgets ==
    ASSUME Typed, NEW p \in Pairs, Hears(p)
    PROVE  p \in strays' \/ ~Held(p)'
<1> DEFINE e == Head(events)
<1>1. /\ p \in Both(e.to, e.about) /\ Both(e.to, e.about) \subseteq {p, <<p[2], p[1]>>}
      /\ Resolved(e.to, e.about)
    BY DEF Hears, Removal, Both, Pairs, Resolved
<1>2. CASE \E s \in Slots : call[s] # Idle
    BY <1>1, <1>2 DEF Hears, OnRemoved
<1>3. CASE \A s \in Slots : call[s] = Idle
    <2>1. \A s \in Callers : call'[s] = Idle
        BY <1>3 DEF Hears, OnRemoved, NextEvent, Callers
    <2>2. \A s \in Callers : Wants(call'[s]) = {}
        BY <2>1 DEF Wants
    <2>3. ASSUME NEW r \in Rows, Exists(r)' PROVE PairOf(r)' # p
        <3>1. rows'[r] = rows[r] /\ PairOf(r) \notin Both(e.to, e.about)
            BY <1>1, <2>3 DEF Hears, OnRemoved, Exists, PairOf
        <3> QED BY <1>1, <3>1 DEF PairOf
    <2> QED BY <2>2, <2>3 DEF Held, Open
<1> QED BY <1>2, <1>3

LEMMA HeldAreLinkedStep ==
    ASSUME Typed, RowsAreTheirs, HeldAreLinked, [Next]_vars, MaxQueue > 0
    PROVE  HeldAreLinked'
<1> SUFFICES ASSUME NEW p \in Pairs, Held(p)' PROVE Linked(p)'
    BY DEF HeldAreLinked, Pairs
<1>1. CASE Sourced(p)
    BY <1>1 DEF Sourced, Linked, Related
<1>2. CASE Held(p)
    <2>1. Linked(p)' \/ Hears(p)
        BY <1>2, LinkedStep DEF HeldAreLinked
    <2> QED BY <2>1, HearingForgets DEF Linked
<1> QED BY <1>1, <1>2, HeldStep

\* poller.go: what the core has ended is not resurrected here.  For any number of
\* calls at a time, of consoles' requests, of events on their way and of restarts:
\* when all is quiet, an open row is of two the core has related, or of two who
\* were parted while a call was under way.
THEOREM EndedStayForgotten ==
    ASSUME MaxQueue > 0
    PROVE  Spec => []EndedIsForgotten
<1>1. Init => NewsOK /\ RowsAreTheirs /\ HeldAreLinked
    BY DEF Init, GraphInit, NewsOK, RowsAreTheirs, Answers, HeldAreLinked, Held, Open, Exists, Wants
<1>2. Typed /\ RowsAreTheirs /\ HeldAreLinked /\ [Next]_vars => HeldAreLinked'
    BY HeldAreLinkedStep
<1>3. HeldAreLinked => EndedIsForgotten
    <2> SUFFICES ASSUME HeldAreLinked, Quiet, NEW p \in Pairs, NEW r \in Of(p[1], p[2]), Open(r)
                 PROVE  Related(p[1], p[2]) \/ p \in strays \/ ~Resolved(p[1], p[2])
        BY DEF EndedIsForgotten
    <2>1. r \in Rows /\ PairOf(r) = p
        BY DEF Of, PairOf, Pairs
    <2>2. Linked(p)
        BY <2>1 DEF HeldAreLinked, Held
    <2> QED BY <2>2 DEF Linked, Told, Quiet
<1> QED BY <1>1, <1>2, <1>3, InitTyped, NextTyped, NewsStep, TheirsStep, PTL DEF Spec

-----------------------------------------------------------------------------
\* A listing for whoever is asked has seen to everybody it is done with: there is
\* an open row, or the history says why there is not.
SeenTo(s, p) == (\E r \in Rows : Open(r) /\ PairOf(r) = p) \/ p \in touched[s]
Lists(c) == c # Idle /\ c.at = "materialize"
ListingsSeeTo ==
    \A s \in Callers : Lists(call[s]) /\ ~call[s].out =>
        \A q \in call[s].live \ call[s].todo : \A p \in Pairs : p = <<q, From(s)>> => SeenTo(s, p)

\* An open row stays open, or every listing under way knows of it.
Remarked(p) == \A s \in Callers : Lists(call[s]) /\ Lists(call'[s]) => p \in touched'[s]
ClosingSteps ==
    \A r \in Rows : Open(r) => (Open(r)' /\ PairOf(r)' = PairOf(r)) \/ Remarked(PairOf(r))

\* Rows are closed, and the pairs they are of remarked.
LEMMA ClosesRemarks ==
    ASSUME NEW S, Closes(S), NEW p \in S
    PROVE  Remarked(p)
    BY DEF Closes, Remarked, Lists, At

LEMMA NextClosingSteps == Typed /\ RowsAreTheirs /\ [Next]_vars => ClosingSteps
<1> SUFFICES ASSUME Typed, RowsAreTheirs, [Next]_vars, NEW r \in Rows, Open(r)
             PROVE  (Open(r)' /\ PairOf(r)' = PairOf(r)) \/ Remarked(PairOf(r))
    BY DEF ClosingSteps
<1> DEFINE Done == (Open(r)' /\ PairOf(r)' = PairOf(r)) \/ Remarked(PairOf(r))
<1>1. TableOK /\ CallsOK /\ rows[r] \in Row /\ Exists(r)
    BY DEF Typed, TableOK, Open, Exists
<1>2. CASE rows'[r] = rows[r]
    BY <1>2 DEF Open, Exists, PairOf
<1>3. ASSUME NEW q \in Rows, Denied(q) PROVE Done
    <2>1. CASE q = r
        BY <1>1, <1>3, <2>1, ClosesRemarks DEF Denied, PairOf
    <2>2. CASE q # r
        BY <1>1, <1>2, <1>3, <2>2 DEF Denied, TableOK
    <2> QED BY <2>1, <2>2
<1>4. ASSUME NEW s \in Slots, Console(s) PROVE Done
    BY <1>2, <1>3, <1>4 DEF Console, Save, AddBlackList, RemoveBlackList, Accept, Deny, Cancel, List, ListUnanswered, table
<1>5. ASSUME NEW s \in Callers, SaveReset(s) PROVE Done
    <2>1. CASE call[s].row = r
        <3>1. rows'[r] = [rows[r] EXCEPT !.accepted = FALSE, !.denied = FALSE, !.expired = FALSE]
            BY <1>1, <1>5, <2>1 DEF SaveReset, TableOK
        <3>2. Open(r)' /\ PairOf(r)' = PairOf(r)
            <4>1. rows'[r] \in Row
                BY <1>1, <3>1 DEF Row
            <4> QED BY <1>1, <3>1, <4>1, RowAssumption DEF Open, Exists, PairOf, Row
        <3> QED BY <3>2
    <2>2. CASE call[s].row # r
        BY <1>1, <1>2, <1>5, <2>2 DEF SaveReset, TableOK
    <2> QED BY <2>1, <2>2
<1>6. ASSUME NEW a, NEW b, NEW denied, InsertRow(a, b, denied) \/ NoRowsLeft PROVE Done
    BY <1>1, <1>2, <1>6 DEF InsertRow, FreshIds, NoRowsLeft, TableOK
<1>7. ASSUME NEW s \in Callers, AcceptMark(s) \/ CancelDelete(s) PROVE Done
    <2>1. call[s] # Idle /\ call[s].at \in ByRow
        BY <1>7 DEF AcceptMark, CancelDelete, At, ByRow
    <2>2. CASE call[s].row = r
        <3>1. PairOf(r) = <<From(s), To(s)>>
            BY <1>1, <2>1, <2>2 DEF RowsAreTheirs, Answers
        <3> QED BY <1>7, <3>1, ClosesRemarks DEF AcceptMark, CancelDelete
    <2>3. CASE call[s].row # r
        BY <1>1, <1>2, <1>7, <2>3 DEF AcceptMark, CancelDelete, TableOK
    <2> QED BY <2>2, <2>3
<1>8. ASSUME NEW s \in Callers, Go(s) PROVE Done
    <2>1. CASE UNCHANGED rows
        BY <1>2, <2>1
    <2> QED BY <1>5, <1>6, <1>7, <1>8, <2>1
            DEF Go, SaveAsk, SaveComplete, SaveSelect, SaveInsert, AcceptAccept, SetBlocked, SetBlacklisted, UnsetBlocked,
                UnsetBlacklisted, CancelRemove, Materialize, ShowList, table
<1>9. CASE OnEvent
    <2> DEFINE e == Head(events)
    <2>1. CASE OnAccepted
        <3>1. CASE r \in Of(e.to, e.about) /\ Closes({<<e.to, e.about>>})
            BY <3>1, ClosesRemarks DEF Of, PairOf
        <3>2. CASE r \notin Of(e.to, e.about)
            BY <1>1, <1>2, <2>1, <3>2 DEF OnAccepted
        <3> QED BY <1>2, <2>1, <3>1, <3>2 DEF OnAccepted
    <2>2. CASE OnRemoved
        <3>1. CASE PairOf(r) \in Both(e.to, e.about)
            BY <2>2, <3>1, ClosesRemarks DEF OnRemoved
        <3>2. CASE PairOf(r) \notin Both(e.to, e.about)
            BY <1>2, <2>2, <3>2 DEF OnRemoved, PairOf
        <3> QED BY <3>1, <3>2
    <2> QED BY <1>2, <1>9, <2>1, <2>2 DEF OnEvent, OnRequested, table
<1>10. ASSUME NEW q \in Rows, Expire(q) PROVE Done
    <2>1. CASE q = r
        <3>1. rows'[r] = [rows[r] EXCEPT !.expired = TRUE]
            BY <1>1, <1>10, <2>1 DEF Expire, TableOK
        <3>2. rows'[r] \in Row
            BY <1>1, <3>1 DEF Row
        <3> QED BY <1>1, <3>1, <3>2, RowAssumption DEF Open, Exists, PairOf, Row
    <2>2. CASE q # r
        BY <1>1, <1>2, <1>10, <2>2 DEF Expire, TableOK
    <2> QED BY <2>1, <2>2
<1> QED BY <1>2, <1>3, <1>4, <1>8, <1>9, <1>10
        DEF Next, Delete, CallFails, EnsureProfilesFails, OnRemovedFails, Restart, ElsewhereStep, table, vars

\* A listing has just begun, or goes on and has seen to whom it took off its list.
ListGoesOn(s) ==
    /\ Lists(call[s]) /\ call'[s].from = From(s)
    /\ call'[s].out = call[s].out /\ call'[s].live = call[s].live /\ touched[s] \subseteq touched'[s]
    /\ ~call[s].out => \A q \in call[s].todo \ call'[s].todo : \A p \in Pairs : p = <<q, From(s)>> => SeenTo(s, p)'
ListSteps == \A s \in Callers : Lists(call'[s]) => call'[s].todo = call'[s].live \/ ListGoesOn(s)

LEMMA MaterializeSteps ==
    ASSUME Typed, NEW s \in Callers, NEW q \in PIDs, Materialize(s, q)
    PROVE  /\ ListGoesOn(s)
           /\ \A t \in Callers \ {s} : call'[t] = call[t] /\ (Lists(call[t]) => touched[t] \subseteq touched'[t])
<1>1. TableOK /\ HistoryOK /\ call \in [Callers -> {c \in Call : CallOK(c)} \cup {Idle}] /\ At(s, "materialize")
    BY DEF Typed, CallsOK, Materialize
<1>2. /\ call'[s] = [call[s] EXCEPT !.todo = @ \ {q}] /\ call[s] \in Call
      /\ \A t \in Callers \ {s} : call'[t] = call[t]
    BY <1>1 DEF Materialize, At
<1>3. /\ Lists(call[s]) /\ call'[s].from = From(s) /\ call'[s].out = call[s].out /\ call'[s].live = call[s].live
      /\ call'[s].todo = call[s].todo \ {q}
    BY <1>1, <1>2 DEF Lists, At, From, Call
<1>4. \A t \in Callers : touched[t] \subseteq touched'[t] \/ ~Lists(call[t])
    BY <1>1 DEF Materialize, Closes, HistoryOK, Lists, At
<1>5. ASSUME ~call[s].out, NEW p \in Pairs, p = <<q, From(s)>> PROVE SeenTo(s, p)'
    <2>1. Pair(s, q) = p
        BY <1>5 DEF Pair
    <2>2. CASE (\E r \in Of(p[1], p[2]) : Open(r)) /\ UNCHANGED rows
        <3>1. PICK r \in Rows : Open(r) /\ rows[r].from = p[1] /\ rows[r].to = p[2]
            BY <2>2 DEF Of
        <3>2. Open(r)' /\ PairOf(r)' = p
            BY <1>5, <2>2, <3>1 DEF Open, Exists, PairOf
        <3> QED BY <3>2 DEF SeenTo
    <2>3. CASE InsertRow(p[1], p[2], FALSE)
        <3>1. PICK r \in FreshIds : rows' = [rows EXCEPT ![r] = NewRow(p[1], p[2], FALSE)]
            BY <2>3 DEF InsertRow
        <3>2. r \in Rows /\ rows'[r] = NewRow(p[1], p[2], FALSE)
            BY <1>1, <3>1 DEF FreshIds, TableOK
        <3>3. NewRow(p[1], p[2], FALSE) \in Row
            BY DEF NewRow, Row, Pairs
        <3>4. Open(r)'
            <4>1. rows'[r] # NoRow
                BY <3>2, <3>3, RowAssumption
            <4>2. ~rows'[r].accepted /\ ~rows'[r].denied
                BY <3>2 DEF NewRow
            <4> QED BY <4>1, <4>2 DEF Open, Exists
        <3>5. PairOf(r)' = <<p[1], p[2]>>
            BY <3>2 DEF PairOf, NewRow
        <3> QED BY <3>2, <3>4, <3>5 DEF SeenTo, Pairs
    <2>4. CASE Closes({p})
        BY <1>1, <2>4 DEF Closes, SeenTo
    <2> QED BY <2>1, <2>2, <2>3, <2>4 DEF Materialize
<1>6. ListGoesOn(s)
    BY <1>3, <1>4, <1>5 DEF ListGoesOn
<1> QED BY <1>1, <1>2, <1>4, <1>6 DEF HistoryOK

\* A listing that a step leaves alone.
LEMMA ListStays ==
    ASSUME NEW s \in Callers, call'[s] = call[s], touched[s] \subseteq touched'[s]
    PROVE  Lists(call'[s]) => ListGoesOn(s)
    BY DEF Lists, ListGoesOn, From

LEMMA NextListSteps == Typed /\ [Next]_vars => ListSteps
<1> SUFFICES ASSUME Typed, [Next]_vars PROVE ListSteps
    OBVIOUS
<1>1. call \in [Callers -> {c \in Call : CallOK(c)} \cup {Idle}] /\ HistoryOK /\ Slots \subseteq Callers /\ CallsOK
    BY DEF Callers, Typed, CallsOK
<1> DEFINE Begun(s) == call'[s].todo = call'[s].live
           Stays(s) == call'[s] = call[s] /\ (Lists(call[s]) => touched[s] \subseteq touched'[s])
<1>2. CASE \A s \in Callers : Stays(s) \/ ~Lists(call'[s]) \/ Begun(s)
    BY <1>2, ListStays DEF ListSteps
<1>3. ASSUME NEW S, Closes(S), NEW s \in Callers, Lists(call[s]) PROVE touched[s] \subseteq touched'[s]
    BY <1>1, <1>3 DEF Closes, Lists, At
<1>4. ASSUME NEW s \in Callers, Return(s), UNCHANGED touched \/ ListingOver(s) \/ \E S : Closes(S) PROVE ListSteps
    <2>1. ~Lists(call'[s]) /\ \A t \in Callers \ {s} : call'[t] = call[t]
        BY <1>1, <1>4 DEF Return, Lists
    <2>2. \A t \in Callers \ {s} : Lists(call[t]) => touched[t] \subseteq touched'[t]
        BY <1>1, <1>3, <1>4 DEF ListingOver, HistoryOK
    <2> QED BY <1>2, <2>1, <2>2
<1>5. ASSUME NEW s \in Callers, NEW step, step # "materialize", Goto(s, step), call[s] # Idle, UNCHANGED touched
      PROVE  ListSteps
    <2>1. call'[s].at = step /\ \A t \in Callers \ {s} : call'[t] = call[t]
        BY <1>1, <1>5 DEF Goto, Call
    <2> QED BY <1>2, <1>5, <2>1 DEF Lists
<1>6. ASSUME NEW s \in Callers, NEW step, step # "materialize", NEW a, NEW b, NEW r, Begin(s, step, a, b, r),
             UNCHANGED touched \/ \E S : Closes(S)
      PROVE  ListSteps
    <2>1. call'[s].at = step /\ \A t \in Callers \ {s} : call'[t] = call[t]
        BY <1>1, <1>6 DEF Begin
    <2> QED BY <1>2, <1>3, <1>6, <2>1 DEF Lists
<1>7. ASSUME NEW s \in Callers, NEW p, NEW out, NEW live, BeginList(s, p, out, live) PROVE ListSteps
    <2>1. call'[s].todo = call'[s].live /\ \A t \in Callers \ {s} : call'[t] = call[t]
        BY <1>1, <1>7 DEF BeginList
    <2>2. \A t \in Callers \ {s} : touched'[t] = touched[t]
        BY <1>1, <1>7 DEF BeginList, HistoryOK
    <2> QED BY <1>2, <2>1, <2>2
<1>8. ASSUME NEW s \in Slots, Console(s) PROVE ListSteps
    <2>1. ASSUME NEW p \in Pairs, Save(s, p[1], p[2]) PROVE ListSteps
        <3>1. call'[s].at = "ask" /\ UNCHANGED touched /\ \A t \in Callers \ {s} : call'[t] = call[t]
            BY <1>1, <2>1 DEF Save
        <3> QED BY <1>2, <3>1 DEF Lists
    <2>2. ASSUME NEW p \in Pairs, AddBlackList(s, p[1], p[2]) \/ RemoveBlackList(s, p[1], p[2]) PROVE ListSteps
        BY <1>1, <1>6, <2>2 DEF AddBlackList, RemoveBlackList, history
    <2>3. ASSUME NEW r \in Rows, Accept(s, r) \/ Deny(s, r) \/ Cancel(s, r) PROVE ListSteps
        BY <1>1, <1>6, <2>3 DEF Accept, Deny, Cancel, Denied, history
    <2> QED BY <1>1, <1>7, <1>8, <2>1, <2>2, <2>3 DEF Console, List, ListUnanswered
<1>9. ASSUME NEW s \in Callers, SaveSelect(s) PROVE ListSteps
    <2>1. ASSUME NEW r, call' = [call EXCEPT ![s].at = "reset", ![s].row = r], call[s] # Idle, UNCHANGED touched
          PROVE ListSteps
        <3>1. call'[s].at = "reset" /\ \A t \in Callers \ {s} : call'[t] = call[t]
            BY <1>1, <2>1 DEF Call
        <3> QED BY <1>2, <2>1, <3>1 DEF Lists
    <2> QED BY <1>4, <1>5, <1>9, <2>1 DEF SaveSelect, At, history
<1>10. ASSUME NEW s \in Callers, NEW q \in PIDs, Materialize(s, q) PROVE ListSteps
    <2>1. ListGoesOn(s) /\ \A t \in Callers \ {s} : Stays(t)
        BY <1>10, MaterializeSteps
    <2> QED BY <2>1, ListStays DEF ListSteps
<1>11. ASSUME NEW s \in Callers, EnsureProfilesFails(s) PROVE ListSteps
    <2>1. /\ call'[s] = [call[s] EXCEPT !.todo = {}] /\ call[s] \in Call /\ Lists(call[s])
          /\ \A t \in Callers \ {s} : call'[t] = call[t] /\ touched'[t] = touched[t]
        BY <1>1, <1>11 DEF EnsureProfilesFails, At, Lists, HistoryOK
    <2>2. touched'[s] = Pairs /\ touched[s] \subseteq Pairs
        BY <1>1, <1>11 DEF EnsureProfilesFails, HistoryOK
    <2>3. ListGoesOn(s)
        BY <2>1, <2>2 DEF ListGoesOn, SeenTo, From, Call
    <2> QED BY <2>1, <2>3, ListStays DEF ListSteps
<1>12. ASSUME NEW s \in Callers, Go(s) PROVE ListSteps
    BY <1>4, <1>5, <1>9, <1>10, <1>12
       DEF Go, SaveAsk, SaveComplete, SaveReset, SaveInsert, AcceptAccept, AcceptMark, SetBlocked, SetBlacklisted,
           UnsetBlocked, UnsetBlacklisted, CancelRemove, CancelDelete, ShowList, At, history
<1>13. CASE OnEvent
    <2>1. Loop \in Callers
        BY DEF Callers
    <2>2. CASE UNCHANGED call /\ (UNCHANGED touched \/ \E S : Closes(S))
        BY <1>2, <1>3, <2>2
    <2> QED BY <1>7, <1>13, <2>1, <2>2 DEF OnEvent, OnRequested, OnAccepted, OnRemoved
<1>14. CASE Restart
    BY <1>2, <1>14 DEF Restart, Lists
<1>15. ASSUME NEW r \in Rows, Delete(r) \/ Expire(r) PROVE ListSteps
    BY <1>2, <1>3, <1>15 DEF Delete, Denied, Expire, history
<1>16. ASSUME NEW s \in Callers, CallFails(s) PROVE ListSteps
    BY <1>4, <1>16 DEF CallFails
<1> QED BY <1>2, <1>8, <1>11, <1>12, <1>13, <1>14, <1>15, <1>16
        DEF Next, OnRemovedFails, ElsewhereStep, history, vars

LEMMA SeenToStep == Typed /\ RowsAreTheirs /\ ListingsSeeTo /\ [Next]_vars => ListingsSeeTo'
<1> SUFFICES ASSUME Typed, RowsAreTheirs, ListingsSeeTo, [Next]_vars, NEW s \in Callers, Lists(call'[s]), ~call'[s].out,
                    NEW q \in call'[s].live \ call'[s].todo, NEW p \in Pairs, p = <<q, call'[s].from>>
             PROVE  SeenTo(s, p)'
    BY DEF ListingsSeeTo, Lists, From
<1>1. ListGoesOn(s)
    BY NextListSteps DEF ListSteps
<1>2. CASE q \in call[s].todo
    BY <1>1, <1>2 DEF ListGoesOn
<1>3. CASE SeenTo(s, p)
    <2>1. CASE p \in touched[s]
        BY <1>1, <2>1 DEF ListGoesOn, SeenTo
    <2>2. ASSUME NEW r \in Rows, Open(r), PairOf(r) = p PROVE SeenTo(s, p)'
        <3>1. (Open(r)' /\ PairOf(r)' = PairOf(r)) \/ Remarked(PairOf(r))
            BY <2>2, NextClosingSteps DEF ClosingSteps
        <3> QED BY <1>1, <2>2, <3>1 DEF ListGoesOn, Remarked, SeenTo
    <2> QED BY <1>3, <2>1, <2>2 DEF SeenTo
<1> QED BY <1>1, <1>2, <1>3 DEF ListGoesOn, ListingsSeeTo

\* materializeRequests and the listings over it: for any number of calls at a time,
\* whoever the core says is asking a person is on the list the person gets, unless
\* another call or event closed their row meanwhile, it could not be stored, or it
\* is too old.
THEOREM ThePendingAreListed == Spec => PendingIsListed
<1>1. Init => NewsOK /\ RowsAreTheirs /\ ListingsSeeTo
    BY DEF Init, GraphInit, NewsOK, RowsAreTheirs, Answers, ListingsSeeTo, Lists
<1>2. Typed /\ ListingsSeeTo =>
        [\A s \in Callers : (ShowList(s) /\ ~call[s].out) =>
            \A q \in call[s].live :
                \/ q \in Listed(s)
                \/ <<q, From(s)>> \in touched[s]
                \/ \E r \in Of(q, From(s)) : Open(r) /\ rows[r].expired]_vars
    <2> SUFFICES ASSUME Typed, ListingsSeeTo, NEW s \in Callers, ShowList(s), ~call[s].out, NEW q \in call[s].live,
                        <<q, From(s)>> \notin touched[s], \A r \in Of(q, From(s)) : Open(r) => ~rows[r].expired
                 PROVE  q \in Listed(s)
        OBVIOUS
    <2>1. Lists(call[s]) /\ call[s].todo = {}
        BY DEF ShowList, At, Lists
    <2>2. q \in PIDs /\ From(s) \in PIDs /\ q # From(s)
        BY <2>1, CallAt DEF Typed, Lists, CallOK, Call, From
    <2>3. SeenTo(s, <<q, From(s)>>)
        BY <2>1, <2>2 DEF ListingsSeeTo, Pairs
    <2>4. PICK r \in Of(q, From(s)) : Open(r)
        BY <2>3 DEF SeenTo, Of, PairOf, Open
    <2> QED BY <2>2, <2>4 DEF Listed
<1> QED BY <1>1, <1>2, InitTyped, NextTyped, NewsStep, TheirsStep, SeenToStep, PTL DEF Spec, PendingIsListed
=============================================================================
