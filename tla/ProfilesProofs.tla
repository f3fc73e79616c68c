--------------------------- MODULE ProfilesProofs ---------------------------
(***************************************************************************)
(* Proofs about Profiles for every set of PIDs, of calls and of goroutines, *)
(* and any number of changes, failures and logins.                         *)
(***************************************************************************)
EXTENDS Profiles, TLAPS

\* What the proofs use of the constants, as one fact to cite.
LEMMA Constants ==
    /\ MaxVersion \in Nat /\ MaxFails \in Nat /\ MaxLogins \in Nat
    /\ NoPid \notin PIDs
    /\ Gone # NoRow /\ Gone # Bare /\ NoRow # Bare
    /\ NoRow \notin Versions /\ Bare \notin Versions /\ Gone \notin Versions
BY BoundsAssumption, NoneAssumption DEF Versions

Places == Tables \cup {"idle", "look", "ask", "mark", "failed", "delay", "pick"}
Call == [at : Places, op : Ops, todo : SUBSET PIDs, pid : PIDs \cup {NoPid},
         side : {"wiiu", "ctr"}, got : Versions \cup {Gone, Bare}]

\* A call that asks, writes or marks has its PID; it writes what it was told, and
\* only the goroutine writes the rows of the other platform.
Fits(c) ==
    /\ c.at \in Tables \cup {"ask", "mark", "failed"} => c.pid \in PIDs
    /\ c.at \in Tables => c.got # Gone
    /\ c.at = "look" => c.op = "list"
    /\ c.at \in {"delay", "pick"} => c.op = "update"
    /\ c.at = "ask" /\ c.op # "update" => c.side = Side(c.pid)
    /\ c.at = "ctr" /\ c.op # "update" => c.pid \in ctrs
    /\ c.at = "basic" /\ c.op # "update" => c.pid \notin ctrs
    /\ c.op = "settings" => c.at \in {"ctr", "user"}
    /\ c.op = "signin" => c.at \in {"basic", "mii"}
    /\ c.op = "upload" => c.at \in {"ctr", "mark"}

CoreOK ==
    /\ ctrs \in SUBSET PIDs
    /\ profile \in Versions \cup {Gone} /\ adapter \in Versions \cup {Gone}
    /\ events \in 0 .. MaxVersion
    /\ profile # Gone => events <= profile
RowsOK == rows \in [Tables -> [PIDs -> Versions \cup {NoRow, Bare}]]
MarksOK == mark \in [PIDs -> {"none", "fresh", "failed"}] /\ overtaken \in SUBSET PIDs
CallsOK == call \in [Procs -> Call] /\ \A s \in Procs : Fits(call[s])
ConsoleOK ==
    /\ visit \in [PIDs -> {"off", "entering", "enterWrites", "entered", "on", "leaving", "leaveWrites"}]
    /\ logins \in 0 .. MaxLogins
RemovalOK ==
    /\ eraser \in [at : {"idle", "drop", "commit"}, final : BOOLEAN]
    /\ purge \in [at : Tables \cup {"ask", "done"}, orphans : SUBSET PIDs]
    /\ erased \in {"no", "clean", "late"}
    /\ fails \in 0 .. MaxFails
Typed == CoreOK /\ RowsOK /\ MarksOK /\ CallsOK /\ ConsoleOK /\ RemovalOK

LEMMA TypedIsTypeOK == Typed => TypeOK
BY DEF Typed, TypeOK, CoreOK, RowsOK, MarksOK, CallsOK, ConsoleOK, RemovalOK, Call, Places

\* The actions, for whoever goes through them one by one.
Steps ==
    \/ Update \/ Delete \/ AdapterCatchesUp
    \/ \E p \in PIDs : Expire(p) \/ Login(p) \/ Leave(p) \/ LookLastOnline(p) \/ WriteLastOnline(p) \/ Enter(p)
    \/ Erase \/ Drop \/ Commit \/ PurgeAsk \/ PurgeDelete \/ Restart
CallSteps(s) ==
    \/ \E S \in SUBSET PIDs : s \in Slots /\ List(s, S)
    \/ \E p \in PIDs : s \in Slots /\ (Settings(s, p) \/ SignIn(s, p) \/ Upload(s, p))
    \/ \E p \in PIDs : Look(s, p) \/ Pick(s, p)
    \/ Ask(s) \/ Write(s) \/ MarkFilled(s) \/ ServeOld(s) \/ PassOver(s)
    \/ s \in Updaters /\ (ProfileUpdated(s) \/ Wake(s))

LEMMA NextSteps == Next => Steps \/ \E s \in Procs : CallSteps(s)
BY DEF Next, Steps, CallSteps, Calls, Sessions

-----------------------------------------------------------------------------
\* A call that is over, and one that goes on to the next PID.
LEMMA IdleFits == Idle \in Call /\ Fits(Idle)
BY DEF Idle, Call, Places, Ops, Fits, Tables

LEMMA OnwardFits ==
    ASSUME NEW c \in Call, NEW next,
           (next = "look" /\ c.op = "list") \/ (next = "pick" /\ c.op = "update")
    PROVE  Onward(c, next) \in Call /\ Fits(Onward(c, next))
<1> DEFINE d == [Idle EXCEPT !.at = next, !.op = c.op, !.todo = c.todo \ {c.pid}]
<1>1. d \in Call /\ d.at = next /\ d.op = c.op
  BY IdleFits DEF Call, Places
<1>2. Fits(d)
  BY <1>1 DEF Fits, Tables
<1> QED
  BY <1>1, <1>2, IdleFits DEF Onward

\* One call goes on, the others stay.
LEMMA OneCall ==
    ASSUME NEW s \in Procs, NEW d \in Call, Fits(d), CallsOK, ctrs' = ctrs,
           call' = [call EXCEPT ![s] = d]
    PROVE  CallsOK'
BY DEF CallsOK, Fits, Side

\* A call after a statement that succeeded, and after one that failed.
LEMMA AfterWriteFits ==
    ASSUME NEW c \in Call, Fits(c), c.at \in Tables
    PROVE  /\ AfterWrite(c) \in Call /\ Fits(AfterWrite(c))
           /\ AfterError(c) \in Call /\ Fits(AfterError(c))
<1> DEFINE d(place) == [c EXCEPT !.at = place]
<1>1. ASSUME NEW place \in Places
      PROVE  /\ d(place) \in Call /\ d(place).at = place /\ d(place).op = c.op
             /\ d(place).pid = c.pid /\ d(place).side = c.side /\ d(place).got = c.got
  BY DEF Call
<1> HIDE DEF d
<1>2. c.pid \in PIDs /\ c.got # Gone
  BY DEF Fits
<1>3. Fits(d("failed")) <=> c.op \in {"list", "update"}
  BY <1>1, <1>2 DEF Fits, Places, Tables, Call, Ops
<1>4. c.at = "basic" => Fits(d("mii"))
  BY <1>1, <1>2 DEF Fits, Places, Tables, Call, Ops
<1>5. c.at = "mii" /\ c.op # "signin" => Fits(d("user"))
  BY <1>1, <1>2 DEF Fits, Places, Tables, Call, Ops
<1>6. c.at \in {"user", "ctr"} /\ c.op # "settings" => Fits(d("mark"))
  BY <1>1, <1>2 DEF Fits, Places, Tables, Call, Ops
<1>7. AfterError(c) = IF c.op \in {"list", "update"} THEN d("failed") ELSE Idle
  BY DEF AfterError, d
<1>8. /\ c.at = "basic" => AfterWrite(c) = d("mii")
      /\ c.at = "mii" /\ c.op # "signin" => AfterWrite(c) = d("user")
      /\ c.at = "mii" /\ c.op = "signin" => AfterWrite(c) = Idle
      /\ c.at \in {"user", "ctr"} /\ c.op # "settings" => AfterWrite(c) = d("mark")
      /\ c.at \in {"user", "ctr"} /\ c.op = "settings" => AfterWrite(c) = Idle
  BY DEF AfterWrite, d
<1>9. {"failed", "mii", "user", "mark"} \subseteq Places
  BY DEF Places, Tables
<1> QED
  BY <1>1, <1>3, <1>4, <1>5, <1>6, <1>7, <1>8, <1>9, IdleFits DEF Tables

\* Every step of a call leaves a call that fits.
LEMMA CallStepFits ==
    ASSUME NEW s \in Procs, CallSteps(s), CoreOK, CallsOK
    PROVE  CallsOK'
<1> DEFINE c == call[s]
<1>0. c \in Call /\ Fits(c)
  BY DEF CallsOK
<1>1. ASSUME NEW S \in SUBSET PIDs, List(s, S) PROVE CallsOK'
  <2> DEFINE d == [Idle EXCEPT !.at = "look", !.op = "list", !.todo = S]
  <2>1. d \in Call /\ d.at = "look" /\ d.op = "list"
    BY IdleFits DEF Call, Places, Ops
  <2>2. Fits(d)
    BY <2>1 DEF Fits, Tables
  <2> QED
    BY <1>1, <2>1, <2>2, OneCall DEF List, core
<1>2. ASSUME NEW p \in PIDs, Settings(s, p) PROVE CallsOK'
  <2> DEFINE d == [Idle EXCEPT !.at = IF p \in ctrs THEN "ctr" ELSE "user", !.op = "settings", !.pid = p, !.got = Bare]
  <2>1. /\ d \in Call /\ d.op = "settings" /\ d.pid = p /\ d.got = Bare
        /\ d.at = IF p \in ctrs THEN "ctr" ELSE "user"
    BY IdleFits DEF Call, Places, Ops, Tables
  <2>2. Fits(d)
    BY <2>1, Constants DEF Fits, Tables
  <2> QED
    BY <1>2, <2>1, <2>2, OneCall DEF Settings, core
<1>3. ASSUME NEW p \in PIDs, SignIn(s, p) PROVE CallsOK'
  <2>1. PICK v \in Versions :
          call' = [call EXCEPT ![s] = [Idle EXCEPT !.at = "basic", !.op = "signin", !.pid = p, !.got = v]]
    BY <1>3 DEF SignIn
  <2> DEFINE d == [Idle EXCEPT !.at = "basic", !.op = "signin", !.pid = p, !.got = v]
  <2>2. d \in Call /\ d.at = "basic" /\ d.op = "signin" /\ d.pid = p /\ d.got = v
    BY IdleFits DEF Call, Places, Ops, Tables
  <2>3. Fits(d)
    BY <1>3, <2>2, Constants DEF Fits, Tables, SignIn
  <2> QED
    BY <1>3, <2>1, <2>2, <2>3, OneCall DEF SignIn, core
<1>4. ASSUME NEW p \in PIDs, Upload(s, p) PROVE CallsOK'
  <2> DEFINE v == IF profile = Gone THEN 0 ELSE profile + 1
             d == [Idle EXCEPT !.at = "ctr", !.op = "upload", !.pid = p, !.got = v]
  <2>1. v \in Versions
    BY <1>4, Constants DEF Upload, CoreOK, Versions
  <2>2. d \in Call /\ d.at = "ctr" /\ d.op = "upload" /\ d.pid = p /\ d.got = v
    BY <2>1, IdleFits DEF Call, Places, Ops, Tables
  <2>3. Fits(d)
    BY <1>4, <2>1, <2>2, Constants DEF Fits, Tables, Upload
  <2> QED
    BY <1>4, <2>2, <2>3, OneCall DEF Upload
<1>5. ASSUME NEW p \in PIDs, Look(s, p) PROVE CallsOK'
  <2> DEFINE f == [c EXCEPT !.pid = p]
             d == [c EXCEPT !.at = "ask", !.pid = p, !.side = Side(p)]
  <2>1. c.at = "look" /\ c.op = "list"
    BY <1>0, <1>5 DEF Look, Fits
  <2>2. f \in Call /\ f.op = "list"
    BY <1>0, <2>1 DEF Call
  <2>3. d \in Call /\ d.at = "ask" /\ d.op = "list" /\ d.pid = p /\ d.side = Side(p)
    BY <1>0, <2>1 DEF Call, Places, Side
  <2>4. Fits(d)
    BY <2>3 DEF Fits, Tables
  <2>5. Onward(f, "look") \in Call /\ Fits(Onward(f, "look"))
    BY <2>2, OnwardFits
  <2>6. call' = [call EXCEPT ![s] = IF Fresh(p) THEN Onward(f, "look") ELSE d] /\ ctrs' = ctrs
    BY <1>5 DEF Look, core
  <2> QED
    BY <2>3, <2>4, <2>5, <2>6, OneCall
<1>6. ASSUME NEW p \in PIDs, Pick(s, p) PROVE CallsOK'
  <2> DEFINE f == [c EXCEPT !.pid = p, !.side = "wiiu"]
             d == [f EXCEPT !.at = "ask"]
  <2>1. f \in Call /\ f.at = c.at /\ f.op = c.op
    BY <1>0 DEF Call
  <2>2. f.op = "update"
    BY <1>0, <1>6, <2>1 DEF Pick, Fits
  <2>3. d \in Call /\ d.at = "ask" /\ d.op = "update" /\ d.pid = p
    BY <1>0, <2>1, <2>2 DEF Call, Places
  <2>4. Fits(d)
    BY <2>3 DEF Fits, Tables
  <2>5. Onward(f, "pick") \in Call /\ Fits(Onward(f, "pick"))
    BY <2>1, <2>2, OnwardFits
  <2>6. ctrs' = ctrs /\ (call' = [call EXCEPT ![s] = d] \/ call' = [call EXCEPT ![s] = Onward(f, "pick")])
    BY <1>6 DEF Pick, core
  <2> QED
    BY <2>3, <2>4, <2>5, <2>6, OneCall
<1>7. CASE Ask(s)
  <2> DEFINE d == [c EXCEPT !.at = IF c.side = "ctr" THEN "ctr" ELSE "basic", !.got = adapter]
             e == [c EXCEPT !.at = "failed"]
  <2>1. c.at = "ask" /\ ctrs' = ctrs
    BY <1>7 DEF Ask, core
  <2>2. c.pid \in PIDs /\ (c.op = "list" \/ c.op = "update") /\ c.side \in {"wiiu", "ctr"}
    BY <1>0, <2>1 DEF Fits, Call, Ops, Tables
  <2>3. e \in Call /\ e.at = "failed" /\ e.op = c.op /\ e.pid = c.pid
    BY <1>0 DEF Call, Places
  <2>4. Fits(e)
    BY <2>2, <2>3 DEF Fits, Tables
  <2>5. /\ d \in Call /\ d.op = c.op /\ d.pid = c.pid /\ d.got = adapter
        /\ d.at = IF c.side = "ctr" THEN "ctr" ELSE "basic"
    BY <1>0 DEF Call, Places, Tables, CoreOK
  <2>6. adapter # Gone => Fits(d)
    BY <1>0, <2>1, <2>2, <2>5 DEF Fits, Tables, Side
  <2>7. (adapter # Gone /\ call' = [call EXCEPT ![s] = d]) \/ call' = [call EXCEPT ![s] = e]
    BY <1>7 DEF Ask, CallsOK
  <2> QED
    BY <2>1, <2>3, <2>4, <2>5, <2>6, <2>7, OneCall
<1>8. CASE Write(s)
  <2>1. c.at \in Tables /\ ctrs' = ctrs
        /\ (call' = [call EXCEPT ![s] = AfterWrite(c)] \/ call' = [call EXCEPT ![s] = AfterError(c)])
    BY <1>8 DEF Write, core
  <2> QED
    BY <1>0, <2>1, AfterWriteFits, OneCall
<1>9. CASE MarkFilled(s)
  <2> DEFINE d == [c EXCEPT !.at = "ask", !.side = "ctr", !.got = Gone]
  <2>1. c.at = "mark" /\ ctrs' = ctrs
    BY <1>9 DEF MarkFilled, core
  <2>2. c.op \in {"list", "upload", "update"} /\ c.side \in {"wiiu", "ctr"} /\ c.pid \in PIDs
    BY <1>0, <2>1 DEF Fits, Call, Ops, Tables
  <2>3. d \in Call /\ d.at = "ask" /\ d.op = c.op /\ d.pid = c.pid
    BY <1>0 DEF Call, Places
  <2>4. c.op = "update" => Fits(d)
    BY <2>2, <2>3 DEF Fits, Tables
  <2>5. c.op = "list" => call' = [call EXCEPT ![s] = Onward(c, "look")]
    BY <1>9 DEF MarkFilled
  <2>6. c.op = "upload" => call' = [call EXCEPT ![s] = Idle]
    BY <1>9 DEF MarkFilled
  <2>7. c.op = "update" /\ c.side = "wiiu" => call' = [call EXCEPT ![s] = d]
    BY <1>9 DEF MarkFilled
  <2>8. c.op = "update" /\ c.side = "ctr" => call' = [call EXCEPT ![s] = Onward(c, "pick")]
    BY <1>9 DEF MarkFilled
  <2> QED
    BY <1>0, <2>1, <2>2, <2>3, <2>4, <2>5, <2>6, <2>7, <2>8, IdleFits, OnwardFits, OneCall
<1>10. CASE ServeOld(s)
  <2>1. c.op = "list" /\ ctrs' = ctrs
        /\ (call' = [call EXCEPT ![s] = Onward(c, "look")] \/ call' = [call EXCEPT ![s] = Idle])
    BY <1>10 DEF ServeOld, core
  <2> QED
    BY <1>0, <2>1, IdleFits, OnwardFits, OneCall
<1>11. CASE PassOver(s)
  <2>1. c.op = "update" /\ ctrs' = ctrs /\ call' = [call EXCEPT ![s] = Onward(c, "pick")]
    BY <1>11 DEF PassOver, core
  <2> QED
    BY <1>0, <2>1, OnwardFits, OneCall
<1>12. CASE ProfileUpdated(s)
  <2> DEFINE d == [Idle EXCEPT !.at = "delay", !.op = "update", !.todo = PIDsOfAccount]
  <2>1. d \in Call /\ d.at = "delay" /\ d.op = "update"
    BY IdleFits DEF Call, Places, Ops, PIDsOfAccount
  <2>2. Fits(d)
    BY <2>1 DEF Fits, Tables
  <2>3. ctrs' = ctrs /\ (call' = [call EXCEPT ![s] = d] \/ call' = call)
    BY <1>12 DEF ProfileUpdated
  <2> QED
    BY <2>1, <2>2, <2>3, OneCall DEF CallsOK, Fits, Side
<1>13. CASE Wake(s)
  <2> DEFINE d == [c EXCEPT !.at = "pick"]
  <2>1. d \in Call /\ d.at = "pick" /\ d.op = c.op
    BY <1>0 DEF Call, Places
  <2>2. Fits(d)
    BY <1>0, <1>13, <2>1 DEF Fits, Tables, Wake
  <2> QED
    BY <1>13, <2>1, <2>2, OneCall DEF Wake, core
<1> QED
  BY <1>1, <1>2, <1>3, <1>4, <1>5, <1>6, <1>7, <1>8, <1>9, <1>10, <1>11, <1>12, <1>13 DEF CallSteps

-----------------------------------------------------------------------------
\* An upsert leaves a row.
LEMMA UpsertedType ==
    ASSUME RowsOK, NEW t \in Tables, NEW p \in PIDs, NEW v \in Versions \cup {Bare}
    PROVE  Upserted(t, p, v) \in Versions \cup {Bare} /\ Upserted(t, p, v) # NoRow
BY Constants DEF RowsOK, Upserted

\* What a call writes, and where.
LEMMA WritesTyped ==
    ASSUME NEW s \in Procs, CallsOK, call[s].at \in Tables
    PROVE  call[s] \in Call /\ call[s].pid \in PIDs /\ call[s].got \in Versions \cup {Bare}
BY DEF CallsOK, Fits, Call

LEMMA FailType == RemovalOK /\ Fail => fails' \in 0 .. MaxFails
BY Constants DEF RemovalOK, Fail

\* What every step leaves as it is, it leaves in its range.
LEMMA StillOK ==
    /\ CoreOK /\ UNCHANGED core => CoreOK'
    /\ RowsOK /\ UNCHANGED rows => RowsOK'
    /\ MarksOK /\ UNCHANGED <<mark, overtaken>> => MarksOK'
    /\ CallsOK /\ UNCHANGED <<ctrs, call>> => CallsOK'
    /\ ConsoleOK /\ UNCHANGED console => ConsoleOK'
    /\ RemovalOK /\ UNCHANGED removal /\ (UNCHANGED fails \/ Fail) => RemovalOK'
BY FailType DEF CoreOK, core, RowsOK, MarksOK, CallsOK, Fits, Side, ConsoleOK, console, RemovalOK, removal

\* Every step of a call keeps everything in its range.
LEMMA CallStepTyped ==
    ASSUME NEW s \in Procs, CallSteps(s), Typed
    PROVE  Typed'
<1> USE DEF Typed
<1> DEFINE c == call[s]
<1>0. c \in Call /\ Fits(c) /\ CallsOK'
  BY CallStepFits DEF CallsOK
<1>1. ASSUME NEW S \in SUBSET PIDs, List(s, S) PROVE Typed'
  BY <1>0, <1>1, StillOK DEF List
<1>2. ASSUME NEW p \in PIDs, Settings(s, p) \/ SignIn(s, p) PROVE Typed'
  BY <1>0, <1>2, StillOK DEF Settings, SignIn
<1>3. ASSUME NEW p \in PIDs, Upload(s, p) PROVE Typed'
  <2>1. CoreOK'
    BY <1>3, Constants DEF Upload, CoreOK, Versions
  <2> QED
    BY <1>0, <1>3, <2>1, StillOK DEF Upload
<1>4. ASSUME NEW p \in PIDs, Look(s, p) PROVE Typed'
  BY <1>0, <1>4, StillOK DEF Look
<1>5. ASSUME NEW p \in PIDs, Pick(s, p) PROVE Typed'
  <2>1. MarksOK'
    BY <1>5 DEF Pick, MarksOK
  <2>2. UNCHANGED fails \/ Fail
    BY <1>5 DEF Pick
  <2> QED
    BY <1>0, <1>5, <2>1, <2>2, StillOK DEF Pick
<1>6. CASE Ask(s)
  <2>1. UNCHANGED fails \/ Fail
    BY <1>6 DEF Ask
  <2> QED
    BY <1>0, <1>6, <2>1, StillOK DEF Ask
<1>7. CASE Write(s)
  <2>1. c.at \in Tables /\ c.pid \in PIDs /\ c.got \in Versions \cup {Bare}
    BY <1>7, WritesTyped DEF Write
  <2>2. Upserted(c.at, c.pid, c.got) \in Versions \cup {NoRow, Bare}
    BY <2>1, UpsertedType
  <2>3. RowsOK'
    BY <1>7, <2>1, <2>2 DEF Write, RowsOK
  <2>4. MarksOK'
    BY <1>7, <2>1 DEF Write, MarksOK
  <2>5. UNCHANGED fails \/ Fail
    BY <1>7 DEF Write
  <2> QED
    BY <1>0, <1>7, <2>3, <2>4, <2>5, StillOK DEF Write
<1>8. CASE MarkFilled(s)
  <2>1. c.pid \in PIDs
    BY <1>0, <1>8 DEF MarkFilled, Fits
  <2>2. MarksOK'
    BY <1>8, <2>1 DEF MarkFilled, SetMark, MarksOK
  <2> QED
    BY <1>0, <1>8, <2>2, StillOK DEF MarkFilled
<1>9. CASE ServeOld(s)
  <2>1. c.pid \in PIDs
    BY <1>0, <1>9 DEF ServeOld, Fits
  <2>2. MarksOK'
    BY <1>9, <2>1 DEF ServeOld, MarksOK
  <2>3. UNCHANGED fails \/ Fail
    BY <1>9 DEF ServeOld
  <2> QED
    BY <1>0, <1>9, <2>2, <2>3, StillOK DEF ServeOld
<1>10. CASE PassOver(s)
  <2>1. c.pid \in PIDs
    BY <1>0, <1>10 DEF PassOver, Fits
  <2>2. MarksOK'
    BY <1>10, <2>1 DEF PassOver, MarksOK
  <2> QED
    BY <1>0, <1>10, <2>2, StillOK DEF PassOver
<1>11. CASE ProfileUpdated(s)
  <2>1. CoreOK'
    BY <1>11, Constants DEF ProfileUpdated, CoreOK, Versions
  <2>2. MarksOK'
    BY <1>11 DEF ProfileUpdated, MarksOK, PIDsOfAccount
  <2>3. UNCHANGED fails \/ Fail
    BY <1>11 DEF ProfileUpdated
  <2> QED
    BY <1>0, <1>11, <2>1, <2>2, <2>3, StillOK DEF ProfileUpdated
<1>12. CASE Wake(s)
  BY <1>0, <1>12, StillOK DEF Wake
<1> QED
  BY <1>1, <1>2, <1>3, <1>4, <1>5, <1>6, <1>7, <1>8, <1>9, <1>10, <1>11, <1>12 DEF CallSteps

LEMMA FinalType ==
    (adapter = Gone /\ \A p \in PIDs : visit[p] \notin {"entering", "enterWrites", "entered"}) \in BOOLEAN
BY Zenon

\* ... and so does every other step.
LEMMA StepTyped ==
    ASSUME Steps, Typed
    PROVE  Typed'
<1> USE DEF Typed
<1>1. CASE Update \/ Delete \/ AdapterCatchesUp
  <2>1. CoreOK' /\ ctrs' = ctrs
    BY <1>1, Constants DEF Update, Delete, AdapterCatchesUp, CoreOK, Versions
  <2> QED
    BY <1>1, <2>1, StillOK DEF Update, Delete, AdapterCatchesUp
<1>2. ASSUME NEW p \in PIDs, Expire(p) PROVE Typed'
  <2>1. MarksOK'
    BY <1>2 DEF Expire, MarksOK
  <2> QED
    BY <1>2, <2>1, StillOK DEF Expire, core
<1>3. ASSUME NEW p \in PIDs, Login(p) \/ Leave(p) \/ Enter(p) \/ LookLastOnline(p) PROVE Typed'
  <2>1. ConsoleOK'
    BY <1>3, Constants DEF Login, Leave, Enter, LookLastOnline, LastOnlineDone, ConsoleOK
  <2> QED
    BY <1>3, <2>1, StillOK DEF Login, Leave, Enter, LookLastOnline, core
<1>4. ASSUME NEW p \in PIDs, WriteLastOnline(p) PROVE Typed'
  <2>1. ConsoleOK'
    BY <1>4 DEF WriteLastOnline, LastOnlineDone, ConsoleOK
  <2>2. \A t \in Tables : Upserted(t, p, Bare) \in Versions \cup {NoRow, Bare}
    BY UpsertedType
  <2>3. RowsOK'
    BY <1>4, <2>2 DEF WriteLastOnline, RowsOK, Tables
  <2>4. UNCHANGED fails \/ Fail
    BY <1>4 DEF WriteLastOnline
  <2> QED
    BY <1>4, <2>1, <2>3, <2>4, StillOK DEF WriteLastOnline, core
<1>5. CASE Erase \/ Drop
  <2>1. RemovalOK'
    <3>1. CASE Erase
      BY <1>5, <3>1 DEF Erase, Asked, RemovalOK
    <3>2. CASE Drop
      <4>1. PICK b \in BOOLEAN : eraser' = [at |-> "commit", final |-> b]
        BY <3>2, FinalType, Zenon DEF Drop
      <4>2. UNCHANGED <<purge, erased, fails>>
        BY <3>2 DEF Drop
      <4> QED
        BY <4>1, <4>2 DEF RemovalOK
    <3> QED
      BY <1>5, <3>1, <3>2
  <2>2. ConsoleOK'
    BY <1>5 DEF Erase, Drop, ConsoleOK, console
  <2> QED
    BY <1>5, <2>1, <2>2, StillOK DEF Erase, Drop, core
<1>6. CASE Commit
  <2>1. RemovalOK'
    BY <1>6, FailType DEF Commit, RemovalOK
  <2>2. RowsOK'
    BY <1>6 DEF Commit, RowsOK
  <2> QED
    BY <1>6, <2>1, <2>2, StillOK DEF Commit, core
<1>7. CASE PurgeAsk
  <2>1. RemovalOK'
    <3>1. CachedPIDs \subseteq PIDs
      BY DEF CachedPIDs
    <3> QED
      BY <1>7, <3>1, FailType DEF PurgeAsk, RemovalOK, Tables
  <2> QED
    BY <1>7, <2>1, StillOK DEF PurgeAsk, core
<1>8. CASE PurgeDelete
  <2>1. RemovalOK'
    <3>1. PurgeNext[purge.at] \in Tables \cup {"ask", "done"}
      BY <1>8 DEF PurgeDelete, PurgeNext, Tables
    <3>2. purge' = [purge EXCEPT !.at = PurgeNext[purge.at]] \/ purge' = Again
      BY <1>8 DEF PurgeDelete
    <3>3. purge' \in [at : Tables \cup {"ask", "done"}, orphans : SUBSET PIDs]
      BY <3>1, <3>2 DEF Again, RemovalOK
    <3> QED
      BY <1>8, <3>3, FailType DEF PurgeDelete, RemovalOK
  <2>2. RowsOK'
    BY <1>8 DEF PurgeDelete, RowsOK
  <2> QED
    BY <1>8, <2>1, <2>2, StillOK DEF PurgeDelete, core
<1>9. CASE Restart
  <2>1. RemovalOK'
    BY <1>9, FailType DEF Restart, Again, RemovalOK
  <2>2. CallsOK'
    BY <1>9, IdleFits DEF Restart, CallsOK, Fits, Side, core
  <2>3. MarksOK'
    <3>1. \A u \in Updaters : call[u].todo \subseteq PIDs
      BY DEF CallsOK, Call, Procs
    <3> QED
      BY <1>9, <3>1 DEF Restart, MarksOK
  <2>4. ConsoleOK'
    BY <1>9 DEF Restart, ConsoleOK
  <2> QED
    BY <1>9, <2>1, <2>2, <2>3, <2>4, StillOK DEF Restart
<1> QED
  BY <1>1, <1>2, <1>3, <1>4, <1>5, <1>6, <1>7, <1>8, <1>9 DEF Steps

LEMMA NextTyped == Typed /\ [Next]_vars => Typed'
<1>1. Typed /\ UNCHANGED vars => Typed'
  BY StillOK DEF Typed, vars, core, console, removal
<1> QED
  BY <1>1, NextSteps, StepTyped, CallStepTyped

LEMMA InitTyped == Init => Typed
BY Constants, IdleFits DEF Init, Typed, CoreOK, RowsOK, MarksOK, CallsOK, Fits, Side, ConsoleOK, RemovalOK,
    Versions, Idle, Tables

\* Rows, marks and calls keep their shape, and no row is written from what
\* nn-account says of a deleted account (ensure_profiles.go, GetDeleted).
THEOREM TypeCorrect == Spec => []TypeOK
BY InitTyped, NextTyped, TypedIsTypeOK, PTL DEF Spec

-----------------------------------------------------------------------------
\* Nobody acts on a deletion that is not the core's.
GoneIsFinal ==
    /\ adapter = Gone => profile = Gone
    /\ eraser.at # "idle" => profile = Gone
    /\ purge.orphans # {} => profile = Gone

LEMMA GoneStays ==
    ASSUME [Next]_vars
    PROVE  /\ ctrs' = ctrs
           /\ profile = Gone => profile' = Gone
           /\ adapter' = adapter \/ adapter' = profile
           /\ adapter' # adapter => UNCHANGED <<profile, eraser, purge, rows, call, visit, erased>>
<1>1. ASSUME NEW s \in Procs, CallSteps(s) PROVE ctrs' = ctrs /\ (profile = Gone => profile' = Gone) /\ adapter' = adapter
  BY <1>1 DEF CallSteps, core, List, Settings, SignIn, Upload, Look, Pick, Ask, Write, MarkFilled, ServeOld, PassOver,
       ProfileUpdated, Wake
<1>2. CASE Steps
  BY <1>2 DEF Steps, core, removal, console, Update, Delete, AdapterCatchesUp, Expire, Login, Leave, LookLastOnline,
       WriteLastOnline, Enter, Erase, Drop, Commit, PurgeAsk, PurgeDelete, Restart
<1>3. CASE UNCHANGED vars
  BY <1>3 DEF vars
<1> QED
  BY <1>1, <1>2, <1>3, NextSteps

LEMMA GoneStep == Typed /\ GoneIsFinal /\ [Next]_vars => GoneIsFinal'
<1> SUFFICES ASSUME Typed, GoneIsFinal, [Next]_vars PROVE GoneIsFinal'
  OBVIOUS
<1>1. UNCHANGED <<eraser, purge>> => GoneIsFinal'
  BY GoneStays DEF GoneIsFinal
<1>2. ASSUME NEW s \in Procs, CallSteps(s) PROVE UNCHANGED <<eraser, purge>>
  BY <1>2 DEF CallSteps, removal, List, Settings, SignIn, Upload, Look, Pick, Ask, Write, MarkFilled, ServeOld,
       PassOver, ProfileUpdated, Wake
<1>3. CASE Update \/ Delete \/ AdapterCatchesUp \/ \E p \in PIDs : Expire(p) \/ Login(p) \/ Leave(p)
             \/ LookLastOnline(p) \/ WriteLastOnline(p) \/ Enter(p)
  BY <1>1, <1>3 DEF removal, Update, Delete, AdapterCatchesUp, Expire, Login, Leave, LookLastOnline, WriteLastOnline, Enter
<1>4. CASE Erase \/ Drop \/ Commit
  BY <1>4 DEF Erase, Drop, Commit, Asked, core, GoneIsFinal, Typed, RemovalOK
<1>5. CASE PurgeAsk
  BY <1>5 DEF PurgeAsk, core, GoneIsFinal
<1>6. CASE PurgeDelete
  BY <1>6 DEF PurgeDelete, Again, core, GoneIsFinal, Typed, RemovalOK
<1>7. CASE Restart
  BY <1>7 DEF Restart, Again, core, GoneIsFinal
<1>8. CASE UNCHANGED vars
  BY <1>1, <1>8 DEF vars
<1> QED
  BY <1>1, <1>2, <1>3, <1>4, <1>5, <1>6, <1>7, <1>8, NextSteps DEF Steps

\* Only the DELETEs take rows away.
LEMMA RowsStay ==
    ASSUME Typed, GoneIsFinal, [Next]_vars, profile # Gone, NEW t \in Tables, NEW p \in PIDs, rows[t][p] # NoRow
    PROVE  rows'[t][p] # NoRow
<1>1. CASE UNCHANGED rows
  BY <1>1
<1>2. ASSUME NEW s \in Procs, Write(s) PROVE rows'[t][p] # NoRow
  <2>1. call[s].at \in Tables /\ call[s].pid \in PIDs /\ call[s].got \in Versions \cup {Bare}
    BY <1>2, WritesTyped DEF Write, Typed
  <2>2. Upserted(call[s].at, call[s].pid, call[s].got) # NoRow
    BY <2>1, UpsertedType DEF Typed
  <2> QED
    BY <1>2, <2>1, <2>2 DEF Write, Typed, RowsOK
<1>3. ASSUME NEW q \in PIDs, WriteLastOnline(q) PROVE rows'[t][p] # NoRow
  <2>1. \A u \in Tables : Upserted(u, q, Bare) # NoRow
    BY UpsertedType DEF Typed
  <2> QED
    BY <1>3, <2>1 DEF WriteLastOnline, Typed, RowsOK, Tables
<1>4. CASE Commit
  BY <1>4 DEF Commit, GoneIsFinal
<1>5. CASE PurgeDelete
  BY <1>5 DEF PurgeDelete, GoneIsFinal, Typed, RowsOK
<1>6. ASSUME NEW s \in Procs, CallSteps(s) PROVE UNCHANGED rows \/ Write(s)
  BY <1>6 DEF CallSteps, List, Settings, SignIn, Upload, Look, Pick, Ask, MarkFilled, ServeOld, PassOver,
       ProfileUpdated, Wake
<1>7. CASE Steps
  BY <1>1, <1>3, <1>4, <1>5, <1>7 DEF Steps, Update, Delete, AdapterCatchesUp, Expire, Login, Leave, LookLastOnline,
       Enter, Erase, Drop, PurgeAsk, Restart
<1>8. CASE UNCHANGED vars
  BY <1>1, <1>8 DEF vars
<1> QED
  BY <1>1, <1>2, <1>6, <1>7, <1>8, NextSteps

LEMMA InitGone == Init => GoneIsFinal
BY Constants DEF Init, GoneIsFinal, Versions

\* coreevents/profile.go: rows disappear only when the account does, however often
\* the purge fails and starts again and whatever an erasure does meanwhile.
THEOREM TheLivingAreKept == Spec => KeepsTheLiving
<1>1. Typed /\ GoneIsFinal /\ [Next]_vars =>
        [\A t \in Tables, p \in PIDs : rows[t][p] # NoRow /\ rows'[t][p] = NoRow => profile = Gone]_vars
  BY RowsStay
<1> QED
  BY <1>1, InitTyped, NextTyped, InitGone, GoneStep, PTL DEF Spec, KeepsTheLiving

-----------------------------------------------------------------------------
\* A PID with any row has the one its platform's lists begin with, and so has a
\* PID whose call is about to mark it.
Joined == \A p \in PIDs : rows["basic"][p] # NoRow \/ rows["ctr"][p] # NoRow => HasProfileRow(p)
Wrote(c) ==
    \/ c.at = "mark"
    \/ c.op = "list" /\ c.at \in {"mii", "user"}
    \/ c.op = "update" /\ c.at \in Tables \cup {"ask"}
Behind(s) == Wrote(call[s]) => HasProfileRow(call[s].pid)
Served == profile # Gone => Joined /\ ServedHasRow /\ \A s \in Procs : Behind(s)

\* The steps of an account that is there, and what a step leaves of the row.
Living == Typed /\ GoneIsFinal /\ Served /\ [Next]_vars /\ profile # Gone
RowAfter(p) == rows'[IF p \in ctrs' THEN "ctr" ELSE "basic"][p] # NoRow

LEMMA ProfileRowStays ==
    ASSUME Living, NEW p \in PIDs, HasProfileRow(p)
    PROVE  RowAfter(p)
BY RowsStay, GoneStays DEF Living, HasProfileRow, RowAfter, Tables

\* A call that moves on, when it has not written or its row is there.
LEMMA BehindMoves ==
    ASSUME Living, NEW s \in Procs, NEW d, call' = [call EXCEPT ![s] = d],
           Wrote(d) => RowAfter(d.pid)
    PROVE  \A r \in Procs : Behind(r)'
<1> SUFFICES ASSUME NEW r \in Procs, Wrote(call'[r]) PROVE RowAfter(call'[r].pid)
  BY DEF Behind, Wrote, HasProfileRow, RowAfter
<1>1. CASE r = s
  BY <1>1 DEF Living, Typed, CallsOK
<1>2. CASE r # s
  <2>1. call'[r] = call[r] /\ call[r] \in Call /\ Fits(call[r])
    BY <1>2 DEF Living, Typed, CallsOK
  <2>2. call[r].pid \in PIDs
    BY <2>1 DEF Fits, Wrote, Tables
  <2>3. HasProfileRow(call[r].pid)
    BY <2>1 DEF Living, Served, Behind
  <2> QED
    BY <2>1, <2>2, <2>3, ProfileRowStays
<1> QED
  BY <1>1, <1>2

\* The PID of an idle call, or of one that has its next PID to find, is not
\* spoken for.
LEMMA OnwardWrote ==
    /\ ~Wrote(Idle)
    /\ \A c \in Call : /\ c.op = "list" => ~Wrote(Onward(c, "look"))
                       /\ c.op = "update" => ~Wrote(Onward(c, "pick"))
<1>1. ~Wrote(Idle)
  BY DEF Wrote, Idle, Tables
<1>2. ASSUME NEW c \in Call, NEW next \in {"look", "pick"}
      PROVE  ~Wrote([Idle EXCEPT !.at = next, !.op = c.op, !.todo = c.todo \ {c.pid}])
  BY IdleFits DEF Wrote, Call, Tables
<1> QED
  BY <1>1, <1>2 DEF Onward

\* What a statement of a call leaves.
LEMMA WriteServes ==
    ASSUME Living, NEW s \in Procs, Write(s)
    PROVE  Joined' /\ \A r \in Procs : Behind(r)'
<1> DEFINE c == call[s]
<1>1. c.at \in Tables /\ c \in Call /\ Fits(c) /\ c.pid \in PIDs /\ c.got \in Versions \cup {Bare} /\ ctrs' = ctrs
  BY WritesTyped, GoneStays DEF Write, Living, Typed, CallsOK
<1>2. Upserted(c.at, c.pid, c.got) # NoRow
  BY <1>1, UpsertedType DEF Living, Typed
<1>3. Wrote(c) => RowAfter(c.pid)
  BY <1>1, ProfileRowStays DEF Living, Served, Behind
<1>4. CASE /\ rows' = [rows EXCEPT ![c.at][c.pid] = Upserted(c.at, c.pid, c.got)]
           /\ call' = [call EXCEPT ![s] = AfterWrite(c)]
  <2>1. rows'[c.at][c.pid] # NoRow
    BY <1>1, <1>2, <1>4 DEF Living, Typed, RowsOK
  <2>2. c.at \in {"basic", "ctr"} => RowAfter(c.pid)
    <3>1. CASE c.op = "update"
      BY <1>3, <3>1 DEF Wrote, Tables
    <3>2. CASE c.op # "update"
      BY <1>1, <2>1, <3>2 DEF Fits, RowAfter
    <3> QED
      BY <3>1, <3>2
  <2>3. Joined'
    <3> SUFFICES ASSUME NEW p \in PIDs, NEW t \in {"basic", "ctr"}, rows'[t][p] # NoRow
                 PROVE  RowAfter(p)
      BY DEF Joined, HasProfileRow, RowAfter
    <3>1. CASE t = c.at /\ p = c.pid
      BY <2>2, <3>1
    <3>2. CASE ~(t = c.at /\ p = c.pid)
      <4>1. rows[t][p] # NoRow
        BY <1>1, <1>4, <3>2 DEF Living, Typed, RowsOK, Tables
      <4> QED
        BY <4>1, ProfileRowStays DEF Living, Served, Joined
    <3> QED
      BY <3>1, <3>2
  <2>4. Wrote(AfterWrite(c)) => RowAfter(AfterWrite(c).pid)
    <3> DEFINE d(place) == [c EXCEPT !.at = place]
    <3>1. \A place \in Places : d(place).at = place /\ d(place).op = c.op /\ d(place).pid = c.pid
      BY <1>1 DEF Call
    <3>2. {"mii", "user", "mark"} \subseteq Places
      BY DEF Places, Tables
    <3> HIDE DEF d
    <3>3. CASE c.at = "basic"
      <4>1. AfterWrite(c) = d("mii")
        BY <3>3 DEF AfterWrite, d
      <4> QED
        BY <1>1, <2>2, <3>1, <3>2, <3>3, <4>1
    <3>4. CASE c.at = "mii" /\ c.op # "signin"
      <4>1. AfterWrite(c) = d("user")
        BY <3>4 DEF AfterWrite, d
      <4>2. Wrote(d("user")) => Wrote(c)
        BY <3>1, <3>2, <3>4 DEF Wrote, Tables
      <4> QED
        BY <1>1, <1>3, <3>1, <3>2, <4>1, <4>2
    <3>5. CASE c.at \in {"user", "ctr"} /\ c.op # "settings"
      <4>1. AfterWrite(c) = d("mark")
        BY <3>5 DEF AfterWrite, d
      <4>2. c.at = "user" => Wrote(c)
        BY <1>1, <3>5 DEF Wrote, Tables, Fits, Call, Ops
      <4> QED
        BY <1>1, <1>3, <2>2, <3>1, <3>2, <3>5, <4>1, <4>2
    <3>6. CASE (c.at = "mii" /\ c.op = "signin") \/ (c.at \in {"user", "ctr"} /\ c.op = "settings")
      BY <3>6, OnwardWrote DEF AfterWrite
    <3> QED
      BY <1>1, <3>3, <3>4, <3>5, <3>6 DEF Tables
  <2> QED
    BY <1>4, <2>3, <2>4, BehindMoves
<1>5. CASE UNCHANGED rows /\ call' = [call EXCEPT ![s] = AfterError(c)]
  <2>1. Joined'
    BY <1>1, <1>5 DEF Living, Served, Joined, HasProfileRow
  <2>2. ~Wrote(AfterError(c))
    <3>1. [c EXCEPT !.at = "failed"].at = "failed"
      BY <1>1 DEF Call
    <3> QED
      BY <3>1, OnwardWrote DEF AfterError, Wrote, Tables
  <2> QED
    BY <1>5, <2>1, <2>2, BehindMoves
<1> QED
  BY <1>4, <1>5 DEF Write

\* Where the rows stay, so does what they say of each other.
LEMMA JoinedStays == Joined /\ UNCHANGED <<ctrs, rows>> => Joined'
BY DEF Joined, HasProfileRow

\* A mark is set where there is a row, and rows stay.
LEMMA MarksServe ==
    ASSUME Living, \A p \in PIDs : mark'[p] = mark[p] \/ mark'[p] = "none" \/ RowAfter(p)
    PROVE  ServedHasRow'
<1> SUFFICES ASSUME NEW p \in PIDs, mark'[p] # "none" PROVE RowAfter(p)
  BY DEF ServedHasRow, Fresh, HasProfileRow, RowAfter
<1>1. CASE mark'[p] = mark[p]
  BY <1>1, ProfileRowStays DEF Living, Served, ServedHasRow, Fresh
<1> QED
  BY <1>1

\* Every step of a call leaves what is marked with its row.
LEMMA CallStepServes ==
    ASSUME Living, NEW s \in Procs, CallSteps(s)
    PROVE  Served'
<1> DEFINE c == call[s]
<1>0. c \in Call /\ Fits(c) /\ ctrs' = ctrs
  BY GoneStays DEF Living, Typed, CallsOK
<1> SUFFICES Joined' /\ ServedHasRow' /\ \A r \in Procs : Behind(r)'
  BY DEF Served
<1>1. UNCHANGED mark => ServedHasRow'
  BY MarksServe
<1>2. UNCHANGED rows => Joined'
  BY <1>0, JoinedStays DEF Living, Served
<1>3. Wrote(c) => RowAfter(c.pid)
  BY <1>0, ProfileRowStays DEF Living, Served, Behind, Wrote, Fits, Tables
<1>4. ASSUME NEW S \in SUBSET PIDs, List(s, S) PROVE Joined' /\ ServedHasRow' /\ \A r \in Procs : Behind(r)'
  <2>1. ~Wrote([Idle EXCEPT !.at = "look", !.op = "list", !.todo = S])
    BY IdleFits DEF Wrote, Call, Tables
  <2> QED
    BY <1>1, <1>2, <1>4, <2>1, BehindMoves DEF List
<1>5. ASSUME NEW p \in PIDs, Settings(s, p) PROVE Joined' /\ ServedHasRow' /\ \A r \in Procs : Behind(r)'
  <2>1. ~Wrote([Idle EXCEPT !.at = IF p \in ctrs THEN "ctr" ELSE "user", !.op = "settings", !.pid = p, !.got = Bare])
    BY IdleFits DEF Wrote, Call
  <2> QED
    BY <1>1, <1>2, <1>5, <2>1, BehindMoves DEF Settings
<1>6. ASSUME NEW p \in PIDs, SignIn(s, p) PROVE Joined' /\ ServedHasRow' /\ \A r \in Procs : Behind(r)'
  <2>1. PICK v \in Versions :
          call' = [call EXCEPT ![s] = [Idle EXCEPT !.at = "basic", !.op = "signin", !.pid = p, !.got = v]]
    BY <1>6 DEF SignIn
  <2>2. ~Wrote([Idle EXCEPT !.at = "basic", !.op = "signin", !.pid = p, !.got = v])
    BY IdleFits DEF Wrote, Call
  <2> QED
    BY <1>1, <1>2, <1>6, <2>1, <2>2, BehindMoves DEF SignIn
<1>7. ASSUME NEW p \in PIDs, Upload(s, p) PROVE Joined' /\ ServedHasRow' /\ \A r \in Procs : Behind(r)'
  <2> DEFINE v == IF profile = Gone THEN 0 ELSE profile + 1
  <2>1. ~Wrote([Idle EXCEPT !.at = "ctr", !.op = "upload", !.pid = p, !.got = v])
    BY IdleFits DEF Wrote, Call
  <2> QED
    BY <1>1, <1>2, <1>7, <2>1, BehindMoves DEF Upload
<1>8. ASSUME NEW p \in PIDs, Look(s, p) PROVE Joined' /\ ServedHasRow' /\ \A r \in Procs : Behind(r)'
  <2> DEFINE f == [c EXCEPT !.pid = p]
             d == [c EXCEPT !.at = "ask", !.pid = p, !.side = Side(p)]
  <2>1. c.op = "list"
    BY <1>0, <1>8 DEF Look, Fits
  <2>2. f \in Call /\ f.op = "list" /\ d.op = "list" /\ d.at = "ask"
    BY <1>0, <2>1 DEF Call
  <2>3. ~Wrote(d)
    BY <2>2 DEF Wrote, Tables
  <2>4. ~Wrote(Onward(f, "look"))
    BY <2>2, OnwardWrote
  <2>5. call' = [call EXCEPT ![s] = IF Fresh(p) THEN Onward(f, "look") ELSE d]
    BY <1>8 DEF Look
  <2> QED
    BY <1>1, <1>2, <1>8, <2>3, <2>4, <2>5, BehindMoves DEF Look
<1>9. ASSUME NEW p \in PIDs, Pick(s, p) PROVE Joined' /\ ServedHasRow' /\ \A r \in Procs : Behind(r)'
  <2> DEFINE f == [c EXCEPT !.pid = p, !.side = "wiiu"]
             d == [f EXCEPT !.at = "ask"]
             known == rows["basic"][p] # NoRow \/ rows["ctr"][p] # NoRow
  <2>1. f \in Call /\ f.op = "update" /\ f.pid = p
    BY <1>0, <1>9 DEF Pick, Fits, Call
  <2>2. d.at = "ask" /\ d.pid = p
    BY <2>1 DEF Call
  <2>3. ~Wrote(Onward(f, "pick"))
    BY <2>1, OnwardWrote
  <2>4. known => RowAfter(p)
    BY ProfileRowStays DEF Living, Served, Joined
  <2>5. (known /\ call' = [call EXCEPT ![s] = d]) \/ call' = [call EXCEPT ![s] = Onward(f, "pick")]
    BY <1>9 DEF Pick
  <2>6. \A r \in Procs : Behind(r)'
    BY <2>2, <2>3, <2>4, <2>5, BehindMoves
  <2>7. ServedHasRow'
    BY <1>9, MarksServe DEF Pick, Living, Typed, MarksOK
  <2> QED
    BY <1>2, <1>9, <2>6, <2>7 DEF Pick
<1>10. CASE Ask(s)
  <2> DEFINE d == [c EXCEPT !.at = IF c.side = "ctr" THEN "ctr" ELSE "basic", !.got = adapter]
             e == [c EXCEPT !.at = "failed"]
  <2>1. /\ d.op = c.op /\ d.pid = c.pid /\ d.at = IF c.side = "ctr" THEN "ctr" ELSE "basic"
        /\ e.op = c.op /\ e.at = "failed"
    BY <1>0 DEF Call
  <2>2. ~Wrote(e)
    BY <2>1 DEF Wrote, Tables
  <2>3. Wrote(d) => Wrote(c)
    BY <1>10, <2>1 DEF Wrote, Tables, Ask
  <2>4. call' = [call EXCEPT ![s] = d] \/ call' = [call EXCEPT ![s] = e]
    BY <1>10 DEF Ask, Living, Typed, CallsOK
  <2>5. Wrote(d) => RowAfter(d.pid)
    BY <1>3, <2>1, <2>3
  <2>6. \A r \in Procs : Behind(r)'
    <3> HIDE DEF d, e
    <3> QED
      BY <2>2, <2>4, <2>5, BehindMoves
  <2> QED
    BY <1>1, <1>2, <1>10, <2>6 DEF Ask
<1>11. CASE Write(s)
  BY <1>1, <1>11, WriteServes DEF Write
<1>12. CASE MarkFilled(s)
  <2> DEFINE d == [c EXCEPT !.at = "ask", !.side = "ctr", !.got = Gone]
  <2>1. c.at = "mark" /\ c.op \in {"list", "upload", "update"} /\ c.side \in {"wiiu", "ctr"} /\ c.pid \in PIDs
    BY <1>0, <1>12 DEF MarkFilled, Fits, Call, Ops, Tables
  <2>2. RowAfter(c.pid)
    BY <1>3, <2>1 DEF Wrote
  <2>3. d.pid = c.pid
    BY <1>0 DEF Call
  <2>4. \/ c.op = "list" /\ call' = [call EXCEPT ![s] = Onward(c, "look")]
        \/ call' = [call EXCEPT ![s] = Idle]
        \/ call' = [call EXCEPT ![s] = d]
        \/ c.op = "update" /\ call' = [call EXCEPT ![s] = Onward(c, "pick")]
    <3>1. c.op = "list" => call' = [call EXCEPT ![s] = Onward(c, "look")]
      BY <1>12 DEF MarkFilled
    <3>2. c.op = "upload" => call' = [call EXCEPT ![s] = Idle]
      BY <1>12 DEF MarkFilled
    <3>3. c.op = "update" /\ c.side = "wiiu" => call' = [call EXCEPT ![s] = d]
      BY <1>12 DEF MarkFilled
    <3>4. c.op = "update" /\ c.side = "ctr" => call' = [call EXCEPT ![s] = Onward(c, "pick")]
      BY <1>12 DEF MarkFilled
    <3> QED
      BY <2>1, <3>1, <3>2, <3>3, <3>4
  <2>5. \A r \in Procs : Behind(r)'
    BY <1>0, <2>2, <2>3, <2>4, OnwardWrote, BehindMoves
  <2>6. ServedHasRow'
    BY <1>12, <2>2, MarksServe DEF MarkFilled, SetMark, Living, Typed, MarksOK
  <2> QED
    BY <1>2, <1>12, <2>5, <2>6 DEF MarkFilled
<1>13. CASE ServeOld(s)
  <2>1. c.op = "list" /\ c.pid \in PIDs
    BY <1>0, <1>13 DEF ServeOld, Fits
  <2>2. call' = [call EXCEPT ![s] = Onward(c, "look")] \/ call' = [call EXCEPT ![s] = Idle]
    BY <1>13 DEF ServeOld
  <2>3. \A r \in Procs : Behind(r)'
    BY <1>0, <2>1, <2>2, OnwardWrote, BehindMoves
  <2>4. HasProfileRow(c.pid) => RowAfter(c.pid)
    BY <2>1, ProfileRowStays
  <2>5. ServedHasRow'
    BY <1>13, <2>4, MarksServe DEF ServeOld, Living, Typed, MarksOK
  <2> QED
    BY <1>2, <1>13, <2>3, <2>5 DEF ServeOld
<1>14. CASE PassOver(s)
  <2>1. c.op = "update" /\ call' = [call EXCEPT ![s] = Onward(c, "pick")]
    BY <1>14 DEF PassOver
  <2>2. \A r \in Procs : Behind(r)'
    BY <1>0, <2>1, OnwardWrote, BehindMoves
  <2> QED
    BY <1>1, <1>2, <1>14, <2>2 DEF PassOver
<1>15. CASE ProfileUpdated(s)
  <2> DEFINE d == [Idle EXCEPT !.at = "delay", !.op = "update", !.todo = PIDsOfAccount]
  <2>1. ~Wrote(d) /\ ~Wrote(Idle)
    BY IdleFits, OnwardWrote DEF Wrote, Call, Tables
  <2>2. call[s] = Idle /\ (call' = [call EXCEPT ![s] = d] \/ call' = [call EXCEPT ![s] = Idle])
    BY <1>15 DEF ProfileUpdated, Living, Typed, CallsOK
  <2>3. \A r \in Procs : Behind(r)'
    BY <2>1, <2>2, BehindMoves
  <2>4. ServedHasRow'
    BY <1>15, MarksServe DEF ProfileUpdated
  <2> QED
    BY <1>2, <1>15, <2>3, <2>4 DEF ProfileUpdated
<1>16. CASE Wake(s)
  <2>1. ~Wrote([c EXCEPT !.at = "pick"])
    BY <1>0 DEF Wrote, Call, Tables
  <2> QED
    BY <1>1, <1>2, <1>16, <2>1, BehindMoves DEF Wake
<1> QED
  BY <1>4, <1>5, <1>6, <1>7, <1>8, <1>9, <1>10, <1>11, <1>12, <1>13, <1>14, <1>15, <1>16 DEF CallSteps

\* ... and so does every other step.
LEMMA StepServes ==
    ASSUME Living, Steps
    PROVE  Served'
<1>0. ctrs' = ctrs
  BY GoneStays DEF Living
<1> SUFFICES Joined' /\ ServedHasRow' /\ \A r \in Procs : Behind(r)'
  BY DEF Served
<1>1. UNCHANGED call => \A r \in Procs : Behind(r)'
  <2> SUFFICES ASSUME UNCHANGED call, NEW r \in Procs, Wrote(call[r]) PROVE RowAfter(call[r].pid)
    BY DEF Behind, HasProfileRow, RowAfter
  <2>1. HasProfileRow(call[r].pid) /\ call[r].pid \in PIDs
    BY DEF Living, Served, Behind, Typed, CallsOK, Fits, Wrote, Tables
  <2> QED
    BY <2>1, ProfileRowStays
<1>2. UNCHANGED mark => ServedHasRow'
  BY MarksServe
<1>3. UNCHANGED rows => Joined'
  BY <1>0, JoinedStays DEF Living, Served
<1>4. ASSUME NEW p \in PIDs, Expire(p) PROVE Joined' /\ ServedHasRow' /\ \A r \in Procs : Behind(r)'
  <2>1. ServedHasRow'
    BY <1>4, MarksServe DEF Expire, Living, Typed, MarksOK
  <2> QED
    BY <1>1, <1>3, <1>4, <2>1 DEF Expire
<1>5. ASSUME NEW p \in PIDs, WriteLastOnline(p) PROVE Joined' /\ ServedHasRow' /\ \A r \in Procs : Behind(r)'
  <2>1. Upserted("ctr", p, Bare) # NoRow
    BY UpsertedType DEF Living, Typed, Tables
  <2>2. Joined'
    <3> SUFFICES ASSUME NEW q \in PIDs, NEW t \in {"basic", "ctr"}, rows'[t][q] # NoRow PROVE RowAfter(q)
      BY DEF Joined, HasProfileRow, RowAfter
    <3>1. CASE rows[t][q] # NoRow
      BY <3>1, ProfileRowStays DEF Living, Served, Joined
    <3>2. CASE rows[t][q] = NoRow
      <4>1. t = "ctr" /\ q = p /\ p \in ctrs
        BY <1>5, <3>2 DEF WriteLastOnline, Living, Typed, RowsOK, Tables
      <4> QED
        BY <1>0, <4>1 DEF RowAfter
    <3> QED
      BY <3>1, <3>2
  <2> QED
    BY <1>1, <1>2, <1>5, <2>2 DEF WriteLastOnline
<1>6. CASE Commit
  BY <1>6 DEF Commit, Living, GoneIsFinal
<1>7. CASE PurgeDelete
  <2>1. UNCHANGED rows
    BY <1>7 DEF PurgeDelete, Living, GoneIsFinal, Typed, RowsOK
  <2> QED
    BY <1>1, <1>2, <1>3, <1>7, <2>1 DEF PurgeDelete
<1>8. CASE Restart
  <2>1. ServedHasRow'
    BY <1>8, MarksServe DEF Restart
  <2>2. \A r \in Procs : Behind(r)'
    <3>1. \A r \in Procs : call'[r] = Idle
      BY <1>8 DEF Restart
    <3>2. \A r \in Procs : ~Wrote(call'[r])
      BY <3>1, OnwardWrote
    <3> QED
      BY <3>2 DEF Behind, Wrote
  <2> QED
    BY <1>3, <1>8, <2>1, <2>2 DEF Restart
<1>9. CASE Update \/ Delete \/ AdapterCatchesUp \/ Erase \/ Drop \/ PurgeAsk
             \/ \E p \in PIDs : Login(p) \/ Leave(p) \/ LookLastOnline(p) \/ Enter(p)
  <2>1. UNCHANGED <<rows, mark, call>>
    BY <1>9 DEF Update, Delete, AdapterCatchesUp, Login, Leave, LookLastOnline, Enter, Erase, Drop, PurgeAsk
  <2> QED
    BY <1>1, <1>2, <1>3, <2>1
<1> QED
  BY <1>4, <1>5, <1>6, <1>7, <1>8, <1>9 DEF Steps

LEMMA ServedStep == Typed /\ GoneIsFinal /\ Served /\ [Next]_vars => Served'
<1>1. [Next]_vars /\ profile = Gone => Served'
  BY GoneStays DEF Served
<1>2. Served /\ UNCHANGED vars => Served'
  BY DEF Served, vars, Joined, HasProfileRow, ServedHasRow, Fresh, Behind, Wrote
<1> QED
  BY <1>1, <1>2, NextSteps, CallStepServes, StepServes DEF Living

LEMMA InitServed == Init => Served
BY DEF Init, Served, Joined, ServedHasRow, Fresh, Behind, Wrote, Idle, Tables

\* database/wiiu/ensure_profiles.go and the 3DS one: while the account lives a PID
\* with a mark has the row its lists join, for any number of PIDs, calls and
\* goroutines, whatever fails between the statements.
THEOREM TheServedHaveRows == Spec => []ServedHasRow
<1>1. Served => ServedHasRow
  BY DEF Served, ServedHasRow
<1> QED
  BY <1>1, InitTyped, NextTyped, InitGone, GoneStep, InitServed, ServedStep, PTL DEF Spec

-----------------------------------------------------------------------------
\* After a final Drop nobody is connected and nobody comes.  After a clean erasure
\* nothing is left that writes.
Departed(p) == visit[p] \in {"off", "leaving", "leaveWrites"}
Quiet == eraser.final => eraser.at = "commit" /\ adapter = Gone /\ \A p \in PIDs : Departed(p)
Empty == \A t \in Tables, p \in PIDs : rows[t][p] = NoRow
Clean == erased = "clean" =>
    /\ adapter = Gone
    /\ \A p \in PIDs : visit[p] = "off"
    /\ \A s \in Procs : call[s].at \notin Tables
    /\ Empty

LEMMA GoneForGood == GoneIsFinal /\ [Next]_vars /\ adapter = Gone => adapter' = Gone
BY GoneStays DEF GoneIsFinal

\* Without nn-account nobody logs in.
LEMMA DepartedStay ==
    ASSUME Typed, [Next]_vars, adapter = Gone, NEW p \in PIDs, Departed(p)
    PROVE  Departed(p)' /\ (visit[p] = "off" => visit'[p] = "off")
<1>1. CASE UNCHANGED visit
  BY <1>1 DEF Departed
<1>2. ASSUME NEW s \in Procs, CallSteps(s) PROVE UNCHANGED visit
  BY <1>2 DEF CallSteps, console, List, Settings, SignIn, Upload, Look, Pick, Ask, Write, MarkFilled, ServeOld,
       PassOver, ProfileUpdated, Wake
<1>3. ASSUME NEW q \in PIDs, Login(q) \/ Leave(q) \/ LookLastOnline(q) \/ WriteLastOnline(q) \/ Enter(q)
      PROVE  Departed(p)' /\ (visit[p] = "off" => visit'[p] = "off")
  BY <1>3 DEF Login, Leave, LookLastOnline, WriteLastOnline, Enter, LastOnlineDone, Departed, Typed, ConsoleOK
<1>4. CASE Drop \/ Restart
  BY <1>4 DEF Drop, Restart, Departed
<1>5. CASE Steps
  BY <1>1, <1>3, <1>4, <1>5 DEF Steps, console, Update, Delete, AdapterCatchesUp, Expire, Erase, Commit, PurgeAsk,
       PurgeDelete
<1>6. CASE UNCHANGED vars
  BY <1>1, <1>6 DEF vars
<1> QED
  BY <1>1, <1>2, <1>5, <1>6, NextSteps

\* A step of a call never starts a write once nobody is connected and nn-account
\* answers for the account no more.
LEMMA NobodyWrites ==
    ASSUME Typed, NEW s \in Procs, CallSteps(s), adapter = Gone, \A p \in PIDs : visit[p] = "off",
           \A r \in Procs : call[r].at \notin Tables
    PROVE  (\A r \in Procs : call'[r].at \notin Tables) /\ UNCHANGED <<rows, eraser, erased>>
<1> DEFINE c == call[s]
<1>0. c \in Call /\ c.at \notin Tables /\ Fits(c)
  BY DEF Typed, CallsOK
<1>1. UNCHANGED <<rows, eraser, erased>>
  BY DEF CallSteps, removal, List, Settings, SignIn, Upload, Look, Pick, Ask, Write, MarkFilled, ServeOld, PassOver,
     ProfileUpdated, Wake
<1>2. \A d \in Call, next \in {"look", "pick"} : Onward(d, next).at \notin Tables
  <2>1. \A d \in Call, next \in {"look", "pick"} :
          [Idle EXCEPT !.at = next, !.op = d.op, !.todo = d.todo \ {d.pid}].at = next
    BY IdleFits DEF Call
  <2> QED
    BY <2>1 DEF Onward, Idle, Tables
<1>3. \A d : call' = [call EXCEPT ![s] = d] /\ d.at \notin Tables => \A r \in Procs : call'[r].at \notin Tables
  BY DEF Typed, CallsOK
<1>4. Idle.at \notin Tables
  BY DEF Idle, Tables
<1>5. ASSUME NEW S \in SUBSET PIDs, List(s, S) PROVE \A r \in Procs : call'[r].at \notin Tables
  <2>1. [Idle EXCEPT !.at = "look", !.op = "list", !.todo = S].at \notin Tables
    BY IdleFits DEF Call, Tables
  <2> QED
    BY <1>3, <1>5, <2>1 DEF List
<1>6. ASSUME NEW p \in PIDs PROVE ~Settings(s, p) /\ ~SignIn(s, p) /\ ~Upload(s, p)
  BY DEF Settings, SignIn, Upload
<1>7. ASSUME NEW p \in PIDs, Look(s, p) PROVE \A r \in Procs : call'[r].at \notin Tables
  <2>1. [c EXCEPT !.pid = p] \in Call /\ [c EXCEPT !.at = "ask", !.pid = p, !.side = Side(p)].at \notin Tables
    BY <1>0 DEF Call, Tables
  <2>2. call' = [call EXCEPT ![s] = IF Fresh(p) THEN Onward([c EXCEPT !.pid = p], "look")
                                    ELSE [c EXCEPT !.at = "ask", !.pid = p, !.side = Side(p)]]
    BY <1>7 DEF Look
  <2> QED
    BY <1>2, <1>3, <2>1, <2>2
<1>8. ASSUME NEW p \in PIDs, Pick(s, p) PROVE \A r \in Procs : call'[r].at \notin Tables
  <2> DEFINE f == [c EXCEPT !.pid = p, !.side = "wiiu"]
  <2>1. f \in Call /\ [f EXCEPT !.at = "ask"].at \notin Tables
    BY <1>0 DEF Call, Tables
  <2>2. call' = [call EXCEPT ![s] = [f EXCEPT !.at = "ask"]] \/ call' = [call EXCEPT ![s] = Onward(f, "pick")]
    BY <1>8 DEF Pick
  <2> QED
    BY <1>2, <1>3, <2>1, <2>2
<1>9. CASE Ask(s)
  <2> DEFINE d == [c EXCEPT !.at = "failed"]
  <2>1. d.at \notin Tables
    BY <1>0 DEF Call, Tables
  <2>2. call' = [call EXCEPT ![s] = d]
    BY <1>9 DEF Ask, Typed, CallsOK
  <2> HIDE DEF d
  <2> QED
    BY <1>1, <1>3, <2>1, <2>2
<1>10. ~Write(s)
  BY <1>0 DEF Write
<1>11. CASE MarkFilled(s)
  <2> DEFINE d == [c EXCEPT !.at = "ask", !.side = "ctr", !.got = Gone]
  <2>1. d.at \notin Tables
    BY <1>0 DEF Call, Tables
  <2>2. c.op \in {"list", "upload", "update"} /\ c.side \in {"wiiu", "ctr"}
    BY <1>0, <1>11 DEF MarkFilled, Fits, Call, Ops
  <2>3. /\ c.op = "list" => call' = [call EXCEPT ![s] = Onward(c, "look")]
        /\ c.op = "upload" => call' = [call EXCEPT ![s] = Idle]
        /\ c.op = "update" /\ c.side = "wiiu" => call' = [call EXCEPT ![s] = d]
        /\ c.op = "update" /\ c.side = "ctr" => call' = [call EXCEPT ![s] = Onward(c, "pick")]
    BY <1>11 DEF MarkFilled
  <2> HIDE DEF d
  <2> QED
    BY <1>0, <1>1, <1>2, <1>3, <1>4, <2>1, <2>2, <2>3
<1>12. CASE ServeOld(s) \/ PassOver(s)
  <2>1. \/ call' = [call EXCEPT ![s] = Onward(c, "look")] \/ call' = [call EXCEPT ![s] = Idle]
        \/ call' = [call EXCEPT ![s] = Onward(c, "pick")]
    BY <1>12 DEF ServeOld, PassOver
  <2> QED
    BY <1>0, <1>1, <1>2, <1>3, <1>4, <2>1
<1>13. CASE ProfileUpdated(s)
  <2> DEFINE d == [Idle EXCEPT !.at = "delay", !.op = "update", !.todo = PIDsOfAccount]
  <2>1. d.at \notin Tables
    BY IdleFits DEF Call, Tables
  <2>2. call' = [call EXCEPT ![s] = d] \/ call' = call
    BY <1>13 DEF ProfileUpdated
  <2> HIDE DEF d
  <2> QED
    BY <1>1, <1>3, <2>1, <2>2
<1>14. CASE Wake(s)
  <2> DEFINE d == [c EXCEPT !.at = "pick"]
  <2>1. d.at \notin Tables
    BY <1>0 DEF Call, Tables
  <2>2. call' = [call EXCEPT ![s] = d]
    BY <1>14 DEF Wake, Typed, CallsOK
  <2> HIDE DEF d
  <2> QED
    BY <1>1, <1>3, <2>1, <2>2
<1> QED
  BY <1>1, <1>5, <1>6, <1>7, <1>8, <1>9, <1>10, <1>11, <1>12, <1>13, <1>14 DEF CallSteps

LEMMA QuietStep == Typed /\ GoneIsFinal /\ Quiet /\ [Next]_vars => Quiet'
<1> SUFFICES ASSUME Typed, GoneIsFinal, Quiet, [Next]_vars PROVE Quiet'
  OBVIOUS
<1>1. UNCHANGED eraser => Quiet'
  BY GoneForGood, DepartedStay DEF Quiet
<1>2. ASSUME NEW s \in Procs, CallSteps(s) PROVE UNCHANGED eraser
  BY <1>2 DEF CallSteps, removal, List, Settings, SignIn, Upload, Look, Pick, Ask, Write, MarkFilled, ServeOld,
       PassOver, ProfileUpdated, Wake
<1>3. CASE Erase \/ Commit \/ Restart
  BY <1>3 DEF Erase, Asked, Commit, Restart, Quiet
<1>4. CASE Drop
  <2> SUFFICES ASSUME eraser'.final PROVE Quiet'
    BY DEF Quiet
  <2>1. eraser'.at = "commit" /\ adapter = Gone /\ \A p \in PIDs : visit[p] \notin {"entering", "enterWrites", "entered"}
    BY <1>4 DEF Drop
  <2>2. \A p \in PIDs : Departed(p)'
    BY <1>4, <2>1 DEF Drop, Departed, Typed, ConsoleOK
  <2> QED
    BY <1>4, <2>1, <2>2 DEF Drop, core, Quiet
<1>5. CASE Steps
  BY <1>1, <1>3, <1>4, <1>5 DEF Steps, removal, Update, Delete, AdapterCatchesUp, Expire, Login, Leave,
       LookLastOnline, WriteLastOnline, Enter, PurgeAsk, PurgeDelete
<1>6. CASE UNCHANGED vars
  BY <1>1, <1>6 DEF vars
<1> QED
  BY <1>1, <1>2, <1>5, <1>6, NextSteps

LEMMA CleanStep == Typed /\ GoneIsFinal /\ Quiet /\ Clean /\ [Next]_vars => Clean'
<1> SUFFICES ASSUME Typed, GoneIsFinal, Quiet, Clean, [Next]_vars, erased' = "clean" PROVE Clean'
  BY DEF Clean
<1>1. ASSUME erased = "clean", UNCHANGED rows, \A s \in Procs : call'[s].at \notin Tables PROVE Clean'
  <2>1. \A p \in PIDs : visit'[p] = "off"
    BY <1>1, DepartedStay DEF Clean, Departed
  <2> QED
    BY <1>1, <2>1, GoneForGood DEF Clean, Empty
<1>2. ASSUME NEW s \in Procs, CallSteps(s) PROVE Clean'
  <2>1. erased = "clean"
    BY <1>2 DEF CallSteps, removal, List, Settings, SignIn, Upload, Look, Pick, Ask, Write, MarkFilled, ServeOld,
         PassOver, ProfileUpdated, Wake
  <2> QED
    BY <1>1, <1>2, <2>1, NobodyWrites DEF Clean
<1>3. CASE Commit
  <2>1. CASE erased = "clean"
    <3>1. Empty'
      BY <1>3, <2>1 DEF Commit, Clean, Empty
    <3>2. UNCHANGED <<call, visit, adapter>>
      BY <1>3 DEF Commit, core, console
    <3> QED
      BY <2>1, <3>1, <3>2 DEF Clean
  <2>2. CASE erased # "clean"
    <3>1. eraser.final /\ ~InFlight /\ Empty'
      BY <1>3, <2>2 DEF Commit, Empty
    <3>2. UNCHANGED <<call, visit, adapter>>
      BY <1>3 DEF Commit, core, console
    <3>3. adapter = Gone /\ \A p \in PIDs : visit[p] = "off"
      BY <3>1 DEF Quiet, Departed, InFlight
    <3>4. \A s \in Procs : call[s].at \notin Tables
      BY <3>1 DEF InFlight
    <3> QED
      BY <3>1, <3>2, <3>3, <3>4 DEF Clean
  <2> QED
    BY <2>1, <2>2
<1>4. ASSUME NEW p \in PIDs, WriteLastOnline(p) PROVE Clean'
  <2>1. erased = "clean"
    BY <1>4 DEF WriteLastOnline, removal
  <2> QED
    BY <1>4, <2>1 DEF WriteLastOnline, Clean
<1>5. CASE PurgeDelete
  <2>1. erased = "clean" /\ UNCHANGED <<call, visit, adapter>>
    BY <1>5 DEF PurgeDelete, core, console
  <2>2. Empty'
    BY <1>5, <2>1 DEF PurgeDelete, Clean, Empty, Typed, RowsOK
  <2> QED
    BY <2>1, <2>2 DEF Clean
<1>6. CASE Restart
  <2>1. \A s \in Procs : call'[s] = Idle
    BY <1>6 DEF Restart
  <2>2. erased = "clean" /\ UNCHANGED rows
    BY <1>6 DEF Restart
  <2> QED
    BY <1>1, <2>1, <2>2 DEF Idle, Tables
<1>7. CASE Update \/ Delete \/ AdapterCatchesUp \/ Erase \/ Drop \/ PurgeAsk
             \/ \E p \in PIDs : Expire(p) \/ Login(p) \/ Leave(p) \/ LookLastOnline(p) \/ Enter(p)
  <2>1. UNCHANGED <<rows, call, erased>>
    BY <1>7 DEF removal, Update, Delete, AdapterCatchesUp, Expire, Login, Leave, LookLastOnline, Enter, Erase, Drop,
         PurgeAsk
  <2> QED
    BY <1>1, <2>1 DEF Clean
<1>8. CASE UNCHANGED vars
  BY <1>1, <1>8 DEF vars, Clean
<1> QED
  BY <1>2, <1>3, <1>4, <1>5, <1>6, <1>7, <1>8, NextSteps DEF Steps

LEMMA InitClean == Init => Quiet /\ Clean
BY DEF Init, Quiet, Clean

\* erase.go: an erasure that nn-account knew of and that found no call and no end
\* handler half way leaves nothing that brings a row back, for any number of PIDs,
\* calls, goroutines and restarts.
THEOREM TheErasedStayErased == Spec => []ErasedStaysErased
<1>1. Clean => ErasedStaysErased
  BY DEF Clean, Empty, ErasedStaysErased
<1> QED
  BY <1>1, InitTyped, NextTyped, InitGone, GoneStep, InitClean, QuietStep, CleanStep, PTL DEF Spec
-----------------------------------------------------------------------------
(***************************************************************************)
(* FreshIsCurrent.                                                         *)
(***************************************************************************)
Shows(t, p) == rows[t][p] = profile

\* A goroutine has p before it: it will invalidate it.
Awaited(p) == \E u \in Updaters : p \in call[u].todo /\ call[u].pid # p

\* The goroutines have reached p since the profile last changed.
Settled(p) == profile # Gone /\ events = 0 /\ p \notin overtaken /\ ~Awaited(p)

\* A fill that has written the rows of a Wii U.
WiiUDone(c) ==
    \/ c.at = "mark" /\ c.op # "upload" /\ c.side = "wiiu"
    \/ c.at \in {"ask", "ctr", "mark"} /\ c.op = "update" /\ c.side = "ctr" /\ c.pid \notin ctrs

\* What a fill of a settled PID has been told and what it has written.
Filled(c) ==
    /\ c.at \in Tables \cup {"mark"} => c.got = profile
    /\ c.at \in {"mii", "user"} \/ WiiUDone(c) => Shows("basic", c.pid)
    /\ c.at = "user" \/ WiiUDone(c) => Shows("mii", c.pid)
    /\ c.at = "mark" /\ (c.op = "upload" \/ c.side = "ctr") => Shows("ctr", c.pid)

Fills(c, p) == c.pid = p /\ c.op \in {"list", "upload", "update"}
FillsShow(p) == \A s \in Procs : Fills(call[s], p) => Filled(call[s])

\* A goroutine is at the second platform of p.
Second(c, p) ==
    c.pid = p /\ c.op = "update" /\ c.side = "ctr" /\ c.at \in {"ask", "ctr", "mark", "failed"}

MarkShows(p) == mark[p] = "fresh" => Current(p) \/ \E u \in Updaters : Second(call[u], p)

\* The inductive core of FreshIsCurrent.
Settles == \A p \in PIDs : Settled(p) => FillsShow(p) /\ MarkShows(p)

\* nn-account is behind only until the goroutines of the last change wake.
Lags == profile # Gone /\ events = 0 /\ adapter # profile =>
    \A p \in PIDs : p \in overtaken \/ \E u \in Updaters : call[u].at = "delay" /\ p \in call[u].todo

\* Which call runs where, and for which platform.
SidedAs(s, c) ==
    /\ s \in Updaters => c = Idle \/ c.op = "update"
    /\ c.op = "update" => s \in Updaters /\ (c.at \notin {"delay", "pick"} => c.pid \in c.todo)
    /\ c.at \in {"idle", "look", "delay", "pick"} => c.pid = NoPid
    /\ c.op = "list" /\ c.at \in Tables \cup {"ask", "mark"} => c.side = Side(c.pid)
    /\ c.op \in {"list", "update"} /\ c.at \in Tables => c.side = IF c.at = "ctr" THEN "ctr" ELSE "wiiu"
    /\ c.op = "upload" => c.pid \in ctrs
    /\ c.op = "settings" => c.got = Bare
Sided == \A s \in Procs : SidedAs(s, call[s])

-----------------------------------------------------------------------------
\* What a call becomes in each of its steps.
Goes(s, d) == d \in Call /\ call' = [call EXCEPT ![s] = d]

\* The loop over the PIDs has finished with p.
Passed(c, d, p) ==
    /\ d.pid = NoPid /\ d.todo = c.todo \ {p}
    /\ d = Idle \/ (d.at = (IF c.op = "list" THEN "look" ELSE "pick") /\ d.op = c.op)

LEMMA IdleFields ==
    /\ Idle.at = "idle" /\ Idle.op = "list" /\ Idle.todo = {} /\ Idle.pid = NoPid /\ Idle.side = "wiiu"
BY DEF Idle

LEMMA OnwardPasses ==
    ASSUME NEW c \in Call, NEW next, next = (IF c.op = "list" THEN "look" ELSE "pick"), c.op \in {"list", "update"}
    PROVE  Onward(c, next) \in Call /\ Passed(c, Onward(c, next), c.pid)
<1> DEFINE d == [Idle EXCEPT !.at = next, !.op = c.op, !.todo = c.todo \ {c.pid}]
<1>1. d \in Call /\ d.at = next /\ d.op = c.op /\ d.todo = c.todo \ {c.pid} /\ d.pid = NoPid
  BY IdleFits, IdleFields DEF Call, Places
<1> HIDE DEF d
<1>2. Onward(c, next) = IF c.todo \ {c.pid} = {} THEN Idle ELSE d
  BY DEF Onward, d
<1> QED
  BY <1>1, <1>2, IdleFits, IdleFields DEF Passed

LEMMA ListMoves ==
    ASSUME NEW s \in Procs, NEW S \in SUBSET PIDs, List(s, S)
    PROVE  \E d : Goes(s, d) /\ d.at = "look" /\ d.op = "list" /\ d.pid = NoPid
<1> DEFINE d == [Idle EXCEPT !.at = "look", !.op = "list", !.todo = S]
<1>1. d \in Call /\ d.at = "look" /\ d.op = "list" /\ d.pid = NoPid
  BY IdleFits, IdleFields DEF Call, Places, Ops
<1>2. call' = [call EXCEPT ![s] = d]
  BY DEF List
<1> QED
  BY <1>1, <1>2 DEF Goes

LEMMA ConsoleMoves ==
    ASSUME Typed, NEW s \in Procs, NEW p \in PIDs, Settings(s, p) \/ SignIn(s, p) \/ Upload(s, p)
    PROVE  \E d : /\ Goes(s, d) /\ d.at \in Tables /\ d.pid = p /\ d.op \in {"settings", "signin", "upload"}
                  /\ d.op = "settings" => d.got = Bare
                  /\ d.op = "upload" => p \in ctrs /\ Upload(s, p)
<1>1. CASE Settings(s, p)
  <2> DEFINE d == [Idle EXCEPT !.at = IF p \in ctrs THEN "ctr" ELSE "user", !.op = "settings", !.pid = p, !.got = Bare]
  <2>1. d \in Call /\ d.at \in Tables /\ d.op = "settings" /\ d.pid = p /\ d.got = Bare
    BY IdleFits DEF Call, Places, Ops, Tables
  <2>2. call' = [call EXCEPT ![s] = d]
    BY <1>1 DEF Settings
  <2> QED
    BY <2>1, <2>2 DEF Goes
<1>2. CASE SignIn(s, p)
  <2>1. PICK v \in Versions :
          call' = [call EXCEPT ![s] = [Idle EXCEPT !.at = "basic", !.op = "signin", !.pid = p, !.got = v]]
    BY <1>2 DEF SignIn
  <2> DEFINE d == [Idle EXCEPT !.at = "basic", !.op = "signin", !.pid = p, !.got = v]
  <2>2. d \in Call /\ d.at \in Tables /\ d.op = "signin" /\ d.pid = p
    BY IdleFits DEF Call, Places, Ops, Tables
  <2> QED
    BY <2>1, <2>2 DEF Goes
<1>3. CASE Upload(s, p)
  <2> DEFINE v == IF profile = Gone THEN 0 ELSE profile + 1
             d == [Idle EXCEPT !.at = "ctr", !.op = "upload", !.pid = p, !.got = v]
  <2>1. v \in Versions
    BY <1>3, Constants DEF Upload, Typed, CoreOK, Versions
  <2>2. d \in Call /\ d.at \in Tables /\ d.op = "upload" /\ d.pid = p
    BY <2>1, IdleFits DEF Call, Places, Ops, Tables
  <2>3. call' = [call EXCEPT ![s] = d] /\ p \in ctrs
    BY <1>3 DEF Upload
  <2> QED
    BY <1>3, <2>2, <2>3 DEF Goes
<1> QED
  BY <1>1, <1>2, <1>3

LEMMA LookMoves ==
    ASSUME Typed, NEW s \in Procs, NEW p \in PIDs, Look(s, p)
    PROVE  /\ call[s].op = "list"
           /\ \E d : /\ Goes(s, d)
                     /\ Passed(call[s], d, p) \/ (d.at = "ask" /\ d.op = "list" /\ d.pid = p /\ d.side = Side(p))
<1> DEFINE c == call[s]
           f == [c EXCEPT !.pid = p]
           d == [c EXCEPT !.at = "ask", !.pid = p, !.side = Side(p)]
<1>1. c \in Call /\ Fits(c) /\ c.at = "look"
  BY DEF Typed, CallsOK, Look
<1>2. c.op = "list"
  BY <1>1 DEF Fits
<1>3. f \in Call /\ f.op = "list" /\ f.todo = c.todo /\ f.pid = p
  BY <1>1, <1>2 DEF Call
<1>4. d \in Call /\ d.at = "ask" /\ d.op = "list" /\ d.pid = p /\ d.side = Side(p)
  BY <1>1, <1>2 DEF Call, Places, Side
<1>5. Onward(f, "look") \in Call /\ Passed(f, Onward(f, "look"), p)
  BY <1>3, OnwardPasses
<1>6. Passed(c, Onward(f, "look"), p)
  BY <1>2, <1>3, <1>5 DEF Passed
<1>7. call' = [call EXCEPT ![s] = IF Fresh(p) THEN Onward(f, "look") ELSE d]
  BY DEF Look
<1> HIDE DEF c, f, d
<1> QED
  BY <1>2, <1>4, <1>5, <1>6, <1>7 DEF Goes, c

LEMMA PickMoves ==
    ASSUME Typed, NEW s \in Procs, NEW p \in PIDs, Pick(s, p)
    PROVE  /\ call[s].op = "update" /\ call[s].at = "pick" /\ p \in call[s].todo
           /\ \E d : /\ Goes(s, d)
                     /\ \/ Passed(call[s], d, p)
                        \/ /\ d.at = "ask" /\ d.op = "update" /\ d.pid = p /\ d.side = "wiiu"
                           /\ d.todo = call[s].todo
<1> DEFINE c == call[s]
           f == [c EXCEPT !.pid = p, !.side = "wiiu"]
           d == [f EXCEPT !.at = "ask"]
<1>1. c \in Call /\ Fits(c) /\ c.at = "pick" /\ p \in c.todo
  BY DEF Typed, CallsOK, Pick, Call
<1>2. c.op = "update"
  BY <1>1 DEF Fits
<1>3. f \in Call /\ f.op = "update" /\ f.todo = c.todo /\ f.pid = p /\ f.side = "wiiu"
  BY <1>1, <1>2 DEF Call
<1>4. d \in Call /\ d.at = "ask" /\ d.op = "update" /\ d.pid = p /\ d.side = "wiiu" /\ d.todo = c.todo
  BY <1>3 DEF Call, Places
<1>5. Onward(f, "pick") \in Call /\ Passed(f, Onward(f, "pick"), p)
  BY <1>3, OnwardPasses
<1>6. Passed(c, Onward(f, "pick"), p)
  BY <1>2, <1>3, <1>5 DEF Passed
<1>7. call' = [call EXCEPT ![s] = d] \/ call' = [call EXCEPT ![s] = Onward(f, "pick")]
  BY DEF Pick
<1> HIDE DEF c, f, d
<1> QED
  BY <1>1, <1>2, <1>4, <1>5, <1>6, <1>7 DEF Goes, c

\* The same call at another place.
At(c, d, place) ==
    d.at = place /\ d.op = c.op /\ d.todo = c.todo /\ d.pid = c.pid /\ d.side = c.side

LEMMA MoveTo ==
    ASSUME NEW c \in Call, NEW place \in Places
    PROVE  /\ [c EXCEPT !.at = place] \in Call
           /\ At(c, [c EXCEPT !.at = place], place)
           /\ [c EXCEPT !.at = place].got = c.got
BY DEF Call, At

LEMMA AskMoves ==
    ASSUME Typed, NEW s \in Procs, Ask(s)
    PROVE  /\ call[s].at = "ask" /\ call[s].op \in {"list", "update"}
           /\ \E d : /\ Goes(s, d)
                     /\ \/ At(call[s], d, "failed")
                        \/ At(call[s], d, IF call[s].side = "ctr" THEN "ctr" ELSE "basic") /\ d.got = adapter
<1> DEFINE c == call[s]
           place == IF c.side = "ctr" THEN "ctr" ELSE "basic"
           d == [c EXCEPT !.at = place, !.got = adapter]
           e == [c EXCEPT !.at = "failed"]
<1>1. c \in Call /\ Fits(c) /\ c.at = "ask"
  BY DEF Typed, CallsOK, Ask
<1>2. c.op \in {"list", "update"}
  BY <1>1 DEF Fits, Call, Ops, Tables
<1>3. place \in Places /\ "failed" \in Places
  BY DEF Places, Tables
<1>4. d \in Call /\ At(c, d, place) /\ d.got = adapter
  BY <1>1, <1>3 DEF Call, At, Typed, CoreOK
<1>5. e \in Call /\ At(c, e, "failed")
  BY <1>1, <1>3, MoveTo
<1>6. call' = [call EXCEPT ![s] = d] \/ call' = [call EXCEPT ![s] = e]
  BY DEF Ask, Typed, CallsOK
<1> HIDE DEF c, d, e
<1> QED
  BY <1>1, <1>2, <1>4, <1>5, <1>6 DEF Goes, c

\* A statement that succeeds, and one that fails.
Written(s) == LET c == call[s] IN
    /\ rows' = [rows EXCEPT ![c.at][c.pid] = Upserted(c.at, c.pid, c.got)]
    /\ overtaken' = IF c.op = "signin" /\ c.got # profile THEN overtaken \cup {c.pid} ELSE overtaken
LEMMA WriteMoves ==
    ASSUME Typed, NEW s \in Procs, Write(s)
    PROVE  \E d : /\ Goes(s, d)
                  /\ \/ UNCHANGED <<rows, overtaken>> /\ (d = Idle \/ (At(call[s], d, "failed") /\ call[s].op # "settings"))
                     \/ /\ Written(s)
                        /\ \/ d = Idle
                           \/ /\ d.got = call[s].got
                              /\ \/ call[s].at = "basic" /\ At(call[s], d, "mii")
                                 \/ call[s].at = "mii" /\ At(call[s], d, "user") /\ call[s].op # "signin"
                                 \/ call[s].at \in {"user", "ctr"} /\ At(call[s], d, "mark") /\ call[s].op # "settings"
                  /\ d = Idle => call[s].op \notin {"list", "update"}
<1> DEFINE c == call[s]
           d(place) == [c EXCEPT !.at = place]
<1>1. c \in Call /\ Fits(c) /\ c.at \in Tables
  BY DEF Typed, CallsOK, Write
<1>2. \A place \in Places : d(place) \in Call /\ At(c, d(place), place) /\ d(place).got = c.got
  BY <1>1, MoveTo
<1>3. {"failed", "mii", "user", "mark"} \subseteq Places
  BY DEF Places, Tables
<1>4. AfterError(c) = IF c.op \in {"list", "update"} THEN d("failed") ELSE Idle
  BY DEF AfterError
<1>5. /\ c.at = "basic" => AfterWrite(c) = d("mii")
      /\ c.at = "mii" /\ c.op # "signin" => AfterWrite(c) = d("user")
      /\ c.at = "mii" /\ c.op = "signin" => AfterWrite(c) = Idle
      /\ c.at \in {"user", "ctr"} /\ c.op # "settings" => AfterWrite(c) = d("mark")
      /\ c.at \in {"user", "ctr"} /\ c.op = "settings" => AfterWrite(c) = Idle
  BY DEF AfterWrite
<1> HIDE DEF d, c
<1>6. ASSUME NEW place \in {"failed", "mii", "user", "mark"} PROVE d(place) # Idle
  <2>1. d(place).at = place
    BY <1>2, <1>3 DEF At
  <2>2. place # "idle"
    OBVIOUS
  <2> QED
    BY <2>1, <2>2, IdleFields
<1> USE DEF c
<1>7. CASE call' = [call EXCEPT ![s] = AfterWrite(c)] /\ Written(s)
  <2> DEFINE e == AfterWrite(c)
  <2>1. /\ e \in Call
        /\ e = Idle => c.op \notin {"list", "update"}
        /\ \/ e = Idle
           \/ /\ e.got = c.got
              /\ \/ c.at = "basic" /\ At(c, e, "mii")
                 \/ c.at = "mii" /\ At(c, e, "user") /\ c.op # "signin"
                 \/ c.at \in {"user", "ctr"} /\ At(c, e, "mark") /\ c.op # "settings"
    <3>1. CASE c.at = "basic"
      BY <1>2, <1>3, <1>5, <1>6, <3>1
    <3>2. CASE c.at = "mii" /\ c.op # "signin"
      BY <1>2, <1>3, <1>5, <1>6, <3>2
    <3>3. CASE c.at \in {"user", "ctr"} /\ c.op # "settings"
      BY <1>2, <1>3, <1>5, <1>6, <3>3
    <3>4. CASE (c.at = "mii" /\ c.op = "signin") \/ (c.at \in {"user", "ctr"} /\ c.op = "settings")
      BY <1>5, <3>4, IdleFits
    <3> QED
      BY <1>1, <3>1, <3>2, <3>3, <3>4 DEF Tables
  <2> HIDE DEF e
  <2>2. Goes(s, e)
    BY <1>7, <2>1 DEF Goes, e
  <2> QED
    BY <1>7, <2>1, <2>2
<1>8. CASE call' = [call EXCEPT ![s] = AfterError(c)] /\ UNCHANGED <<rows, overtaken>>
  <2> DEFINE e == AfterError(c)
  <2>1. e \in Call /\ (e = Idle \/ (At(c, e, "failed") /\ c.op # "settings")) /\ (e = Idle => c.op \notin {"list", "update"})
    BY <1>2, <1>3, <1>4, <1>6, IdleFits
  <2> HIDE DEF e
  <2>2. Goes(s, e)
    BY <1>8, <2>1 DEF Goes, e
  <2> QED
    BY <1>8, <2>1, <2>2
<1> QED
  BY <1>7, <1>8 DEF Write, Written

LEMMA MarkMoves ==
    ASSUME Typed, NEW s \in Procs, MarkFilled(s)
    PROVE  /\ call[s].at = "mark" /\ call[s].op \in {"list", "upload", "update"} /\ call[s].side \in {"wiiu", "ctr"}
           /\ \E d : /\ Goes(s, d)
                     /\ \/ call[s].op = "upload" /\ d = Idle
                        \/ call[s].op = "list" /\ Passed(call[s], d, call[s].pid)
                        \/ call[s].op = "update" /\ call[s].side = "ctr" /\ Passed(call[s], d, call[s].pid)
                        \/ /\ call[s].op = "update" /\ call[s].side = "wiiu"
                           /\ d.at = "ask" /\ d.op = "update" /\ d.side = "ctr"
                           /\ d.pid = call[s].pid /\ d.todo = call[s].todo
<1> DEFINE c == call[s]
           d == [c EXCEPT !.at = "ask", !.side = "ctr", !.got = Gone]
<1>1. c \in Call /\ Fits(c) /\ c.at = "mark"
  BY DEF Typed, CallsOK, MarkFilled
<1>2. c.op \in {"list", "upload", "update"} /\ c.side \in {"wiiu", "ctr"}
  BY <1>1 DEF Fits, Call, Ops
<1>3. d \in Call /\ d.at = "ask" /\ d.op = c.op /\ d.side = "ctr" /\ d.pid = c.pid /\ d.todo = c.todo
  BY <1>1 DEF Call, Places
<1>4. /\ c.op = "list" => Onward(c, "look") \in Call /\ Passed(c, Onward(c, "look"), c.pid)
      /\ c.op = "update" => Onward(c, "pick") \in Call /\ Passed(c, Onward(c, "pick"), c.pid)
  BY <1>1, OnwardPasses
<1>5. /\ c.op = "list" => call' = [call EXCEPT ![s] = Onward(c, "look")]
      /\ c.op = "upload" => call' = [call EXCEPT ![s] = Idle]
      /\ c.op = "update" /\ c.side = "wiiu" => call' = [call EXCEPT ![s] = d]
      /\ c.op = "update" /\ c.side = "ctr" => call' = [call EXCEPT ![s] = Onward(c, "pick")]
  BY DEF MarkFilled
<1> HIDE DEF c, d
<1>6. \/ c.op = "upload" \/ c.op = "list" \/ (c.op = "update" /\ c.side = "wiiu") \/ (c.op = "update" /\ c.side = "ctr")
  BY <1>2
<1> QED
  BY <1>1, <1>2, <1>3, <1>4, <1>5, <1>6, IdleFits DEF Goes, c

LEMMA ServeMoves ==
    ASSUME Typed, NEW s \in Procs, ServeOld(s) \/ PassOver(s)
    PROVE  /\ call[s].op = IF ServeOld(s) THEN "list" ELSE "update"
           /\ \E d : Goes(s, d) /\ (Passed(call[s], d, call[s].pid) \/ (d = Idle /\ ServeOld(s)))
<1> DEFINE c == call[s]
<1>1. c \in Call
  BY DEF Typed, CallsOK
<1>2. /\ c.op = "list" => Onward(c, "look") \in Call /\ Passed(c, Onward(c, "look"), c.pid)
      /\ c.op = "update" => Onward(c, "pick") \in Call /\ Passed(c, Onward(c, "pick"), c.pid)
  BY <1>1, OnwardPasses
<1>3. CASE ServeOld(s)
  <2>1. c.op = "list" /\ (call' = [call EXCEPT ![s] = Onward(c, "look")] \/ call' = [call EXCEPT ![s] = Idle])
    BY <1>3 DEF ServeOld
  <2> QED
    BY <1>2, <1>3, <2>1, IdleFits DEF Goes
<1>4. CASE PassOver(s) /\ ~ServeOld(s)
  <2>1. c.op = "update" /\ call' = [call EXCEPT ![s] = Onward(c, "pick")]
    BY <1>4 DEF PassOver
  <2> QED
    BY <1>2, <1>4, <2>1 DEF Goes
<1> QED
  BY <1>3, <1>4

LEMMA WakeMoves ==
    ASSUME Typed, NEW s \in Procs, Wake(s)
    PROVE  call[s].at = "delay" /\ \E d : Goes(s, d) /\ At(call[s], d, "pick")
<1> DEFINE c == call[s]
           d == [c EXCEPT !.at = "pick"]
<1>1. d \in Call /\ At(c, d, "pick") /\ c.at = "delay"
  BY MoveTo DEF Typed, CallsOK, Places, Wake
<1>2. call' = [call EXCEPT ![s] = d]
  BY DEF Wake, Typed, CallsOK
<1> QED
  BY <1>1, <1>2 DEF Goes

LEMMA EventMoves ==
    ASSUME Typed, NEW s \in Procs, ProfileUpdated(s)
    PROVE  \/ call' = call /\ overtaken' = PIDs
           \/ /\ UNCHANGED overtaken
              /\ \E d : Goes(s, d) /\ d.at = "delay" /\ d.op = "update" /\ d.todo = PIDs /\ d.pid = NoPid
<1> DEFINE d == [Idle EXCEPT !.at = "delay", !.op = "update", !.todo = PIDsOfAccount]
<1>1. d \in Call /\ d.at = "delay" /\ d.op = "update" /\ d.todo = PIDs /\ d.pid = NoPid
  BY IdleFits, IdleFields DEF Call, Places, Ops, PIDsOfAccount
<1>2. \/ call' = call /\ overtaken' = PIDs
      \/ call' = [call EXCEPT ![s] = d] /\ UNCHANGED overtaken
  BY DEF ProfileUpdated, PIDsOfAccount
<1> HIDE DEF d
<1> QED
  BY <1>1, <1>2 DEF Goes

-----------------------------------------------------------------------------
LEMMA Names == NoPid \notin PIDs /\ Slots \cap Updaters = {} /\ Procs = Slots \cup Updaters
BY NoneAssumption, SlotsAssumption DEF Procs

LEMMA SidedMoves ==
    ASSUME Typed, Sided, NEW s \in Procs, NEW d, Goes(s, d), ctrs' = ctrs, SidedAs(s, d)
    PROVE  Sided'
BY DEF Typed, CallsOK, Goes, Sided, SidedAs, Side

LEMMA IdleIsSided == \A s \in Procs : SidedAs(s, Idle)
BY DEF SidedAs, Idle, Tables

LEMMA PassedIsSided ==
    ASSUME NEW s \in Procs, NEW c, NEW d, NEW p, Passed(c, d, p), c.op \in {"list", "update"}, SidedAs(s, c),
           c.op = "list" => s \notin Updaters
    PROVE  SidedAs(s, d)
<1>1. CASE d = Idle
  BY <1>1, IdleIsSided
<1>2. CASE d # Idle
  <2>1. d.at \in {"look", "pick"} /\ d.op = c.op /\ d.pid = NoPid /\ (d.op = "update" => d.at = "pick")
    BY <1>2 DEF Passed
  <2> QED
    BY <2>1 DEF SidedAs, Tables
<1> QED
  BY <1>1, <1>2

LEMMA SidedStep == Typed /\ Sided /\ [Next]_vars => Sided'
<1> SUFFICES ASSUME Typed, Sided, [Next]_vars PROVE Sided'
  OBVIOUS
<1>0. ctrs' = ctrs
  BY GoneStays
<1>1. UNCHANGED call => Sided'
  BY <1>0 DEF Sided, SidedAs, Side
<1>2. ASSUME NEW s \in Procs, CallSteps(s) PROVE Sided'
  <2> DEFINE c == call[s]
  <2>0. c \in Call /\ Fits(c) /\ SidedAs(s, c) /\ (c.op = "list" /\ c # Idle => s \notin Updaters)
    BY DEF Typed, CallsOK, Sided, SidedAs
  <2>1. ASSUME NEW S \in SUBSET PIDs, s \in Slots, List(s, S) PROVE Sided'
    <3>1. PICK d : Goes(s, d) /\ d.at = "look" /\ d.op = "list" /\ d.pid = NoPid
      BY <2>1, ListMoves
    <3>2. SidedAs(s, d)
      BY <2>1, <3>1, Names DEF SidedAs, Tables
    <3> QED
      BY <1>0, <3>1, <3>2, SidedMoves
  <2>2. ASSUME NEW p \in PIDs, s \in Slots, Settings(s, p) \/ SignIn(s, p) \/ Upload(s, p) PROVE Sided'
    <3>1. PICK d : /\ Goes(s, d) /\ d.at \in Tables /\ d.pid = p /\ d.op \in {"settings", "signin", "upload"}
                   /\ d.op = "settings" => d.got = Bare
                   /\ d.op = "upload" => p \in ctrs /\ Upload(s, p)
      BY <2>2, ConsoleMoves
    <3>2. SidedAs(s, d)
      BY <2>2, <3>1, Names DEF SidedAs, Tables
    <3> QED
      BY <1>0, <3>1, <3>2, SidedMoves
  <2>3. ASSUME NEW p \in PIDs, Look(s, p) PROVE Sided'
    <3>1. PICK d : /\ Goes(s, d)
                   /\ Passed(c, d, p) \/ (d.at = "ask" /\ d.op = "list" /\ d.pid = p /\ d.side = Side(p))
      BY <2>3, LookMoves
    <3>2. c.op = "list" /\ s \notin Updaters
      BY <2>0, <2>3, LookMoves, IdleFields DEF Look
    <3>3. SidedAs(s, d)
      BY <2>0, <3>1, <3>2, PassedIsSided DEF SidedAs, Tables
    <3> QED
      BY <1>0, <3>1, <3>3, SidedMoves
  <2>4. ASSUME NEW p \in PIDs, Pick(s, p) PROVE Sided'
    <3>1. PICK d : /\ Goes(s, d)
                   /\ \/ Passed(c, d, p)
                      \/ d.at = "ask" /\ d.op = "update" /\ d.pid = p /\ d.side = "wiiu" /\ d.todo = c.todo
      BY <2>4, PickMoves
    <3>2. c.op = "update" /\ p \in c.todo /\ s \in Updaters
      BY <2>0, <2>4, PickMoves DEF SidedAs
    <3>3. SidedAs(s, d)
      BY <2>0, <3>1, <3>2, PassedIsSided DEF SidedAs, Tables
    <3> QED
      BY <1>0, <3>1, <3>3, SidedMoves
  <2>5. CASE Ask(s)
    <3>1. PICK d : /\ Goes(s, d)
                   /\ \/ At(c, d, "failed")
                      \/ At(c, d, IF c.side = "ctr" THEN "ctr" ELSE "basic") /\ d.got = adapter
      BY <2>5, AskMoves
    <3>2. c.at = "ask" /\ c.op \in {"list", "update"} /\ c.side \in {"wiiu", "ctr"}
      BY <2>0, <2>5, AskMoves DEF Call
    <3>3. SidedAs(s, d)
      BY <2>0, <3>1, <3>2, IdleFields DEF SidedAs, Tables, At
    <3> QED
      BY <1>0, <3>1, <3>3, SidedMoves
  <2>6. CASE Write(s)
    <3>1. PICK d :
            /\ Goes(s, d)
            /\ \/ d = Idle
               \/ At(c, d, "failed") /\ c.op # "settings"
               \/ /\ d.got = c.got
                  /\ \/ c.at = "basic" /\ At(c, d, "mii")
                     \/ c.at = "mii" /\ At(c, d, "user")
                     \/ c.at \in {"user", "ctr"} /\ At(c, d, "mark") /\ c.op # "settings"
      BY <2>6, WriteMoves
    <3>2. c.at \in Tables
      BY <2>6 DEF Write
    <3>3. SidedAs(s, d)
      <4>1. CASE d = Idle
        BY <4>1, IdleIsSided
      <4>2. CASE At(c, d, "failed") /\ c.op # "settings"
        BY <2>0, <3>2, <4>2, IdleFields DEF SidedAs, Tables, At
      <4>3. CASE d.got = c.got /\ c.at = "basic" /\ At(c, d, "mii")
        BY <2>0, <4>3, IdleFields DEF SidedAs, Tables, At
      <4>4. CASE d.got = c.got /\ c.at = "mii" /\ At(c, d, "user")
        BY <2>0, <4>4, IdleFields DEF SidedAs, Tables, At
      <4>5. CASE c.at \in {"user", "ctr"} /\ At(c, d, "mark") /\ c.op # "settings"
        BY <2>0, <4>5, IdleFields DEF SidedAs, Tables, At
      <4> QED
        BY <3>1, <4>1, <4>2, <4>3, <4>4, <4>5
    <3> QED
      BY <1>0, <3>1, <3>3, SidedMoves
  <2>7. CASE MarkFilled(s)
    <3>1. PICK d : /\ Goes(s, d)
                   /\ \/ c.op = "upload" /\ d = Idle
                      \/ c.op = "list" /\ Passed(c, d, c.pid)
                      \/ c.op = "update" /\ c.side = "ctr" /\ Passed(c, d, c.pid)
                      \/ /\ c.op = "update" /\ c.side = "wiiu"
                         /\ d.at = "ask" /\ d.op = "update" /\ d.side = "ctr" /\ d.pid = c.pid /\ d.todo = c.todo
      BY <2>7, MarkMoves
    <3>2. c.at = "mark"
      BY <2>7, MarkMoves
    <3>3. SidedAs(s, d)
      <4>1. CASE c.op = "upload" /\ d = Idle
        BY <4>1, IdleIsSided
      <4>2. CASE Passed(c, d, c.pid) /\ c.op \in {"list", "update"}
        BY <2>0, <3>2, <4>2, PassedIsSided, IdleFields
      <4>3. CASE c.op = "update" /\ d.at = "ask" /\ d.op = "update" /\ d.side = "ctr" /\ d.pid = c.pid /\ d.todo = c.todo
        BY <2>0, <3>2, <4>3 DEF SidedAs, Tables
      <4> QED
        BY <3>1, <4>1, <4>2, <4>3
    <3> QED
      BY <1>0, <3>1, <3>3, SidedMoves
  <2>8. CASE ServeOld(s) \/ PassOver(s)
    <3>1. PICK d : Goes(s, d) /\ (Passed(c, d, c.pid) \/ (d = Idle /\ ServeOld(s)))
      BY <2>8, ServeMoves
    <3>2. c.op \in {"list", "update"} /\ c.at = "failed"
      BY <2>8, ServeMoves DEF ServeOld, PassOver
    <3>3. SidedAs(s, d)
      BY <2>0, <3>1, <3>2, PassedIsSided, IdleIsSided, IdleFields
    <3> QED
      BY <1>0, <3>1, <3>3, SidedMoves
  <2>9. CASE s \in Updaters /\ ProfileUpdated(s)
    <3>1. CASE call' = call
      BY <1>1, <3>1
    <3>2. ASSUME NEW d, Goes(s, d), d.at = "delay", d.op = "update", d.todo = PIDs, d.pid = NoPid PROVE Sided'
      <4>1. SidedAs(s, d)
        BY <2>9, <3>2 DEF SidedAs, Tables
      <4> QED
        BY <1>0, <3>2, <4>1, SidedMoves
    <3> QED
      BY <2>9, <3>1, <3>2, EventMoves
  <2>10. CASE s \in Updaters /\ Wake(s)
    <3>1. PICK d : Goes(s, d) /\ At(c, d, "pick") /\ c.at = "delay"
      BY <2>10, WakeMoves
    <3>2. c.op = "update"
      BY <2>0, <3>1 DEF Fits
    <3>3. SidedAs(s, d)
      BY <2>0, <2>10, <3>1, <3>2 DEF SidedAs, Tables, At
    <3> QED
      BY <1>0, <3>1, <3>3, SidedMoves
  <2> QED
    BY <1>2, <2>1, <2>2, <2>3, <2>4, <2>5, <2>6, <2>7, <2>8, <2>9, <2>10 DEF CallSteps
<1>3. CASE Restart
  <2>1. \A s \in Procs : call'[s] = Idle
    BY <1>3 DEF Restart
  <2> QED
    BY <1>0, <2>1, IdleIsSided DEF Sided, SidedAs, Side
<1>4. CASE Steps /\ ~Restart
  <2>1. UNCHANGED call
    BY <1>4 DEF Steps, Update, Delete, AdapterCatchesUp, Expire, Login, Leave, LookLastOnline,
       WriteLastOnline, Enter, Erase, Drop, Commit, PurgeAsk, PurgeDelete
  <2> QED
    BY <1>1, <2>1
<1>5. CASE UNCHANGED vars
  BY <1>1, <1>5 DEF vars
<1> QED
  BY <1>2, <1>3, <1>4, <1>5, NextSteps

LEMMA InitSided == Init => Sided
BY IdleIsSided DEF Init, Sided

-----------------------------------------------------------------------------
\* A change of the profile leaves an event.
LEMMA ChangeLeavesEvent ==
    ASSUME Typed, [Next]_vars, profile' # Gone, events' = 0
    PROVE  profile' = profile /\ profile # Gone
<1>1. CASE Update
  BY <1>1, Constants DEF Update, Typed, CoreOK
<1>2. ASSUME NEW s \in Procs, NEW p \in PIDs, Upload(s, p) PROVE profile' = profile
  BY <1>2, Constants DEF Upload, Typed, CoreOK
<1>3. CASE Steps /\ ~Update
  BY <1>3 DEF Steps, core, Delete, AdapterCatchesUp, Expire, Login, Leave, LookLastOnline, WriteLastOnline, Enter,
     Erase, Drop, Commit, PurgeAsk, PurgeDelete, Restart
<1>4. ASSUME NEW s \in Procs, CallSteps(s) PROVE profile' = profile
  BY <1>2, <1>4 DEF CallSteps, core, List, Settings, SignIn, Look, Pick, Ask, Write, MarkFilled, ServeOld, PassOver,
       ProfileUpdated, Wake
<1>5. CASE UNCHANGED vars
  BY <1>5 DEF vars
<1> QED
  BY <1>1, <1>3, <1>4, <1>5, GoneStays, NextSteps

\* Who still waits for refreshDelay.
Delayed(p) == \E u \in Updaters : call[u].at = "delay" /\ p \in call[u].todo

LEMMA DelayedStays ==
    ASSUME Typed, NEW s \in Procs, CallSteps(s), ~Wake(s), NEW p \in PIDs, Delayed(p)
    PROVE  Delayed(p)'
<1>1. PICK u \in Updaters : call[u].at = "delay" /\ p \in call[u].todo
  BY DEF Delayed
<1>2. CASE call'[u] = call[u]
  BY <1>1, <1>2 DEF Delayed
<1>3. CASE call'[u] # call[u]
  <2>1. u = s
    BY <1>3 DEF CallSteps, List, Settings, SignIn, Upload, Look, Pick, Ask, Write, MarkFilled, ServeOld, PassOver,
         ProfileUpdated, Typed, CallsOK, Procs
  <2>2. call[s].at = "delay" /\ call[s] # Idle
    BY <1>1, <2>1, IdleFields
  <2>3. /\ \A S \in SUBSET PIDs : ~List(s, S)
        /\ \A q \in PIDs : ~Settings(s, q) /\ ~SignIn(s, q) /\ ~Upload(s, q)
        /\ ~ProfileUpdated(s)
    BY <2>2 DEF List, Settings, SignIn, Upload, ProfileUpdated
  <2>4. /\ \A q \in PIDs : ~Look(s, q)
        /\ ~Ask(s) /\ ~Write(s) /\ ~MarkFilled(s) /\ ~ServeOld(s) /\ ~PassOver(s)
    BY <2>2 DEF Look, Ask, Write, MarkFilled, ServeOld, PassOver, Tables
  <2>5. \A q \in PIDs : ~Pick(s, q)
    BY <2>2, PickMoves
  <2> QED
    BY <2>3, <2>4, <2>5 DEF CallSteps
<1> QED
  BY <1>2, <1>3

\* A mark takes a PID out of overtaken only when nn-account is not behind.
LEMMA OvertakenStays ==
    ASSUME Typed, [Next]_vars, NEW p \in PIDs, p \in overtaken, p \notin overtaken'
    PROVE  \E s \in Procs : /\ MarkFilled(s) /\ call[s].pid = p
                            /\ Current(p) /\ adapter = profile /\ {r \in Procs : Filling(r, p)} \subseteq {s}
<1>1. ASSUME NEW s \in Procs, CallSteps(s) PROVE MarkFilled(s)
  BY <1>1 DEF CallSteps, List, Settings, SignIn, Upload, Look, Pick, Ask, Write, ServeOld, PassOver, ProfileUpdated,
       Wake, PIDsOfAccount
<1>2. ~Steps
  BY DEF Steps, Update, Delete, AdapterCatchesUp, Expire, Login, Leave, LookLastOnline, WriteLastOnline, Enter,
     Erase, Drop, Commit, PurgeAsk, PurgeDelete, Restart
<1>3. ~UNCHANGED vars
  BY DEF vars
<1>4. PICK s \in Procs : MarkFilled(s)
  BY <1>1, <1>2, <1>3, NextSteps
<1> QED
  BY <1>4 DEF MarkFilled, SetMark

LEMMA LagsStep == Typed /\ Lags /\ [Next]_vars => Lags'
<1> SUFFICES ASSUME Typed, Lags, [Next]_vars, profile' # Gone, events' = 0, adapter' # profile', NEW p \in PIDs
             PROVE  p \in overtaken' \/ Delayed(p)'
  BY DEF Lags, Delayed
<1>1. profile' = profile /\ profile # Gone /\ adapter' = adapter
  BY ChangeLeavesEvent, GoneStays
<1>2. p \in overtaken => p \in overtaken'
  BY <1>1, OvertakenStays
<1>3. events = 0 => p \in overtaken \/ Delayed(p)
  BY <1>1 DEF Lags, Delayed
<1>4. ASSUME NEW s \in Procs, CallSteps(s) PROVE p \in overtaken' \/ Delayed(p)'
  <2>1. CASE s \in Updaters /\ ProfileUpdated(s)
    <3>1. ASSUME NEW d, Goes(s, d), d.at = "delay", d.todo = PIDs PROVE Delayed(p)'
      BY <2>1, <3>1 DEF Delayed, Goes, Typed, CallsOK
    <3> QED
      BY <2>1, <3>1, EventMoves
  <2>2. CASE ~(s \in Updaters /\ ProfileUpdated(s))
    <3>1. events = 0 \/ \E q \in PIDs : Upload(s, q)
      BY <1>4, <2>2 DEF CallSteps, core, List, Settings, SignIn, Look, Pick, Ask, Write, MarkFilled, ServeOld,
           PassOver, Wake
    <3>2. \A q \in PIDs : ~Upload(s, q)
      BY <1>1 DEF Upload, Typed, CoreOK
    <3>3. ~Wake(s)
      BY <1>1 DEF Wake
    <3> QED
      BY <1>2, <1>3, <1>4, <3>1, <3>2, <3>3, DelayedStays
  <2> QED
    BY <2>1, <2>2
<1>5. CASE Restart
  <2>1. events = 0
    BY <1>5 DEF Restart, core
  <2> QED
    BY <1>3, <1>5, <2>1 DEF Restart, Delayed
<1>6. CASE Steps /\ ~Restart
  <2>1. events = 0 \/ Update
    BY <1>6 DEF Steps, core, Update, Delete, AdapterCatchesUp, Expire, Login, Leave, LookLastOnline, WriteLastOnline,
       Enter, Erase, Drop, Commit, PurgeAsk, PurgeDelete
  <2>2. ~Update
    BY <1>1 DEF Update, Typed, CoreOK
  <2>3. UNCHANGED call
    BY <1>6 DEF Steps, Update, Delete, AdapterCatchesUp, Expire, Login, Leave, LookLastOnline,
       WriteLastOnline, Enter, Erase, Drop, Commit, PurgeAsk, PurgeDelete
  <2> QED
    BY <1>2, <1>3, <2>1, <2>2, <2>3 DEF Delayed
<1>7. CASE UNCHANGED vars
  BY <1>2, <1>3, <1>7 DEF vars, Delayed
<1> QED
  BY <1>4, <1>5, <1>6, <1>7, NextSteps

-----------------------------------------------------------------------------
\* A step under which what was right about the rows of p stays right.
RowsKept(p) == \A t \in {"basic", "mii", "ctr"} : Shows(t, p) => rows'[t][p] = profile
Same(p) == ctrs' = ctrs /\ profile' = profile /\ RowsKept(p)

LEMMA CurrentStays ==
    ASSUME NEW p, Same(p), Current(p)
    PROVE  Current(p)'
BY Zenon DEF Current, ShownCTR, ShownWUP, Same, RowsKept, Shows

LEMMA CurrentMeans ==
    ASSUME NEW p
    PROVE  Current(p) <=> IF p \in ctrs THEN Shows("ctr", p) ELSE Shows("basic", p) /\ Shows("mii", p)
BY DEF Current, ShownCTR, ShownWUP, Shows

LEMMA FilledStays ==
    ASSUME NEW c, Same(c.pid), Filled(c)
    PROVE  Filled(c)'
BY DEF Filled, WiiUDone, Same, RowsKept, Shows, Tables

\* A call of which only one goes on.
LEMMA CallSettles ==
    ASSUME Typed, NEW p \in PIDs, Settled(p), FillsShow(p), Same(p), NEW s \in Procs, NEW d, Goes(s, d),
           Fills(d, p) => Filled(d)'
    PROVE  FillsShow(p)'
<1> SUFFICES ASSUME NEW r \in Procs, Fills(call[r], p)' PROVE Filled(call[r])'
  BY DEF FillsShow
<1>1. PICK e : e = call'[r]
  OBVIOUS
<1>2. Fills(e, p)
  BY <1>1 DEF Fills
<1>3. e = IF r = s THEN d ELSE call[r]
  BY <1>1 DEF Goes, Typed, CallsOK
<1>4. Filled(e)'
  <2>1. CASE r = s
    BY <1>2, <1>3, <2>1
  <2>2. CASE r # s
    <3>1. Filled(call[r]) /\ call[r] = e
      BY <1>2, <1>3, <2>2 DEF FillsShow
    <3>2. Filled(e) /\ Same(e.pid)
      BY <1>2, <3>1, Zenon DEF Fills
    <3> QED
      BY <3>2, FilledStays
  <2> QED
    BY <2>1, <2>2
<1> QED
  BY <1>1, <1>4 DEF Filled, WiiUDone, Shows

LEMMA MarkSettles ==
    ASSUME Typed, NEW p \in PIDs, MarkShows(p), Same(p), NEW s \in Procs, NEW d, Goes(s, d),
           mark'[p] = "fresh" => mark[p] = "fresh", Second(call[s], p) => Second(d, p)
    PROVE  MarkShows(p)'
<1> SUFFICES ASSUME mark'[p] = "fresh", NEW u \in Updaters, Second(call[u], p)
             PROVE  \E w \in Updaters : Second(call'[w], p)
  BY CurrentStays DEF MarkShows, Second
<1>1. u \in Procs
  BY DEF Procs
<1>2. call'[u] = IF u = s THEN d ELSE call[u]
  BY <1>1 DEF Goes, Typed, CallsOK
<1> QED
  BY <1>2

\* A PID that comes to rest otherwise than by a Pick or a mark was at rest.
LEMMA SettledBefore ==
    ASSUME Typed, NEW p \in PIDs, Settled(p)', NEW s \in Procs, NEW d, Goes(s, d),
           profile' = profile, events' = events, p \in overtaken => p \in overtaken',
           s \in Updaters /\ p \in call[s].todo /\ call[s].pid # p => p \in d.todo /\ d.pid # p
    PROVE  Settled(p)
<1> SUFFICES ASSUME NEW u \in Updaters, p \in call[u].todo, call[u].pid # p
             PROVE  p \in call'[u].todo /\ call'[u].pid # p
  BY DEF Settled, Awaited
<1>1. call'[u] = IF u = s THEN d ELSE call[u]
  BY DEF Goes, Typed, CallsOK, Procs
<1> QED
  BY <1>1

\* The loop over the PIDs leaves q: nobody else is passed.
LEMMA PassedKeeps ==
    ASSUME NEW c, NEW d, NEW q, NEW p \in PIDs, Passed(c, d, q)
    PROVE  /\ p \in c.todo /\ p # q => p \in d.todo /\ d.pid # p
           /\ ~Fills(d, p) /\ ~Second(d, p)
BY Names DEF Passed, Fills, Second

LEMMA SettledIsServed ==
    ASSUME Typed, Sided, Lags, NEW p \in PIDs, Settled(p)
    PROVE  adapter = profile
<1> SUFFICES ASSUME adapter # profile PROVE FALSE
  OBVIOUS
<1>1. PICK u \in Updaters : call[u].at = "delay" /\ p \in call[u].todo
  BY DEF Lags, Settled
<1>2. call[u].pid = NoPid
  BY <1>1 DEF Sided, SidedAs, Procs
<1> QED
  BY <1>1, <1>2, Names DEF Settled, Awaited

\* The steps that neither invalidate p nor mark it.
LEMMA Quietly ==
    ASSUME Typed, Settles, NEW p \in PIDs, Settled(p)', NEW s \in Procs, NEW d, Goes(s, d), Same(p),
           events' = events, p \in overtaken => p \in overtaken',
           s \in Updaters /\ p \in call[s].todo /\ call[s].pid # p => p \in d.todo /\ d.pid # p,
           Settled(p) /\ Fills(d, p) => Filled(d)',
           mark'[p] = "fresh" => mark[p] = "fresh", Second(call[s], p) => Second(d, p)
    PROVE  FillsShow(p)' /\ MarkShows(p)'
<1>1. Settled(p)
  BY SettledBefore DEF Same
<1>2. FillsShow(p) /\ MarkShows(p)
  BY <1>1 DEF Settles
<1> QED
  BY <1>1, <1>2, CallSettles, MarkSettles

\* A fill of a settled PID writes the profile; a console that writes an old copy
\* leaves the PID in overtaken, and one that keeps its settings touches neither
\* name nor Mii.
LEMMA WriteKeeps ==
    ASSUME Typed, Sided, Settles, NEW p \in PIDs, Settled(p), NEW s \in Procs, call[s].at \in Tables, Written(s),
           p \notin overtaken', UNCHANGED core, call[s].op # "upload" \/ call[s].at = "ctr"
    PROVE  /\ Same(p)
           /\ call[s].pid = p /\ call[s].op \in {"list", "upload", "update"} /\ call[s].at # "user"
              => rows'[call[s].at][p] = profile
<1> DEFINE c == call[s]
           v == Upserted(c.at, c.pid, c.got)
<1>1. c \in Call /\ Fits(c) /\ c.pid \in PIDs /\ SidedAs(s, c) /\ profile \in Versions
  BY DEF Typed, CallsOK, Fits, Sided, Settled, CoreOK
<1>2. rows' = [rows EXCEPT ![c.at][c.pid] = v]
  BY DEF Written
<1> HIDE DEF v
<1>3. \A t \in Tables : rows'[t][p] = IF t = c.at /\ c.pid = p THEN v ELSE rows[t][p]
  BY <1>1, <1>2 DEF Typed, RowsOK
<1>4. profile # Bare /\ profile # NoRow
  BY <1>1, Constants
<1>5. c.pid = p /\ c.op \in {"list", "upload", "update", "signin"} => c.got = profile
  <2>1. CASE c.op = "signin"
    BY <2>1 DEF Written
  <2>2. CASE c.pid = p /\ c.op \in {"list", "upload", "update"}
    <3>1. Filled(c)
      BY <2>2 DEF Settles, FillsShow, Fills
    <3> QED
      BY <3>1 DEF Filled
  <2> QED
    BY <2>1, <2>2
<1>6. c.pid = p /\ c.op \in {"list", "upload", "update", "signin"} /\ c.at # "user" => v = profile
  BY <1>4, <1>5 DEF Upserted, v
<1>7. (c.op = "settings" \/ c.at = "user") /\ Shows(c.at, c.pid) => v = profile
  BY <1>1, <1>4 DEF Upserted, v, Shows, SidedAs
<1>8. c.op \in {"list", "upload", "update", "signin", "settings"}
  BY <1>1 DEF Call, Ops
<1>9. RowsKept(p)
  BY <1>3, <1>6, <1>7, <1>8 DEF RowsKept, Shows, Tables
<1> QED
  BY <1>3, <1>6, <1>9 DEF Same, core

\* What the statement brings a fill to.
LEMMA WriteFills ==
    ASSUME Typed, Sided, Settles, NEW p \in PIDs, Settled(p), NEW s \in Procs, call[s].at \in Tables, Written(s),
           p \notin overtaken', UNCHANGED core, call[s].op # "upload" \/ call[s].at = "ctr",
           NEW d, d.got = call[s].got, Fills(d, p),
           \/ call[s].at = "basic" /\ At(call[s], d, "mii")
           \/ call[s].at = "mii" /\ At(call[s], d, "user") /\ call[s].op # "signin"
           \/ call[s].at \in {"user", "ctr"} /\ At(call[s], d, "mark") /\ call[s].op # "settings"
    PROVE  Filled(d)'
<1> DEFINE c == call[s]
<1>1. c \in Call /\ Fits(c) /\ SidedAs(s, c)
  BY DEF Typed, CallsOK, Sided
<1>2. c.pid = p /\ c.op \in {"list", "upload", "update"} /\ d.pid = p /\ d.op = c.op /\ d.side = c.side
  BY DEF Fills, At
<1>3. Filled(c)
  BY <1>2 DEF Settles, FillsShow, Fills
<1>4. Same(p) /\ (c.at # "user" => rows'[c.at][p] = profile)
  BY <1>2, WriteKeeps
<1>5. c.got = profile
  BY <1>3 DEF Filled
<1>6. ctrs' = ctrs /\ profile' = profile
  BY <1>4 DEF Same
<1>7. /\ c.at = "basic" => c.op # "upload" /\ c.side = "wiiu"
      /\ c.at = "mii" => c.op # "upload" /\ c.side = "wiiu"
      /\ c.at = "user" => c.op # "upload" /\ c.side = "wiiu"
      /\ c.at = "ctr" => c.op = "upload" \/ c.side = "ctr"
  BY <1>1, <1>2 DEF SidedAs, Tables
<1>8. CASE c.at = "basic"
  BY <1>2, <1>4, <1>5, <1>6, <1>7, <1>8 DEF Filled, WiiUDone, Shows, At
<1>9. CASE c.at = "mii"
  <2>1. Shows("basic", p)
    BY <1>2, <1>3, <1>9 DEF Filled
  <2>2. rows'["basic"][p] = profile
    BY <1>4, <2>1 DEF Same, RowsKept
  <2> QED
    BY <1>2, <1>4, <1>5, <1>6, <1>7, <1>9, <2>2 DEF Filled, WiiUDone, Shows, At
<1>10. CASE c.at = "user"
  <2>1. Shows("basic", p) /\ Shows("mii", p)
    BY <1>2, <1>3, <1>10 DEF Filled
  <2>2. rows'["basic"][p] = profile /\ rows'["mii"][p] = profile
    BY <1>4, <2>1 DEF Same, RowsKept
  <2> QED
    BY <1>2, <1>4, <1>5, <1>6, <1>7, <1>10, <2>2 DEF Filled, WiiUDone, Shows, At
<1>11. CASE c.at = "ctr"
  <2>1. WiiUDone(c) => rows'["basic"][p] = profile /\ rows'["mii"][p] = profile
    BY <1>2, <1>3, <1>4 DEF Filled, Same, RowsKept
  <2>2. d.at = "mark" /\ d.got = profile
    BY <1>5, <1>11 DEF At
  <2>3. WiiUDone(d)' => WiiUDone(c)
    BY <1>2, <1>6, <1>7, <1>11, <2>2 DEF WiiUDone
  <2> QED
    BY <1>2, <1>4, <1>6, <1>11, <2>1, <2>2, <2>3 DEF Filled, Shows
<1> QED
  BY <1>8, <1>9, <1>10, <1>11 DEF Tables

\* Every step of a call keeps what is right about a PID that is settled after it.
LEMMA CallStepSettles ==
    ASSUME Typed, Sided, Lags, Settles, [Next]_vars, NEW s \in Procs, CallSteps(s), NEW p \in PIDs, Settled(p)'
    PROVE  FillsShow(p)' /\ MarkShows(p)'
<1> DEFINE c == call[s]
<1>0. c \in Call /\ Fits(c) /\ SidedAs(s, c)
  BY DEF Typed, CallsOK, Sided
<1>1. profile' = profile /\ profile # Gone /\ ctrs' = ctrs /\ events' = 0 /\ p \notin overtaken'
  BY ChangeLeavesEvent, GoneStays DEF Settled
<1>2. UNCHANGED rows => Same(p)
  BY <1>1 DEF Same, RowsKept, Shows
<1>3. ASSUME NEW S \in SUBSET PIDs, s \in Slots, List(s, S) PROVE FillsShow(p)' /\ MarkShows(p)'
  <2>1. PICK d : Goes(s, d) /\ d.at = "look" /\ d.op = "list" /\ d.pid = NoPid
    BY <1>3, ListMoves
  <2>2. ~Fills(d, p) /\ ~Second(c, p) /\ s \notin Updaters
    BY <1>3, <2>1, Names, IdleFields DEF Fills, Second, List
  <2> QED
    BY <1>2, <1>3, <2>1, <2>2, Quietly DEF List, core
<1>4. ASSUME NEW q \in PIDs, s \in Slots, Settings(s, q) \/ SignIn(s, q) \/ Upload(s, q)
      PROVE  FillsShow(p)' /\ MarkShows(p)'
  <2>1. PICK d : /\ Goes(s, d) /\ d.at \in Tables /\ d.pid = q /\ d.op \in {"settings", "signin", "upload"}
                 /\ d.op = "upload" => Upload(s, q)
    BY <1>4, ConsoleMoves
  <2>2. ~Upload(s, q)
    BY <1>1 DEF Upload, Typed, CoreOK
  <2>3. ~Fills(d, p) /\ ~Second(c, p) /\ s \notin Updaters
    BY <1>4, <2>1, <2>2, Names, IdleFields DEF Fills, Second, Settings, SignIn
  <2> QED
    BY <1>2, <1>4, <2>1, <2>2, <2>3, Quietly DEF Settings, SignIn, core
<1>5. ASSUME NEW q \in PIDs, Look(s, q) PROVE FillsShow(p)' /\ MarkShows(p)'
  <2>1. PICK d : Goes(s, d) /\ (Passed(c, d, q) \/ (d.at = "ask" /\ d.op = "list" /\ d.pid = q /\ d.side = Side(q)))
    BY <1>5, LookMoves
  <2>2. c.op = "list" /\ c.at = "look" /\ s \notin Updaters
    BY <1>0, <1>5, LookMoves, IdleFields DEF Look, SidedAs
  <2>3. Fills(d, p) => Filled(d)'
    BY <2>1, PassedKeeps DEF Fills, Filled, WiiUDone, Tables
  <2>4. ~Second(c, p)
    BY <2>2 DEF Second
  <2> QED
    BY <1>2, <1>5, <2>1, <2>2, <2>3, <2>4, Quietly DEF Look, core
<1>6. ASSUME NEW q \in PIDs, Pick(s, q) PROVE FillsShow(p)' /\ MarkShows(p)'
  <2>1. PICK d : /\ Goes(s, d)
                 /\ \/ Passed(c, d, q)
                    \/ d.at = "ask" /\ d.op = "update" /\ d.pid = q /\ d.side = "wiiu" /\ d.todo = c.todo
    BY <1>6, PickMoves
  <2>2. c.op = "update" /\ c.at = "pick" /\ c.pid = NoPid
    BY <1>0, <1>6, PickMoves DEF SidedAs
  <2>3. Fills(d, p) => Filled(d)'
    BY <2>1, PassedKeeps DEF Fills, Filled, WiiUDone, Tables
  <2>4. CASE p # q
    <3>1. p \in c.todo /\ c.pid # p => p \in d.todo /\ d.pid # p
      BY <2>1, <2>4, PassedKeeps
    <3>2. ~Second(c, p) /\ mark'[p] = mark[p]
      BY <1>6, <2>2, <2>4 DEF Second, Pick, Typed, MarksOK
    <3> QED
      BY <1>2, <1>6, <2>1, <2>3, <2>4, <3>1, <3>2, Quietly DEF Pick, core
  <2>5. CASE p = q
    <3>1. mark'[p] = "none"
      BY <1>6, <2>5 DEF Pick, Typed, MarksOK
    <3>2. \A r \in Procs \ {s} : ~Filling(r, p)
      BY <1>1, <1>6, <2>5 DEF Pick
    <3>3. ASSUME NEW r \in Procs, Fills(call[r], p)' PROVE Filled(call[r])'
      <4>1. PICK e : e = call'[r]
        OBVIOUS
      <4>2. Filled(e)'
        <5>1. CASE r = s
          BY <2>1, <2>3, <3>3, <4>1, <5>1 DEF Goes, Typed, CallsOK, Fills
        <5>2. CASE r # s
          <6>1. e = call[r] /\ e.pid = p
            BY <2>1, <3>3, <4>1, <5>2 DEF Goes, Typed, CallsOK, Fills
          <6>2. e.at \notin Tables \cup {"mark"} /\ ~(e.at = "ask" /\ e.op = "update" /\ e.side = "ctr")
            BY <3>2, <5>2, <6>1 DEF Filling
          <6> QED
            BY <6>2 DEF Filled, WiiUDone, Tables
        <5> QED
          BY <5>1, <5>2
      <4> QED
        BY <4>1, <4>2 DEF Filled, WiiUDone, Shows
    <3> QED
      BY <3>1, <3>3 DEF FillsShow, MarkShows
  <2> QED
    BY <2>4, <2>5
<1>7. CASE Ask(s)
  <2>1. PICK d : /\ Goes(s, d)
                 /\ \/ At(c, d, "failed")
                    \/ At(c, d, IF c.side = "ctr" THEN "ctr" ELSE "basic") /\ d.got = adapter
    BY <1>7, AskMoves
  <2>2. c.at = "ask" /\ c.op \in {"list", "update"}
    BY <1>7, AskMoves
  <2>3. ASSUME Settled(p), Fills(d, p) PROVE Filled(d)'
    <3>1. CASE At(c, d, "failed")
      BY <3>1 DEF Filled, WiiUDone, At, Tables
    <3>2. CASE At(c, d, IF c.side = "ctr" THEN "ctr" ELSE "basic") /\ d.got = adapter
      <4>1. adapter = profile
        BY <2>3, SettledIsServed
      <4>2. Fills(c, p) /\ Filled(c) /\ Same(p)
        BY <1>2, <1>7, <2>3, <3>2 DEF Fills, At, Settles, FillsShow, Ask
      <4>3. WiiUDone(c) => rows'["basic"][p] = profile /\ rows'["mii"][p] = profile
        BY <4>2 DEF Filled, Fills, Same, RowsKept
      <4>4. WiiUDone(d)' => WiiUDone(c)
        BY <1>1, <2>2, <3>2 DEF WiiUDone, At
      <4>5. d.pid = p /\ d.at \in {"basic", "ctr"} /\ d.got = profile
        BY <2>3, <3>2, <4>1 DEF At, Fills
      <4> QED
        BY <1>1, <4>3, <4>4, <4>5 DEF Filled, Shows
    <3> QED
      BY <2>1, <3>1, <3>2
  <2>4. Second(c, p) => Second(d, p)
    BY <2>1 DEF Second, At
  <2>5. p \in c.todo /\ c.pid # p => p \in d.todo /\ d.pid # p
    BY <2>1 DEF At
  <2> QED
    BY <1>2, <1>7, <2>1, <2>3, <2>4, <2>5, Quietly DEF Ask, core
<1>8. CASE Write(s)
  <2>1. PICK d : /\ Goes(s, d)
                 /\ \/ UNCHANGED <<rows, overtaken>> /\ (d = Idle \/ (At(c, d, "failed") /\ c.op # "settings"))
                    \/ /\ Written(s)
                       /\ \/ d = Idle
                          \/ /\ d.got = c.got
                             /\ \/ c.at = "basic" /\ At(c, d, "mii")
                                \/ c.at = "mii" /\ At(c, d, "user") /\ c.op # "signin"
                                \/ c.at \in {"user", "ctr"} /\ At(c, d, "mark") /\ c.op # "settings"
                 /\ d = Idle => c.op \notin {"list", "update"}
    BY <1>8, WriteMoves
  <2>2. c.at \in Tables /\ UNCHANGED <<core, mark>> /\ (p \in overtaken => p \in overtaken')
        /\ (c.op # "upload" \/ c.at = "ctr")
    BY <1>0, <1>8 DEF Write, Fits, Tables
  <2>3. s \in Updaters => c.op = "update"
    BY <1>0, <2>2, IdleFields DEF SidedAs, Tables
  <2>4. d = Idle \/ \E place \in {"failed", "mii", "user", "mark"} : At(c, d, place)
    BY <2>1
  <2>5. s \in Updaters /\ p \in c.todo /\ c.pid # p => p \in d.todo /\ d.pid # p
    BY <2>1, <2>3, <2>4 DEF At
  <2>6. Second(c, p) => Second(d, p)
    BY <1>0, <2>1, <2>2 DEF Second, At, SidedAs, Tables
  <2>7. Settled(p)
    BY <1>1, <2>1, <2>2, <2>5, SettledBefore DEF core
  <2>8. Same(p)
    BY <1>1, <1>2, <2>1, <2>2, <2>7, WriteKeeps
  <2>9. ASSUME Fills(d, p) PROVE Filled(d)'
    <3>1. CASE d = Idle
      BY <2>9, <3>1, IdleFields, Names DEF Fills
    <3>2. CASE At(c, d, "failed")
      BY <3>2 DEF Filled, WiiUDone, At, Tables
    <3>3. CASE d # Idle /\ ~At(c, d, "failed")
      BY <1>1, <2>1, <2>2, <2>7, <2>9, <3>3, WriteFills
    <3> QED
      BY <3>1, <3>2, <3>3
  <2> QED
    BY <2>1, <2>2, <2>5, <2>6, <2>8, <2>9, Quietly DEF core
<1>9. CASE MarkFilled(s)
  <2>1. PICK d : /\ Goes(s, d)
                 /\ \/ c.op = "upload" /\ d = Idle
                    \/ c.op = "list" /\ Passed(c, d, c.pid)
                    \/ c.op = "update" /\ c.side = "ctr" /\ Passed(c, d, c.pid)
                    \/ /\ c.op = "update" /\ c.side = "wiiu"
                       /\ d.at = "ask" /\ d.op = "update" /\ d.side = "ctr" /\ d.pid = c.pid /\ d.todo = c.todo
    BY <1>9, MarkMoves
  <2>2. c.at = "mark" /\ c.op \in {"list", "upload", "update"} /\ c.side \in {"wiiu", "ctr"}
    BY <1>9, MarkMoves
  <2>3. s \in Updaters => c.op = "update"
    BY <1>0, <2>2, IdleFields DEF SidedAs
  <2>4. Same(p) /\ UNCHANGED core
    BY <1>2, <1>9 DEF MarkFilled
  <2>5. s \in Updaters /\ p \in c.todo /\ c.pid # p => p \in d.todo /\ d.pid # p
    <3>1. CASE Passed(c, d, c.pid)
      BY <3>1, PassedKeeps
    <3>2. CASE d.pid = c.pid /\ d.todo = c.todo
      BY <3>2
    <3> QED
      BY <2>1, <2>3, <3>1, <3>2
  <2>6. Fills(d, p) => d.at = "ask" /\ d.op = "update" /\ d.side = "ctr" /\ d.pid = p /\ c.pid = p /\ c.op = "update"
                       /\ c.side = "wiiu"
    BY <2>1, PassedKeeps, IdleFields, Names DEF Fills
  <2>7. CASE c.pid # p
    <3>1. p \in overtaken => p \in overtaken'
      BY <1>9, <2>7 DEF MarkFilled, SetMark
    <3>2. mark'[p] = mark[p]
      BY <1>9, <2>7 DEF MarkFilled, SetMark, Typed, MarksOK
    <3>3. ~Second(c, p) /\ ~Fills(d, p)
      BY <2>6, <2>7 DEF Second
    <3> QED
      BY <2>1, <2>4, <2>5, <3>1, <3>2, <3>3, Quietly DEF core
  <2>8. CASE c.pid = p /\ p \notin overtaken
    <3>1. Settled(p)
      BY <1>1, <2>1, <2>4, <2>5, <2>8, SettledBefore DEF core
    <3>2. Filled(c) /\ FillsShow(p)
      BY <2>2, <2>8, <3>1 DEF Settles, FillsShow, Fills
    <3>3. WiiUDone(c) => Shows("basic", p) /\ Shows("mii", p)
      BY <2>8, <3>2 DEF Filled
    <3>4. Current(p) \/ (Fills(d, p) /\ p \in ctrs)
      <4>1. CASE c.op = "upload"
        <5>1. p \in ctrs /\ Shows("ctr", p)
          BY <1>0, <2>2, <2>8, <3>2, <4>1 DEF SidedAs, Filled
        <5> QED
          BY <5>1, CurrentMeans
      <4>2. CASE c.op = "list"
        <5>1. c.side = Side(p)
          BY <1>0, <2>2, <2>8, <4>2 DEF SidedAs
        <5>2. CASE p \in ctrs
          BY <2>2, <2>8, <3>2, <5>1, <5>2, CurrentMeans DEF Filled, Side
        <5>3. CASE p \notin ctrs
          BY <2>2, <3>3, <4>2, <5>1, <5>3, CurrentMeans DEF WiiUDone, Side
        <5> QED
          BY <5>2, <5>3
      <4>3. CASE c.op = "update" /\ c.side = "wiiu"
        <5>1. Fills(d, p)
          BY <2>1, <2>8, <4>3 DEF Fills
        <5>2. WiiUDone(c)
          BY <2>2, <4>3 DEF WiiUDone
        <5> QED
          BY <3>3, <5>1, <5>2, CurrentMeans
      <4>4. CASE c.op = "update" /\ c.side = "ctr"
        <5>1. CASE p \in ctrs
          BY <2>2, <2>8, <3>2, <4>4, <5>1, CurrentMeans DEF Filled
        <5>2. CASE p \notin ctrs
          BY <2>2, <2>8, <3>3, <4>4, <5>2, CurrentMeans DEF WiiUDone
        <5> QED
          BY <5>1, <5>2
      <4> QED
        BY <2>2, <4>1, <4>2, <4>3, <4>4
    <3>5. ASSUME Fills(d, p) PROVE Filled(d)'
      <4>1. WiiUDone(c)
        BY <2>2, <2>6, <3>5 DEF WiiUDone
      <4>2. rows'["basic"][p] = profile /\ rows'["mii"][p] = profile
        BY <2>4, <3>3, <4>1 DEF Same, RowsKept
      <4> QED
        BY <1>1, <2>6, <3>5, <4>2 DEF Filled, Shows, Tables
    <3>6. FillsShow(p)'
      BY <2>1, <2>4, <3>1, <3>2, <3>5, CallSettles
    <3>7. CASE Current(p)
      BY <2>4, <3>6, <3>7, CurrentStays DEF MarkShows
    <3>8. CASE Fills(d, p)
      <4>1. Second(d, p) /\ s \in Updaters
        BY <1>0, <2>6, <3>8 DEF Second, SidedAs
      <4>2. Second(call[s], p)'
        BY <2>1, <4>1 DEF Goes, Typed, CallsOK, Second
      <4> QED
        BY <3>6, <4>1, <4>2 DEF MarkShows
    <3> QED
      BY <3>4, <3>7, <3>8
  <2>9. CASE c.pid = p /\ p \in overtaken
    <3>1. Current(p) /\ {r \in Procs : Filling(r, p)} \subseteq {s}
      BY <1>1, <1>9, <2>9 DEF MarkFilled, SetMark
    <3>2. ASSUME Fills(d, p) PROVE Filled(d)'
      <4>1. p \notin ctrs => rows'["basic"][p] = profile /\ rows'["mii"][p] = profile
        BY <2>4, <3>1, CurrentMeans DEF Same, RowsKept
      <4> QED
        BY <1>1, <2>6, <3>2, <4>1 DEF Filled, WiiUDone, Shows, Tables
    <3>3. ASSUME NEW r \in Procs, Fills(call[r], p)' PROVE Filled(call[r])'
      <4>1. PICK e : e = call'[r]
        OBVIOUS
      <4>2. Filled(e)'
        <5>1. CASE r = s
          BY <2>1, <3>2, <3>3, <4>1, <5>1 DEF Goes, Typed, CallsOK, Fills
        <5>2. CASE r # s
          <6>1. e = call[r] /\ e.pid = p
            BY <2>1, <3>3, <4>1, <5>2 DEF Goes, Typed, CallsOK, Fills
          <6>2. e.at \notin Tables \cup {"mark"} /\ ~(e.at = "ask" /\ e.op = "update" /\ e.side = "ctr")
            BY <3>1, <5>2, <6>1 DEF Filling
          <6> QED
            BY <6>2 DEF Filled, WiiUDone, Tables
        <5> QED
          BY <5>1, <5>2
      <4> QED
        BY <4>1, <4>2 DEF Filled, WiiUDone, Shows
    <3> QED
      BY <2>4, <3>1, <3>3, CurrentStays DEF FillsShow, MarkShows
  <2> QED
    BY <2>7, <2>8, <2>9
<1>10. CASE ServeOld(s)
  <2>1. PICK d : Goes(s, d) /\ (Passed(c, d, c.pid) \/ d = Idle)
    BY <1>10, ServeMoves
  <2>2. c.op = "list" /\ c.at = "failed" /\ c.pid \in PIDs
    BY <1>0, <1>10 DEF ServeOld, Fits
  <2>3. s \notin Updaters
    BY <1>0, <2>2, IdleFields DEF SidedAs
  <2>4. ~Fills(d, p) /\ ~Second(c, p)
    BY <2>1, <2>2, PassedKeeps, IdleFields, Names DEF Fills, Second
  <2>5. mark'[p] = "fresh" => mark[p] = "fresh"
    BY <1>10 DEF ServeOld, Typed, MarksOK
  <2> QED
    BY <1>2, <1>10, <2>1, <2>3, <2>4, <2>5, Quietly DEF ServeOld, core
<1>11. CASE PassOver(s)
  <2>1. ~ServeOld(s) /\ c.side \in {"wiiu", "ctr"}
    BY <1>0, <1>11 DEF ServeOld, PassOver, Call
  <2>2. PICK d : Goes(s, d) /\ Passed(c, d, c.pid)
    BY <1>11, <2>1, ServeMoves
  <2>3. ~Second(c, p)
    BY <1>1, <1>11 DEF PassOver, Second
  <2>4. ~Fills(d, p) /\ (p \in c.todo /\ c.pid # p => p \in d.todo /\ d.pid # p)
    BY <2>2, PassedKeeps
  <2> QED
    BY <1>2, <1>11, <2>2, <2>3, <2>4, Quietly DEF PassOver, core
<1>12. CASE s \in Updaters /\ ProfileUpdated(s)
  <2>1. p \in PIDs /\ overtaken' # PIDs
    BY <1>1
  <2>2. PICK d : Goes(s, d) /\ d.todo = PIDs /\ d.pid = NoPid
    BY <1>12, <2>1, EventMoves
  <2>3. call'[s] = d
    BY <2>2 DEF Goes, Typed, CallsOK
  <2> QED
    BY <1>12, <2>2, <2>3, Names DEF Settled, Awaited
<1>13. CASE s \in Updaters /\ Wake(s)
  <2>1. PICK d : Goes(s, d) /\ At(c, d, "pick") /\ c.at = "delay"
    BY <1>13, WakeMoves
  <2>2. c.pid = NoPid
    BY <1>0, <2>1 DEF SidedAs
  <2>3. ~Fills(d, p) /\ ~Second(c, p)
    BY <2>1, <2>2, Names DEF Fills, Second, At
  <2>4. p \in c.todo /\ c.pid # p => p \in d.todo /\ d.pid # p
    BY <2>1 DEF At
  <2> QED
    BY <1>2, <1>13, <2>1, <2>3, <2>4, Quietly DEF Wake, core
<1> QED
  BY <1>3, <1>4, <1>5, <1>6, <1>7, <1>8, <1>9, <1>10, <1>11, <1>12, <1>13 DEF CallSteps

\* ... and so does every other step: they write no profile, and take rows only
\* from an account that is gone.
LEMMA StepSettles ==
    ASSUME Typed, GoneIsFinal, Sided, Lags, Settles, [Next]_vars, Steps \/ UNCHANGED vars, NEW p \in PIDs, Settled(p)'
    PROVE  FillsShow(p)' /\ MarkShows(p)'
<1>1. profile' = profile /\ profile # Gone /\ ctrs' = ctrs /\ events' = 0 /\ p \notin overtaken'
  BY ChangeLeavesEvent, GoneStays DEF Settled
<1>2. CASE Restart
  <2>1. \A s \in Procs : call'[s].pid = NoPid
    BY <1>2, IdleFields DEF Restart
  <2>2. mark'[p] = "none"
    BY <1>2 DEF Restart
  <2> QED
    BY <2>1, <2>2, Names DEF FillsShow, Fills, MarkShows
<1>3. CASE ~Restart
  <2>1. events' = events /\ UNCHANGED <<call, overtaken>>
    <3>1. ~Update
      BY <1>1, Constants DEF Update, Typed, CoreOK
    <3> QED
      BY <1>3, <3>1 DEF Steps, vars, core, Delete, AdapterCatchesUp, Expire, Login, Leave, LookLastOnline,
         WriteLastOnline, Enter, Erase, Drop, Commit, PurgeAsk, PurgeDelete
  <2>2. Settled(p)
    BY <1>1, <2>1 DEF Settled, Awaited
  <2>3. FillsShow(p) /\ MarkShows(p)
    BY <2>2 DEF Settles
  <2>4. mark'[p] = "fresh" => mark[p] = "fresh"
    <3>1. ASSUME NEW q \in PIDs, Expire(q) PROVE mark'[p] = "fresh" => mark[p] = "fresh"
      BY <3>1 DEF Expire, Typed, MarksOK
    <3> QED
      BY <1>3, <3>1 DEF Steps, vars, Update, Delete, AdapterCatchesUp, Login, Leave, LookLastOnline,
         WriteLastOnline, Enter, Erase, Drop, Commit, PurgeAsk, PurgeDelete
  <2>5. RowsKept(p)
    <3>1. CASE UNCHANGED rows
      BY <3>1 DEF RowsKept, Shows
    <3>2. ASSUME NEW q \in PIDs, WriteLastOnline(q) PROVE RowsKept(p)
      <4>1. profile # NoRow
        BY <1>1, Constants DEF Typed, CoreOK
      <4>2. \A t \in Tables : rows[t][q] # NoRow => Upserted(t, q, Bare) = rows[t][q]
        BY DEF Upserted
      <4> QED
        BY <3>2, <4>1, <4>2 DEF WriteLastOnline, RowsKept, Shows, Typed, RowsOK, Tables
    <3>3. CASE Commit
      BY <1>1, <3>3 DEF Commit, GoneIsFinal
    <3>4. CASE PurgeDelete
      <4>1. purge.orphans = {}
        BY <1>1 DEF GoneIsFinal
      <4> QED
        BY <3>4, <4>1 DEF PurgeDelete, RowsKept, Shows, Typed, RowsOK, Tables
    <3> QED
      BY <1>3, <3>1, <3>2, <3>3, <3>4 DEF Steps, vars, Update, Delete, AdapterCatchesUp, Expire, Login, Leave,
         LookLastOnline, Enter, Erase, Drop, PurgeAsk
  <2>6. Same(p)
    BY <1>1, <2>5 DEF Same
  <2>7. FillsShow(p)'
    <3> SUFFICES ASSUME NEW r \in Procs, Fills(call[r], p)' PROVE Filled(call[r])'
      BY DEF FillsShow
    <3>1. PICK e : e = call[r]
      OBVIOUS
    <3>2. call'[r] = e
      BY <2>1, <3>1
    <3>3. Fills(e, p)
      BY <3>2 DEF Fills
    <3>4. Filled(e) /\ Same(e.pid)
      BY <2>3, <2>6, <3>1, <3>3, Zenon DEF FillsShow, Fills
    <3>5. Filled(e)'
      BY <3>4, FilledStays
    <3> QED
      BY <3>2, <3>5 DEF Filled, WiiUDone, Shows
  <2>8. MarkShows(p)'
    BY <2>1, <2>3, <2>4, <2>6, CurrentStays DEF MarkShows, Second
  <2> QED
    BY <2>7, <2>8
<1> QED
  BY <1>2, <1>3

LEMMA SettlesStep == Typed /\ GoneIsFinal /\ Sided /\ Lags /\ Settles /\ [Next]_vars => Settles'
<1> SUFFICES ASSUME Typed, GoneIsFinal, Sided, Lags, Settles, [Next]_vars, NEW p \in PIDs, Settled(p)'
             PROVE  FillsShow(p)' /\ MarkShows(p)'
  BY DEF Settles
<1> QED
  BY CallStepSettles, StepSettles, NextSteps

LEMMA InitSettles == Init => Lags /\ Settles
BY IdleFields, Names DEF Init, Lags, Settles, FillsShow, Fills, MarkShows

\* A PID that is settled shows what is marked; any other one has a goroutine before
\* it or is in overtaken.
LEMMA SettlesIsFresh == Sided /\ Settles => FreshIsCurrent
<1> SUFFICES ASSUME Sided, Settles, profile # Gone, events = 0, NEW p \in PIDs, mark[p] = "fresh", ~Current(p),
                    p \notin overtaken
             PROVE  AtWork(p)
  BY DEF FreshIsCurrent
<1>1. CASE Awaited(p)
  BY <1>1, IdleFields DEF Awaited, AtWork
<1>2. CASE Settled(p)
  <2>1. PICK u \in Updaters : Second(call[u], p)
    BY <1>2 DEF Settles, MarkShows
  <2>2. p \in call[u].todo
    BY <2>1 DEF Second, Sided, SidedAs, Procs
  <2> QED
    BY <2>2, IdleFields DEF AtWork
<1> QED
  BY <1>1, <1>2 DEF Settled

\* profilecache.go:1-6: once its events are read and their goroutines are through, a
\* PID that is trusted shows the profile of the core, for any number of PIDs, calls
\* and goroutines in any order, but for the PIDs of overtaken.
THEOREM TheFreshAreCurrent == Spec => []FreshIsCurrent
BY InitTyped, NextTyped, InitGone, GoneStep, InitSided, SidedStep, InitSettles, LagsStep, SettlesStep,
   SettlesIsFresh, PTL DEF Spec
=============================================================================
