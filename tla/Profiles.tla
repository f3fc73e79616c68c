------------------------------ MODULE Profiles ------------------------------
(***************************************************************************)
(* The names and Miis kept for one account: the rows of its PIDs, the      *)
(* freshness marks of profilecache, the fills of EnsureProfiles and        *)
(* RefreshProfile on both platforms, the goroutine of profileUpdated, the  *)
(* writes a console makes itself, the erasure of the account and the purge *)
(* at start.  One step per query: an event, a read or an erasure may fall  *)
(* between any two of them.                                                *)
(*                                                                         *)
(* The core's profile is a version number, or Gone once the account is     *)
(* being deleted.  nn-account, which answers the fills, follows the core   *)
(* with a delay.  A row holds the version it was written from, or Bare     *)
(* when it only says that the console was here.                            *)
(***************************************************************************)
EXTENDS Naturals

CONSTANTS
    PIDs,         \* the console identities of the account
    Slots,        \* calls of consoles in progress at once
    Updaters,     \* goroutines of profileUpdated running at once
    MaxVersion,   \* bound: changes of the profile, its deletion included
    MaxFails,     \* bound: calls and statements that fail, and restarts
    MaxLogins,    \* bound: logins
    NoRow, Bare, Gone, NoPid

ASSUME SlotsAssumption == Slots \cap Updaters = {}
ASSUME BoundsAssumption == {MaxVersion, MaxFails, MaxLogins} \subseteq Nat
ASSUME NoneAssumption ==
    /\ NoPid \notin PIDs
    /\ Gone # NoRow /\ Gone # Bare /\ NoRow # Bare
    /\ {NoRow, Bare, Gone} \cap Nat = {}

VARIABLES
    ctrs,       \* the PIDs of a 3DS; the others are a Wii U's
    profile,    \* the core's version of the name and Mii, or Gone
    adapter,    \* the version nn-account answers with, or Gone
    events,     \* profile_updated events the event loop has not read
    rows,       \* table -> PID -> what its row holds, or NoRow
    mark,       \* profilecache: PID -> "none", "fresh" or "failed"
    call,       \* a slot's or an updater's call, and how far it is
    visit,      \* PID -> how far its session is
    eraser,     \* the erasure: how far it is, and whether its drop was final
    purge,      \* the purge at start: how far it is, and what it found
    fails, logins,
    overtaken,  \* history: PIDs that an update may have left outdated
    erased      \* history: "no", or how the last erasure that mattered went

vars == <<ctrs, profile, adapter, events, rows, mark, call, visit, eraser, purge,
          fails, logins, overtaken, erased>>

core == <<ctrs, profile, adapter, events>>
removal == <<eraser, purge, erased>>
console == <<visit, logins>>

Versions == 0 .. MaxVersion
Tables == {"basic", "mii", "user", "ctr"}
Procs == Slots \cup Updaters

Ops == {"list", "settings", "signin", "upload", "update"}
Idle == [at |-> "idle", op |-> "list", todo |-> {}, pid |-> NoPid, side |-> "wiiu", got |-> Gone]

\* The platform whose lists show a PID.
Side(p) == IF p \in ctrs THEN "ctr" ELSE "wiiu"

\* hasProfileRow of the PID's platform.
HasProfileRow(p) == rows[IF p \in ctrs THEN "ctr" ELSE "basic"][p] # NoRow

\* The rows a list joins for a PID: a Wii U's, and a 3DS's.
ShownWUP(p) == {rows["basic"][p], rows["mii"][p]}
ShownCTR(p) == {rows["ctr"][p]}

Current(p) == (IF p \in ctrs THEN ShownCTR(p) ELSE ShownWUP(p)) = {profile}

\* A call or a statement fails.
Fail == fails < MaxFails /\ fails' = fails + 1

Init ==
    /\ ctrs \in SUBSET PIDs
    /\ profile = 0 /\ adapter = 0 /\ events = 0
    /\ rows = [t \in Tables |-> [p \in PIDs |-> NoRow]]
    /\ mark = [p \in PIDs |-> "none"]
    /\ call = [s \in Procs |-> Idle]
    /\ visit = [p \in PIDs |-> "off"]
    /\ eraser = [at |-> "idle", final |-> FALSE]
    /\ purge = [at |-> "ask", orphans |-> {}]
    /\ fails = 0 /\ logins = 0
    /\ overtaken = {}
    /\ erased = "no"

-----------------------------------------------------------------------------
\* The core and nn-account: external.

\* The name or Mii changes outside this service, and the event is queued.
Update ==
    /\ profile # Gone /\ profile < MaxVersion
    /\ profile' = profile + 1
    /\ events' = events + 1
    /\ UNCHANGED <<ctrs, adapter, rows, mark, call, console, removal, fails, overtaken>>

\* The account's deletion starts.
Delete ==
    /\ profile # Gone /\ profile < MaxVersion
    /\ profile' = Gone
    /\ UNCHANGED <<ctrs, adapter, events, rows, mark, call, console, removal, fails, overtaken>>

AdapterCatchesUp ==
    /\ adapter # profile
    /\ adapter' = profile
    /\ UNCHANGED <<ctrs, profile, events, rows, mark, call, console, removal, fails, overtaken>>

-----------------------------------------------------------------------------
(***************************************************************************)
(* profilecache.                                                           *)
(***************************************************************************)
Fresh(p) == mark[p] # "none"

\* A call has an answer for this PID and has yet to write it or to mark it, or is
\* a goroutine that asks for the second platform and will mark the PID again.
Filling(s, p) ==
    /\ call[s].pid = p
    /\ \/ call[s].at \in Tables \cup {"mark"}
       \/ call[s].at = "ask" /\ call[s].op = "update" /\ call[s].side = "ctr"

\* Mark, after a call that wrote what it had.
SetMark(q, p) ==
    /\ mark' = [mark EXCEPT ![p] = "fresh"]
    /\ overtaken' = IF Current(p) /\ adapter = profile /\ {s \in Procs : Filling(s, p)} \subseteq {q}
                    THEN overtaken \ {p} ELSE overtaken

\* Faulty: only what failed is asked again, what succeeded waits for an event.
ExpireFailedOnly(p) ==
    /\ mark[p] = "failed"
    /\ mark' = [mark EXCEPT ![p] = "none"]
    /\ UNCHANGED <<core, rows, call, console, removal, fails, overtaken>>

\* The time set by Mark or MarkFailed is over.
Expire(p) ==
    /\ mark[p] # "none"
    /\ mark' = [mark EXCEPT ![p] = "none"]
    /\ UNCHANGED <<core, rows, call, console, removal, fails, overtaken>>

-----------------------------------------------------------------------------
(***************************************************************************)
(* EnsureProfiles and the steps of RefreshProfile.                         *)
(***************************************************************************)

\* The loop over the PIDs goes on, or the call ends.
Onward(c, next) == IF c.todo \ {c.pid} = {} THEN Idle
                   ELSE [Idle EXCEPT !.at = next, !.op = c.op, !.todo = c.todo \ {c.pid}]

\* A list of friends, requests, names or Miis starts with EnsureProfiles.
List(s, S) ==
    /\ call[s] = Idle
    /\ S # {} /\ (S \subseteq ctrs \/ S \cap ctrs = {})
    /\ call' = [call EXCEPT ![s] = [Idle EXCEPT !.at = "look", !.op = "list", !.todo = S]]
    /\ UNCHANGED <<core, rows, mark, console, removal, fails, overtaken>>

\* EnsureProfiles: a fresh PID is skipped, another one is asked for.
Look(s, p) ==
    /\ call[s].at = "look" /\ p \in call[s].todo
    /\ call' = [call EXCEPT ![s] =
                  IF Fresh(p) THEN Onward([@ EXCEPT !.pid = p], "look")
                  ELSE [@ EXCEPT !.at = "ask", !.pid = p, !.side = Side(p)]]
    /\ UNCHANGED <<core, rows, mark, console, removal, fails, overtaken>>

\* Faulty: caches what a deleted account answers.
AskIgnoresDeleted(s) ==
    /\ call[s].at = "ask"
    /\ call' = [call EXCEPT ![s].at = IF call[s].side = "ctr" THEN "ctr" ELSE "basic", ![s].got = adapter]
    /\ UNCHANGED <<core, rows, mark, console, removal, fails, overtaken>>

\* RefreshProfile: GetUserData.  A deleted account is an error, as no answer is.
Ask(s) ==
    /\ call[s].at = "ask"
    /\ \/ /\ adapter # Gone
          /\ call' = [call EXCEPT ![s].at = IF call[s].side = "ctr" THEN "ctr" ELSE "basic",
                                  ![s].got = adapter]
          /\ UNCHANGED fails
       \/ /\ adapter = Gone
          /\ call' = [call EXCEPT ![s].at = "failed"]
          /\ UNCHANGED fails
       \/ /\ Fail
          /\ call' = [call EXCEPT ![s].at = "failed"]
    /\ UNCHANGED <<core, rows, mark, console, removal, overtaken>>

\* Where a call goes after a statement that succeeded, and after one that failed.
AfterWrite(c) ==
    CASE c.at = "basic" -> [c EXCEPT !.at = "mii"]
      [] c.at = "mii" /\ c.op # "signin" -> [c EXCEPT !.at = "user"]
      [] c.at \in {"user", "ctr"} /\ c.op # "settings" -> [c EXCEPT !.at = "mark"]
      [] OTHER -> Idle

AfterError(c) == IF c.op \in {"list", "update"} THEN [c EXCEPT !.at = "failed"] ELSE Idle

\* The row an upsert leaves: user_data, and a console's settings, touch no
\* name and no Mii.
Upserted(t, p, v) == IF t # "user" /\ v # Bare THEN v
                     ELSE IF rows[t][p] = NoRow THEN Bare ELSE rows[t][p]

\* The next statement of RefreshProfile, of UpdateUserPrincipalBasicInfo and
\* UpdateUserMii at a sign-in, or of the upload of a Mii.
Write(s) ==
    LET c == call[s] IN
    /\ c.at \in Tables
    /\ \/ /\ rows' = [rows EXCEPT ![c.at][c.pid] = Upserted(c.at, c.pid, c.got)]
          /\ call' = [call EXCEPT ![s] = AfterWrite(c)]
          /\ overtaken' = IF c.op = "signin" /\ c.got # profile THEN overtaken \cup {c.pid} ELSE overtaken
          /\ UNCHANGED fails
       \/ /\ Fail
          /\ call' = [call EXCEPT ![s] = AfterError(c)]
          /\ UNCHANGED <<rows, overtaken>>
    /\ UNCHANGED <<core, mark, console, removal>>

\* profilecache.Mark at the end of a fill or an upload.  The goroutine goes on
\* with the other platform, then with its next PID.
MarkFilled(s) ==
    LET c == call[s] IN
    /\ c.at = "mark"
    /\ SetMark(s, c.pid)
    /\ call' = [call EXCEPT ![s] =
                  CASE c.op = "list" -> Onward(c, "look")
                    [] c.op = "upload" -> Idle
                    [] c.op = "update" /\ c.side = "wiiu" -> [c EXCEPT !.at = "ask", !.side = "ctr", !.got = Gone]
                    [] c.op = "update" /\ c.side = "ctr" -> Onward(c, "pick")]
    /\ UNCHANGED <<core, rows, console, removal, fails>>

\* Faulty: a failed refresh is marked whether there is a row or not.
ServeWithoutRow(s) ==
    LET c == call[s] IN
    /\ c.at = "failed" /\ c.op = "list"
    /\ mark' = [mark EXCEPT ![c.pid] = "failed"]
    /\ call' = [call EXCEPT ![s] = Onward(c, "look")]
    /\ UNCHANGED <<core, rows, console, removal, fails, overtaken>>

\* EnsureProfiles after a failed refresh: the old row is served for a while,
\* and without one, or when the row cannot be read, the call ends in an error.
ServeOld(s) ==
    LET c == call[s] IN
    /\ c.at = "failed" /\ c.op = "list"
    /\ \/ /\ HasProfileRow(c.pid)
          /\ mark' = [mark EXCEPT ![c.pid] = "failed"]
          /\ call' = [call EXCEPT ![s] = Onward(c, "look")]
          /\ UNCHANGED fails
       \/ /\ IF HasProfileRow(c.pid) THEN Fail ELSE UNCHANGED fails
          /\ call' = [call EXCEPT ![s] = Idle]
          /\ UNCHANGED mark
    /\ UNCHANGED <<core, rows, console, removal, overtaken>>

-----------------------------------------------------------------------------
(***************************************************************************)
(* What a connected console writes itself.                                 *)
(***************************************************************************)

\* A comment, a preference, a favourite game: an upsert of the settings.
Settings(s, p) ==
    /\ call[s] = Idle /\ visit[p] = "on"
    /\ call' = [call EXCEPT ![s] = [Idle EXCEPT !.at = IF p \in ctrs THEN "ctr" ELSE "user",
                                               !.op = "settings", !.pid = p, !.got = Bare]]
    /\ UNCHANGED <<core, rows, mark, console, removal, fails, overtaken>>

\* UpdateAndGetAllInformation: the name and the Mii the Wii U has.
SignIn(s, p) ==
    /\ call[s] = Idle /\ visit[p] = "on" /\ p \notin ctrs
    /\ \E v \in {w \in Versions : profile = Gone \/ w <= profile} :
         call' = [call EXCEPT ![s] = [Idle EXCEPT !.at = "basic", !.op = "signin", !.pid = p, !.got = v]]
    /\ UNCHANGED <<core, rows, mark, console, removal, fails, overtaken>>

\* A 3DS uploads a Mii: the core takes it first.  What the core refuses, and
\* what it takes without answering, is not written here; a PID without an
\* account any more keeps the row alone.
Upload(s, p) ==
    /\ call[s] = Idle /\ visit[p] = "on" /\ p \in ctrs
    /\ \/ /\ profile # Gone /\ profile < MaxVersion
          /\ profile' = profile + 1
          /\ events' = events + 1
       \/ profile = Gone /\ UNCHANGED <<profile, events>>
    /\ call' = [call EXCEPT ![s] = [Idle EXCEPT !.at = "ctr", !.op = "upload", !.pid = p,
                                               !.got = IF profile = Gone THEN 0 ELSE profile + 1]]
    /\ UNCHANGED <<ctrs, adapter, rows, mark, console, removal, fails, overtaken>>

-----------------------------------------------------------------------------
(***************************************************************************)
(* profileUpdated.                                                         *)
(***************************************************************************)

\* coregraph.PIDsOfAccount: the PIDs on the account's links and the one
\* nn-account resolves.  Where it fails, its caller does.
PIDsOfAccount == PIDs

\* The event loop reads the event: every PID is invalidated and the goroutine
\* starts.  When the PIDs cannot be had the event is lost.
ProfileUpdated(u) ==
    /\ events > 0 /\ call[u] = Idle
    /\ events' = events - 1
    /\ \/ /\ mark' = [p \in PIDs |-> IF p \in PIDsOfAccount THEN "none" ELSE mark[p]]
          /\ call' = [call EXCEPT ![u] = [Idle EXCEPT !.at = "delay", !.op = "update", !.todo = PIDsOfAccount]]
          /\ UNCHANGED <<fails, overtaken>>
       \/ /\ Fail
          /\ overtaken' = PIDsOfAccount
          /\ UNCHANGED <<mark, call>>
    /\ UNCHANGED <<ctrs, profile, adapter, rows, console, removal>>

\* refreshDelay is over: it is there for nn-account to have the new profile.
Wake(u) ==
    /\ call[u].at = "delay"
    /\ adapter = profile
    /\ call' = [call EXCEPT ![u].at = "pick"]
    /\ UNCHANGED <<core, rows, mark, console, removal, fails, overtaken>>

\* Faulty: a PID that was read in the meantime is left as it is.
PickTrustsMark(u, p) ==
    LET c == [call[u] EXCEPT !.pid = p, !.side = "wiiu"]
        known == rows["basic"][p] # NoRow \/ rows["ctr"][p] # NoRow
    IN
    /\ c.at = "pick" /\ p \in c.todo
    /\ call' = [call EXCEPT ![u] = IF known /\ ~Fresh(p) THEN [c EXCEPT !.at = "ask"] ELSE Onward(c, "pick")]
    /\ UNCHANGED <<core, rows, mark, console, removal, fails, overtaken>>

\* The next PID is invalidated again, and asked for if it has rows.  A count
\* that fails passes the PID over.
Pick(u, p) ==
    LET c == [call[u] EXCEPT !.pid = p, !.side = "wiiu"]
        known == rows["basic"][p] # NoRow \/ rows["ctr"][p] # NoRow
    IN
    /\ c.at = "pick" /\ p \in c.todo
    /\ mark' = [mark EXCEPT ![p] = "none"]
    /\ overtaken' = IF \E s \in Procs \ {u} : Filling(s, p) THEN overtaken \cup {p} ELSE overtaken
    /\ \/ /\ call' = [call EXCEPT ![u] = IF known THEN [c EXCEPT !.at = "ask"] ELSE Onward(c, "pick")]
          /\ UNCHANGED fails
       \/ /\ Fail
          /\ call' = [call EXCEPT ![u] = Onward(c, "pick")]
    /\ UNCHANGED <<core, rows, console, removal>>

\* A refresh of the goroutine failed: on to the next PID.  The other platform
\* may have marked this one already.
PassOver(u) ==
    LET c == call[u] IN
    /\ c.at = "failed" /\ c.op = "update"
    /\ call' = [call EXCEPT ![u] = Onward(c, "pick")]
    /\ overtaken' = IF c.side = "ctr" THEN overtaken \cup {c.pid} ELSE overtaken
    /\ UNCHANGED <<core, rows, mark, console, removal, fails>>

-----------------------------------------------------------------------------
(***************************************************************************)
(* The sessions, as far as they write rows: RegisterEx and the             *)
(* connection-ended handler write the last time online.                    *)
(***************************************************************************)

\* A console logs in: nn-account must know its account.
Login(p) ==
    /\ visit[p] = "off" /\ adapter # Gone
    /\ logins < MaxLogins /\ logins' = logins + 1
    /\ visit' = [visit EXCEPT ![p] = "entering"]
    /\ UNCHANGED <<core, rows, mark, call, removal, fails, overtaken>>

\* The connection ends: the handler is started.
Leave(p) ==
    /\ visit[p] = "on"
    /\ visit' = [visit EXCEPT ![p] = "leaving"]
    /\ UNCHANGED <<core, rows, mark, call, logins, removal, fails, overtaken>>

LastOnlineDone(at) == IF at \in {"entering", "enterWrites"} THEN "entered" ELSE "off"

\* The 3DS form of UpdateUserLastOnlineTime looks at the row before it writes;
\* without a row, or with one that does not show the time, it writes nothing.
LookLastOnline(p) ==
    /\ p \in ctrs /\ visit[p] \in {"entering", "leaving"}
    /\ \/ visit' = [visit EXCEPT ![p] = LastOnlineDone(@)]
       \/ /\ rows["ctr"][p] # NoRow
          /\ visit' = [visit EXCEPT ![p] = IF @ = "entering" THEN "enterWrites" ELSE "leaveWrites"]
    /\ UNCHANGED <<core, rows, mark, call, logins, removal, fails, overtaken>>

\* The upsert of the last time online.  A login whose write fails is refused.
WriteLastOnline(p) ==
    LET t == IF p \in ctrs THEN "ctr" ELSE "user" IN
    /\ visit[p] \in (IF p \in ctrs THEN {"enterWrites", "leaveWrites"} ELSE {"entering", "leaving"})
    /\ \/ /\ rows' = [rows EXCEPT ![t][p] = Upserted(t, p, Bare)]
          /\ visit' = [visit EXCEPT ![p] = LastOnlineDone(@)]
          /\ UNCHANGED fails
       \/ /\ Fail
          /\ visit' = [visit EXCEPT ![p] = "off"]
          /\ UNCHANGED rows
    /\ UNCHANGED <<core, mark, call, logins, removal, overtaken>>

\* RegisterEx: the entry of ConnectedUsers.
Enter(p) ==
    /\ visit[p] = "entered"
    /\ visit' = [visit EXCEPT ![p] = "on"]
    /\ UNCHANGED <<core, rows, mark, call, logins, removal, fails, overtaken>>

-----------------------------------------------------------------------------
(***************************************************************************)
(* erase.Eraser.Erase.  A PID lookup that fails changes nothing.           *)
(***************************************************************************)
\* What the finaliser's request, or an account_deleted event, starts.
Asked == [at |-> "drop", final |-> FALSE]

Erase ==
    /\ profile = Gone /\ eraser.at = "idle"
    /\ eraser' = Asked
    /\ UNCHANGED <<core, rows, mark, call, console, purge, erased, fails, overtaken>>

\* Faulty: deletes under sessions that go on.
DropNobody ==
    /\ eraser.at = "drop"
    /\ eraser' = [at |-> "commit",
                  final |-> adapter = Gone /\ \A p \in PIDs : visit[p] \notin {"entering", "enterWrites", "entered"}]
    /\ UNCHANGED <<core, rows, mark, call, console, purge, erased, fails, overtaken>>

\* Drop: the sessions in ConnectedUsers end.  It is final when no console is
\* on its way in and none can come any more.
Drop ==
    /\ eraser.at = "drop"
    /\ visit' = [p \in PIDs |-> IF visit[p] = "on" THEN "leaving" ELSE visit[p]]
    /\ eraser' = [at |-> "commit",
                  final |-> adapter = Gone /\ \A p \in PIDs : visit[p] \notin {"entering", "enterWrites", "entered"}]
    /\ UNCHANGED <<core, rows, mark, call, logins, purge, erased, fails, overtaken>>

\* A call or an end handler that will still write.
InFlight == \/ \E s \in Procs : call[s].at \in Tables
            \/ \E p \in PIDs : visit[p] \in {"leaving", "leaveWrites"}

\* The transaction commits, or is rolled back.
Commit ==
    /\ eraser.at = "commit"
    /\ eraser' = [at |-> "idle", final |-> FALSE]
    /\ \/ /\ rows' = [t \in Tables |-> [p \in PIDs |-> NoRow]]
          /\ erased' = IF erased = "clean" \/ (eraser.final /\ ~InFlight) THEN "clean" ELSE "late"
          /\ UNCHANGED fails
       \/ /\ Fail
          /\ UNCHANGED <<rows, erased>>
    /\ UNCHANGED <<core, mark, call, console, purge, overtaken>>

-----------------------------------------------------------------------------
(***************************************************************************)
(* PurgeOrphans.                                                           *)
(***************************************************************************)

CachedPIDs == {p \in PIDs : \E t \in Tables : rows[t][p] # NoRow}

Again == [at |-> "ask", orphans |-> {}]

\* Faulty: an account nn-account does not answer for counts as gone.
PurgeSilent ==
    /\ purge.at = "ask"
    /\ \E S \in SUBSET CachedPIDs :
         /\ IF S # {} /\ adapter # Gone THEN Fail ELSE UNCHANGED fails
         /\ purge' = [at |-> IF S = {} THEN "done" ELSE "user", orphans |-> S]
    /\ UNCHANGED <<core, rows, mark, call, console, eraser, erased, overtaken>>

\* cachedPIDs, then isOrphan of each.  A PID asked about before nn-account knew
\* of the deletion counts as living.  Any other error starts the attempt again.
PurgeAsk ==
    /\ purge.at = "ask"
    /\ \/ /\ \E S \in SUBSET CachedPIDs :
               /\ S # {} => adapter = Gone
               /\ purge' = [at |-> IF S = {} THEN "done" ELSE "user", orphans |-> S]
          /\ UNCHANGED fails
       \/ Fail /\ UNCHANGED purge
    /\ UNCHANGED <<core, rows, mark, call, console, eraser, erased, overtaken>>

PurgeNext == [user |-> "basic", basic |-> "mii", mii |-> "ctr", ctr |-> "done"]

\* deleteRows: a statement per table, in no transaction.
PurgeDelete ==
    /\ purge.at \in Tables
    /\ \/ /\ rows' = [rows EXCEPT ![purge.at] = [p \in PIDs |-> IF p \in purge.orphans THEN NoRow ELSE @[p]]]
          /\ purge' = [purge EXCEPT !.at = PurgeNext[@]]
          /\ UNCHANGED fails
       \/ /\ Fail
          /\ purge' = Again
          /\ UNCHANGED rows
    /\ UNCHANGED <<core, mark, call, console, eraser, erased, overtaken>>

-----------------------------------------------------------------------------
\* The service stops and starts: marks, calls, sessions and goroutines are gone.
Restart ==
    /\ Fail
    /\ mark' = [p \in PIDs |-> "none"]
    /\ call' = [s \in Procs |-> Idle]
    /\ visit' = [p \in PIDs |-> "off"]
    /\ eraser' = [at |-> "idle", final |-> FALSE]
    /\ purge' = Again
    /\ overtaken' = overtaken \cup UNION {call[u].todo : u \in Updaters}
    /\ UNCHANGED <<core, rows, logins, erased>>

Calls ==
    \E s \in Procs :
        \/ \E S \in SUBSET PIDs : s \in Slots /\ List(s, S)
        \/ \E p \in PIDs : s \in Slots /\ (Settings(s, p) \/ SignIn(s, p) \/ Upload(s, p))
        \/ \E p \in PIDs : Look(s, p) \/ Pick(s, p)
        \/ Ask(s) \/ Write(s) \/ MarkFilled(s) \/ ServeOld(s) \/ PassOver(s)
        \/ s \in Updaters /\ (ProfileUpdated(s) \/ Wake(s))

Sessions == \E p \in PIDs : Login(p) \/ Leave(p) \/ LookLastOnline(p) \/ WriteLastOnline(p) \/ Enter(p)

Next ==
    \/ Update \/ Delete \/ AdapterCatchesUp
    \/ \E p \in PIDs : Expire(p)
    \/ Calls
    \/ Sessions
    \/ Erase \/ Drop \/ Commit
    \/ PurgeAsk \/ PurgeDelete
    \/ Restart

-----------------------------------------------------------------------------
\* The shape of the state.  No row is written from what nn-account says of a
\* deleted account (GetDeleted, ensure_profiles.go:62).
TypeOK ==
    /\ ctrs \in SUBSET PIDs
    /\ profile \in Versions \cup {Gone} /\ adapter \in Versions \cup {Gone}
    /\ events \in 0 .. MaxVersion
    /\ rows \in [Tables -> [PIDs -> Versions \cup {NoRow, Bare}]]
    /\ mark \in [PIDs -> {"none", "fresh", "failed"}]
    /\ call \in [Procs -> [at : Tables \cup {"idle", "look", "ask", "mark", "failed", "delay", "pick"},
                           op : Ops, todo : SUBSET PIDs, pid : PIDs \cup {NoPid},
                           side : {"wiiu", "ctr"}, got : Versions \cup {Gone, Bare}]]
    /\ visit \in [PIDs -> {"off", "entering", "enterWrites", "entered", "on", "leaving", "leaveWrites"}]
    /\ eraser \in [at : {"idle", "drop", "commit"}, final : BOOLEAN]
    /\ purge \in [at : Tables \cup {"ask", "done"}, orphans : SUBSET PIDs]
    /\ fails \in 0 .. MaxFails /\ logins \in 0 .. MaxLogins
    /\ overtaken \in SUBSET PIDs
    /\ erased \in {"no", "clean", "late"}

\* database/wiiu/ensure_profiles.go:22-26 and the 3DS one: a mark, fresh or
\* failed, stands for a row that can be served.  A PID with a mark is not asked
\* for, and the list's query drops a PID without a row in silence: a friend
\* would be missing until the mark expires.
ServedHasRow == \A p \in PIDs : profile # Gone /\ Fresh(p) => HasProfileRow(p)

\* A goroutine of profileUpdated has yet to refresh the PID.
AtWork(p) == \E u \in Updaters : call[u] # Idle /\ p \in call[u].todo

\* profilecache.go:1-6: after a profile_updated event no old row is trusted.
\* Whatever was read while nn-account was behind, a PID marked fresh shows the
\* profile of the core once the event is read and its goroutine is through,
\* but for a PID in overtaken: the goroutine failed on it or died, the event
\* was lost, another fill was half way when the goroutine reached it, or the
\* console wrote an old copy.  Those wait for the mark to expire.
FreshIsCurrent ==
    profile # Gone /\ events = 0 =>
        \A p \in PIDs : mark[p] = "fresh" /\ ~Current(p) => AtWork(p) \/ p \in overtaken

\* erase.go:58-59: once nn-account knows of the deletion, an erasure that found
\* no call and no end handler half way leaves nothing that brings a row back:
\* no session ends later, no login, read or goroutine writes again.
ErasedStaysErased == erased = "clean" => \A t \in Tables, p \in PIDs : rows[t][p] = NoRow

\* coreevents/profile.go:56-60: rows disappear only when the account does,
\* whatever fails during a purge.
KeepsTheLiving ==
    [][\A t \in Tables, p \in PIDs : rows[t][p] # NoRow /\ rows'[t][p] = NoRow => profile = Gone]_vars

NoCopies == \A s \in Slots : call[s].op # "signin"

\* profilecache.go:13: with or without its event, a change of the profile gets
\* into the rows of every PID somebody reads, and stays there, unless a console
\* goes on writing copies of its own.
UpdateIsShown == <>[]NoCopies => \A p \in PIDs : <>[](profile = Gone \/ Current(p))

-----------------------------------------------------------------------------
Spec == Init /\ [][Next]_vars

\* A step of a call in progress.
Proceed(s) ==
    \/ \E p \in PIDs : Look(s, p) \/ Pick(s, p)
    \/ Ask(s) \/ Write(s) \/ MarkFilled(s) \/ ServeOld(s) \/ PassOver(s)

\* Calls and goroutines go on, time passes, the event loop and nn-account get
\* to what they have to read, and every PID is listed again and again.
FairSpec ==
    /\ Spec
    /\ WF_vars(AdapterCatchesUp)
    /\ \A s \in Procs : WF_vars(Proceed(s))
    /\ \A u \in Updaters : WF_vars(ProfileUpdated(u)) /\ WF_vars(Wake(u))
    /\ \A p \in PIDs : WF_vars(Expire(p)) /\ SF_vars(\E s \in Slots : List(s, {p}))
=============================================================================
