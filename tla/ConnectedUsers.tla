--------------------------- MODULE ConnectedUsers ---------------------------
(***************************************************************************)
(* Who is connected: the map globals.ConnectedUsers, the two maps of       *)
(* globals/connected_accounts.go that tell which account is behind a PID,  *)
(* the handlers that fill them (RegisterEx, UpdateAndGetAllInformation,    *)
(* UpdatePresence), the connection-ended handler that empties them, and    *)
(* dropAccount and erase's dropSessions, which end connections by PID.     *)
(*                                                                         *)
(* Calls of a connection, ends of connections, the goroutines              *)
(* MarkAccountOnline starts and the event loop interleave: each map access *)
(* is a step of its own.  The transport (nex-go) is external: it opens a   *)
(* connection, reports its end once, and runs the end handler beside the   *)
(* handlers of calls that are still in progress.                           *)
(***************************************************************************)
EXTENDS Naturals

CONSTANTS
    PIDs,        \* console identities
    Conns,       \* connections; one is reused after its end was handled
    Accounts,    \* accounts of the core
    PidOf,       \* the PID a connection logged in with
    AccountOf,   \* the account behind a PID, or NoAccount
    CTRs,        \* the connections of 3DS consoles; the others are Wii Us
    NoConn, NoAccount, NoPid

ASSUME PidAssumption == PidOf \in [Conns -> PIDs]
ASSUME AccountAssumption == AccountOf \in [PIDs -> Accounts \cup {NoAccount}]
ASSUME CTRAssumption == CTRs \subseteq Conns
ASSUME NoneAssumption == NoConn \notin Conns /\ NoAccount \notin Accounts /\ NoPid \notin PIDs

VARIABLES
    conn,       \* the transport's connection: "open" or "closed"
    call,       \* the call in progress on it, and how far it is
    ending,     \* how far the connection-ended handler is
    users,      \* ConnectedUsers: the connection of the entry of a PID
    accounts,   \* connectedAccounts: account -> PID
    pids,       \* connectedPIDs: PID -> account
    marking,    \* connections whose MarkAccountOnline goroutine is running
    dropping,   \* PIDs whose session the event loop or erase is about to end
    late        \* history: connections that ended during one of their calls

vars == <<conn, call, ending, users, accounts, pids, marking, dropping, late>>

registry == <<users, accounts, pids>>
handlers == <<call, ending>>

Calls == {"none", "registering", "allInformation", "presence"}
Ends  == {"none", "queued", "leaving", "unmarking"}

Init ==
    /\ conn = [c \in Conns |-> "closed"]
    /\ call = [c \in Conns |-> "none"]
    /\ ending = [c \in Conns |-> "none"]
    /\ users = [p \in PIDs |-> NoConn]
    /\ accounts = [a \in Accounts |-> NoPid]
    /\ pids = [p \in PIDs |-> NoAccount]
    /\ marking = {}
    /\ dropping = {}
    /\ late = {}

-----------------------------------------------------------------------------
(***************************************************************************)
(* Faulty variants of the definitions below, each a slip this code could   *)
(* have: the properties at the end tell them from the real ones.           *)
(***************************************************************************)

\* Forgets that the account still maps to the PID.
MarkOfflineKeepsAccount(p) ==
    /\ pids' = [pids EXCEPT ![p] = NoAccount]
    /\ UNCHANGED accounts

\* Forgets the PID's own record.
MarkOfflineKeepsPid(p) ==
    /\ UNCHANGED pids
    /\ accounts' = [a \in Accounts |-> IF a = pids[p] /\ accounts[a] = p THEN NoPid ELSE accounts[a]]

\* The one PID of OnlinePIDOfAccount, its ok not looked at.
OnlinePIDsSingle(a) == {accounts[a]}

\* Returns early for a PID whose account was never recorded.
EndLookupByAccount(c) ==
    /\ ending[c] = "queued"
    /\ ending' = [ending EXCEPT ![c] = IF pids[PidOf[c]] = NoAccount THEN "none" ELSE "leaving"]
    /\ UNCHANGED <<conn, call, registry, marking, dropping, late>>

\* Notifies and unmarks, and leaves the entry.
EndDeleteForgotten(c) ==
    /\ ending[c] = "leaving"
    /\ ending' = [ending EXCEPT ![c] = "unmarking"]
    /\ UNCHANGED <<conn, call, registry, marking, dropping, late>>

-----------------------------------------------------------------------------
\* globals.MarkAccountOffline, under its mutex.
MarkAccountOffline(p) ==
    /\ pids' = [pids EXCEPT ![p] = NoAccount]
    /\ accounts' = [a \in Accounts |-> IF a = pids[p] /\ accounts[a] = p THEN NoPid ELSE accounts[a]]

\* globals.OnlinePIDsOfAccount.
OnlinePIDsOfAccount(a) == {p \in PIDs : pids[p] = a}

\* endpoint.CleanupConnection, and any other end of an open connection: the
\* end handler is started.  A call in progress goes on (see late).
End(S) ==
    /\ conn' = [c \in Conns |-> IF c \in S THEN "closed" ELSE conn[c]]
    /\ ending' = [c \in Conns |-> IF c \in S THEN "queued" ELSE ending[c]]
    /\ late' = late \cup {c \in S : call[c] # "none"}

-----------------------------------------------------------------------------
\* A console connects.  A connection whose end was handled to the last stands
\* for the next one of the same console.
Connect(c) ==
    /\ conn[c] = "closed" /\ ending[c] = "none" /\ call[c] = "none"
    /\ c \notin marking /\ users[PidOf[c]] # c
    /\ conn' = [conn EXCEPT ![c] = "open"]
    /\ late' = late \ {c}
    /\ UNCHANGED <<handlers, registry, marking, dropping>>

\* RegisterEx: the login is valid and its last-online time is written.  (An
\* invalid login, no local station or a failed write return without a trace.)
RegisterExWrite(c) ==
    /\ conn[c] = "open" /\ call[c] = "none"
    /\ call' = [call EXCEPT ![c] = "registering"]
    /\ UNCHANGED <<conn, ending, registry, marking, dropping, late>>

\* RegisterEx: ConnectedUsers.Set, whatever entry the PID had.
RegisterExSet(c) ==
    /\ call[c] = "registering"
    /\ users' = [users EXCEPT ![PidOf[c]] = c]
    /\ call' = [call EXCEPT ![c] = "none"]
    /\ UNCHANGED <<conn, ending, accounts, pids, marking, dropping, late>>

\* UpdateAndGetAllInformation and UpdatePresence look their PID up.  Found,
\* they go on with the entry they found; missing, the failsafe follows.
UpdateAndGetAllInformation(c) ==
    /\ conn[c] = "open" /\ call[c] = "none"
    /\ c \notin CTRs
    /\ users[PidOf[c]] = NoConn
    /\ call' = [call EXCEPT ![c] = "allInformation"]
    /\ UNCHANGED <<conn, ending, registry, marking, dropping, late>>

UpdatePresence(c) ==
    /\ conn[c] = "open" /\ call[c] = "none"
    /\ users[PidOf[c]] = NoConn
    /\ call' = [call EXCEPT ![c] = "presence"]
    /\ UNCHANGED <<conn, ending, registry, marking, dropping, late>>

\* The failsafe: set an entry for the connection of the call, and, but for
\* the presence update of a Wii U, MarkAccountOnline.
Failsafe(c) ==
    /\ call[c] \in {"allInformation", "presence"}
    /\ users' = [users EXCEPT ![PidOf[c]] = c]
    /\ marking' = IF call[c] = "allInformation" \/ c \in CTRs THEN marking \cup {c} ELSE marking
    /\ call' = [call EXCEPT ![c] = "none"]
    /\ UNCHANGED <<conn, ending, accounts, pids, dropping, late>>

\* MarkAccountOnline's goroutine: the core knows the account.
MarkAccountOnline(c) ==
    /\ c \in marking
    /\ LET p == PidOf[c] IN
        /\ AccountOf[p] # NoAccount
        /\ accounts' = [accounts EXCEPT ![AccountOf[p]] = p]
        /\ pids' = [pids EXCEPT ![p] = AccountOf[p]]
    /\ marking' = marking \ {c}
    /\ UNCHANGED <<conn, handlers, users, dropping, late>>

\* ... or does not, or does not answer.
MarkFails(c) ==
    /\ c \in marking
    /\ marking' = marking \ {c}
    /\ UNCHANGED <<conn, handlers, registry, dropping, late>>

\* A console leaves or falls silent.
Disconnect(c) ==
    /\ conn[c] = "open"
    /\ End({c})
    /\ UNCHANGED <<call, registry, marking, dropping>>

\* OnConnectionEnded: the PID of the connection is looked up.
EndLookup(c) ==
    /\ ending[c] = "queued"
    /\ ending' = [ending EXCEPT ![c] = IF users[PidOf[c]] = NoConn THEN "none" ELSE "leaving"]
    /\ UNCHANGED <<conn, call, registry, marking, dropping, late>>

\* OnConnectionEnded: after the write of the last-online time and the
\* notifications, the entry of the PID is deleted, whosever it is by now.
EndDelete(c) ==
    /\ ending[c] = "leaving"
    /\ users' = [users EXCEPT ![PidOf[c]] = NoConn]
    /\ ending' = [ending EXCEPT ![c] = "unmarking"]
    /\ UNCHANGED <<conn, call, accounts, pids, marking, dropping, late>>

EndUnmark(c) ==
    /\ ending[c] = "unmarking"
    /\ MarkAccountOffline(PidOf[c])
    /\ ending' = [ending EXCEPT ![c] = "none"]
    /\ UNCHANGED <<conn, call, users, marking, dropping, late>>

\* dropAccount (the account is banned or its deletion has begun): the PIDs
\* it is known to be connected with.
DropAccount(a) ==
    /\ dropping = {}
    /\ dropping' = OnlinePIDsOfAccount(a)
    /\ UNCHANGED <<conn, handlers, registry, marking, late>>

\* erase's dropSessions: every PID the core and nn-account know it by.
DropSessions(a) ==
    /\ dropping = {}
    /\ dropping' = {p \in PIDs : AccountOf[p] = a}
    /\ UNCHANGED <<conn, handlers, registry, marking, late>>

\* ... and one PID after the other, the connection of its entry, if any.
DropNext(p) ==
    /\ p \in dropping
    /\ dropping' = dropping \ {p}
    /\ End({c \in Conns : users[p] = c /\ conn[c] = "open"})
    /\ UNCHANGED <<call, registry, marking>>

-----------------------------------------------------------------------------
Handler(c) ==
    \/ RegisterExSet(c) \/ Failsafe(c)
    \/ MarkAccountOnline(c) \/ MarkFails(c)
    \/ EndLookup(c) \/ EndDelete(c) \/ EndUnmark(c)

Console(c) ==
    \/ Connect(c) \/ Disconnect(c)
    \/ RegisterExWrite(c) \/ UpdateAndGetAllInformation(c) \/ UpdatePresence(c)

Dropper ==
    \/ \E a \in Accounts : DropAccount(a) \/ DropSessions(a)
    \/ \E p \in PIDs : DropNext(p)

Next ==
    \/ \E c \in Conns : Console(c) \/ Handler(c)
    \/ Dropper

Spec == Init /\ [][Next]_vars

\* A handler that has begun is a goroutine and ends; nothing is assumed of the
\* consoles.
FairSpec ==
    /\ Spec
    /\ \A c \in Conns : WF_vars(EndLookup(c) \/ EndDelete(c) \/ EndUnmark(c))

-----------------------------------------------------------------------------
TypeOK ==
    /\ conn \in [Conns -> {"open", "closed"}]
    /\ call \in [Conns -> Calls]
    /\ ending \in [Conns -> Ends]
    /\ users \in [PIDs -> Conns \cup {NoConn}]
    /\ \A p \in PIDs : users[p] # NoConn => PidOf[users[p]] = p
    /\ accounts \in [Accounts -> PIDs \cup {NoPid}]
    /\ pids \in [PIDs -> Accounts \cup {NoAccount}]
    /\ marking \in SUBSET Conns
    /\ dropping \in SUBSET PIDs
    /\ late \in SUBSET Conns

\* The two maps of connected_accounts.go tell one story, whatever goroutines
\* fill and empty them: a PID is recorded with its own account only, and the
\* PID an account maps to is recorded with that account.
MapsAgree ==
    /\ \A p \in PIDs : pids[p] \in {NoAccount, AccountOf[p]}
    /\ \A a \in Accounts : accounts[a] # NoPid => pids[accounts[a]] = a

\* An account with one console is reachable by both maps or by neither
\* (a Wii U and a 3DS of one account are the case OnlinePIDOfAccount loses).
SolePidReached ==
    \A p \in PIDs :
        (pids[p] # NoAccount /\ \A q \in PIDs : AccountOf[q] = AccountOf[p] => q = p)
            => accounts[pids[p]] = p

\* Nobody stays connected after leaving: the entry of a PID stands for an
\* open connection, for one whose end handler has yet to delete it, or for one
\* that ended while one of its own calls was still running.
NoGhost ==
    \A p \in PIDs : \A c \in Conns :
        users[p] = c =>
            \/ conn[c] = "open"
            \/ ending[c] \in {"queued", "leaving"}
            \/ c \in late

\* Everybody who leaves is taken off the map (nex/secure.go).
LeaverIsRemoved ==
    \A c \in Conns : (conn[c] = "closed" /\ c \notin late) ~> users[PidOf[c]] # c

=============================================================================
