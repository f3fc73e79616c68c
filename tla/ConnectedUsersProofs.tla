------------------------ MODULE ConnectedUsersProofs ------------------------
(***************************************************************************)
(* Proofs about ConnectedUsers for any set of consoles, connections and    *)
(* accounts, and any assignment of PIDs and accounts to them.              *)
(***************************************************************************)
EXTENDS ConnectedUsers, TLAPS

ConstantAssumptions ==
    /\ PidOf \in [Conns -> PIDs]
    /\ AccountOf \in [PIDs -> Accounts \cup {NoAccount}]
    /\ CTRs \subseteq Conns
    /\ NoConn \notin Conns /\ NoAccount \notin Accounts /\ NoPid \notin PIDs

\* The assumptions of ConnectedUsers as one fact to cite.
LEMMA Constants == ConstantAssumptions
BY PidAssumption, AccountAssumption, CTRAssumption, NoneAssumption DEF ConstantAssumptions

-----------------------------------------------------------------------------
\* At the start every variable is in its range.
LEMMA TypeInit == Init => TypeOK
BY Constants DEF Init, TypeOK, Calls, Ends, ConstantAssumptions

\* Every step keeps every variable in its range, and every entry under the
\* PID of its connection.
LEMMA TypeStep == TypeOK /\ [Next]_vars => TypeOK'
<1> SUFFICES ASSUME TypeOK, [Next]_vars PROVE TypeOK'
  OBVIOUS
<1> USE Constants DEF TypeOK, ConstantAssumptions, Calls, Ends
<1>1. ASSUME NEW c \in Conns, Console(c) PROVE TypeOK'
  <2>1. CASE Connect(c)
    BY <2>1 DEF Connect, handlers, registry
  <2>2. CASE Disconnect(c)
    BY <2>2 DEF Disconnect, End, registry
  <2>3. CASE RegisterExWrite(c)
    BY <2>3 DEF RegisterExWrite, registry
  <2>4. CASE UpdateAndGetAllInformation(c)
    BY <2>4 DEF UpdateAndGetAllInformation, registry
  <2>5. CASE UpdatePresence(c)
    BY <2>5 DEF UpdatePresence, registry
  <2> QED
    BY <1>1, <2>1, <2>2, <2>3, <2>4, <2>5 DEF Console
<1>2. ASSUME NEW c \in Conns, Handler(c) PROVE TypeOK'
  <2>1. CASE RegisterExSet(c)
    BY <2>1 DEF RegisterExSet
  <2>2. CASE Failsafe(c)
    BY <2>2 DEF Failsafe
  <2>3. CASE MarkAccountOnline(c)
    BY <2>3 DEF MarkAccountOnline, handlers
  <2>4. CASE MarkFails(c)
    BY <2>4 DEF MarkFails, handlers, registry
  <2>5. CASE EndLookup(c)
    BY <2>5 DEF EndLookup, registry
  <2>6. CASE EndDelete(c)
    BY <2>6 DEF EndDelete
  <2>7. CASE EndUnmark(c)
    BY <2>7 DEF EndUnmark, MarkAccountOffline
  <2> QED
    BY <1>2, <2>1, <2>2, <2>3, <2>4, <2>5, <2>6, <2>7 DEF Handler
<1>3. CASE Dropper
  <2>1. ASSUME NEW a \in Accounts, DropAccount(a) PROVE TypeOK'
    BY <2>1 DEF DropAccount, OnlinePIDsOfAccount, handlers, registry
  <2>2. ASSUME NEW a \in Accounts, DropSessions(a) PROVE TypeOK'
    BY <2>2 DEF DropSessions, handlers, registry
  <2>3. ASSUME NEW p \in PIDs, DropNext(p) PROVE TypeOK'
    BY <2>3 DEF DropNext, End, registry
  <2> QED
    BY <1>3, <2>1, <2>2, <2>3 DEF Dropper
<1>4. CASE UNCHANGED vars
  BY <1>4 DEF vars
<1> QED
  BY <1>1, <1>2, <1>3, <1>4 DEF Next

\* Every variable keeps its range, and every entry of ConnectedUsers stands
\* under the PID its connection logged in with (globals.ConnectedUsers.Set).
THEOREM TypeCorrect == Spec => []TypeOK
BY TypeInit, TypeStep, PTL DEF Spec

-----------------------------------------------------------------------------
\* Marking a PID on- or offline keeps the two account maps in agreement.
LEMMA MarkOnlineAgrees ==
    ASSUME TypeOK, MapsAgree, NEW c \in Conns, MarkAccountOnline(c)
    PROVE  MapsAgree'
<1> DEFINE p == PidOf[c]
<1>1. p \in PIDs /\ AccountOf[p] \in Accounts
  BY Constants DEF MarkAccountOnline, ConstantAssumptions
<1>2. pids' = [pids EXCEPT ![p] = AccountOf[p]] /\ accounts' = [accounts EXCEPT ![AccountOf[p]] = p]
  BY DEF MarkAccountOnline
<1>3. \A q \in PIDs : pids'[q] \in {NoAccount, AccountOf[q]}
  BY <1>1, <1>2 DEF TypeOK, MapsAgree
<1>4. \A a \in Accounts : accounts'[a] # NoPid => pids'[accounts'[a]] = a
  <2> SUFFICES ASSUME NEW a \in Accounts, accounts'[a] # NoPid PROVE pids'[accounts'[a]] = a
    OBVIOUS
  <2>1. CASE a = AccountOf[p]
    BY <2>1, <1>1, <1>2 DEF TypeOK
  <2>2. CASE a # AccountOf[p]
    <3>1. accounts'[a] = accounts[a] /\ accounts[a] \in PIDs /\ pids[accounts[a]] = a
      BY <2>2, <1>1, <1>2 DEF TypeOK, MapsAgree
    <3>2. accounts[a] # p
      BY <3>1, <2>2, <1>1, Constants DEF MapsAgree, ConstantAssumptions
    <3> QED
      BY <3>1, <3>2, <1>2 DEF TypeOK
  <2> QED
    BY <2>1, <2>2
<1> QED
  BY <1>3, <1>4 DEF MapsAgree

\* ... which includes forgetting a PID (globals.MarkAccountOffline).
LEMMA MarkOfflineAgrees ==
    ASSUME TypeOK, MapsAgree, NEW p \in PIDs, MarkAccountOffline(p)
    PROVE  MapsAgree'
<1>1. \A q \in PIDs : pids'[q] \in {NoAccount, AccountOf[q]}
  BY DEF MarkAccountOffline, TypeOK, MapsAgree
<1>2. \A a \in Accounts : accounts'[a] # NoPid => pids'[accounts'[a]] = a
  <2> SUFFICES ASSUME NEW a \in Accounts, accounts'[a] # NoPid PROVE pids'[accounts'[a]] = a
    OBVIOUS
  <2>1. accounts'[a] = accounts[a] /\ accounts[a] \in PIDs /\ pids[accounts[a]] = a
    BY DEF MarkAccountOffline, TypeOK, MapsAgree
  <2>2. accounts[a] # p
    BY <2>1 DEF MarkAccountOffline
  <2> QED
    BY <2>1, <2>2 DEF MarkAccountOffline, TypeOK
<1> QED
  BY <1>1, <1>2 DEF MapsAgree

\* All other steps leave both maps alone.
LEMMA OthersLeaveMaps ==
    ASSUME [Next]_vars,
           \A c \in Conns : ~MarkAccountOnline(c) /\ ~EndUnmark(c)
    PROVE  UNCHANGED <<accounts, pids>>
BY DEF Next, Console, Handler, Dropper, Connect, Disconnect, RegisterExWrite,
   UpdateAndGetAllInformation, UpdatePresence, RegisterExSet, Failsafe, MarkFails, EndLookup,
   EndDelete, DropAccount, DropSessions, DropNext, registry, vars

\* The two maps of connected_accounts.go agree at every moment, whatever the
\* order in which MarkAccountOnline's goroutines and the ends of connections
\* reach their mutex.
THEOREM AccountMapsAgree == Spec => []MapsAgree
<1>1. Init => MapsAgree
  BY Constants DEF Init, MapsAgree, ConstantAssumptions
<1>2. TypeOK /\ MapsAgree /\ [Next]_vars => MapsAgree'
  <2> SUFFICES ASSUME TypeOK, MapsAgree, [Next]_vars PROVE MapsAgree'
    OBVIOUS
  <2>1. ASSUME NEW c \in Conns, MarkAccountOnline(c) PROVE MapsAgree'
    BY <2>1, MarkOnlineAgrees
  <2>2. ASSUME NEW c \in Conns, EndUnmark(c) PROVE MapsAgree'
    <3>1. PidOf[c] \in PIDs
      BY Constants DEF ConstantAssumptions
    <3> QED
      BY <2>2, <3>1, MarkOfflineAgrees DEF EndUnmark
  <2>3. CASE UNCHANGED <<accounts, pids>>
    BY <2>3 DEF MapsAgree
  <2> QED
    BY <2>1, <2>2, <2>3, OthersLeaveMaps
<1> QED
  BY <1>1, <1>2, TypeCorrect, PTL DEF Spec

-----------------------------------------------------------------------------
\* Recording a PID makes it the one its account maps to.
LEMMA MarkOnlineReaches ==
    ASSUME TypeOK, MapsAgree, SolePidReached, NEW c \in Conns, MarkAccountOnline(c)
    PROVE  SolePidReached'
<1> DEFINE p == PidOf[c]
<1>1. p \in PIDs /\ AccountOf[p] \in Accounts
  BY Constants DEF MarkAccountOnline, ConstantAssumptions
<1>2. pids' = [pids EXCEPT ![p] = AccountOf[p]] /\ accounts' = [accounts EXCEPT ![AccountOf[p]] = p]
  BY DEF MarkAccountOnline
<1> SUFFICES ASSUME NEW q \in PIDs, pids'[q] # NoAccount, \A r \in PIDs : AccountOf[r] = AccountOf[q] => r = q
             PROVE  accounts'[pids'[q]] = q
  BY DEF SolePidReached
<1>3. CASE q = p
  BY <1>1, <1>2, <1>3 DEF TypeOK
<1>4. CASE q # p
  <2>1. pids'[q] = pids[q] /\ pids[q] = AccountOf[q] /\ AccountOf[q] # AccountOf[p]
    BY <1>1, <1>2, <1>4 DEF TypeOK, MapsAgree
  <2>2. accounts[pids[q]] = q /\ pids[q] \in Accounts
    BY <2>1 DEF SolePidReached, TypeOK
  <2> QED
    BY <1>1, <1>2, <2>1, <2>2 DEF TypeOK
<1> QED
  BY <1>3, <1>4

\* Forgetting a PID takes no other from its account.
LEMMA MarkOfflineReaches ==
    ASSUME TypeOK, SolePidReached, NEW p \in PIDs, MarkAccountOffline(p)
    PROVE  SolePidReached'
<1> SUFFICES ASSUME NEW q \in PIDs, pids'[q] # NoAccount, \A r \in PIDs : AccountOf[r] = AccountOf[q] => r = q
             PROVE  accounts'[pids'[q]] = q
  BY DEF SolePidReached
<1>1. q # p /\ pids'[q] = pids[q]
  BY DEF MarkAccountOffline, TypeOK
<1>2. accounts[pids[q]] = q /\ pids[q] \in Accounts
  BY <1>1 DEF SolePidReached, TypeOK
<1> QED
  BY <1>1, <1>2 DEF MarkAccountOffline

\* An account with one console can always be reached through either map, for
\* any number of consoles that mark and leave (globals/connected_accounts.go).
THEOREM SolePidsAreReached == Spec => []SolePidReached
<1>1. Init => SolePidReached
  BY DEF Init, SolePidReached
<1>2. TypeOK /\ MapsAgree /\ SolePidReached /\ [Next]_vars => SolePidReached'
  <2> SUFFICES ASSUME TypeOK, MapsAgree, SolePidReached, [Next]_vars PROVE SolePidReached'
    OBVIOUS
  <2>1. ASSUME NEW c \in Conns, MarkAccountOnline(c) PROVE SolePidReached'
    BY <2>1, MarkOnlineReaches
  <2>2. ASSUME NEW c \in Conns, EndUnmark(c) PROVE SolePidReached'
    <3>1. PidOf[c] \in PIDs
      BY Constants DEF ConstantAssumptions
    <3> QED
      BY <2>2, <3>1, MarkOfflineReaches DEF EndUnmark
  <2>3. CASE UNCHANGED <<accounts, pids>>
    BY <2>3 DEF SolePidReached
  <2> QED
    BY <2>1, <2>2, <2>3, OthersLeaveMaps
<1> QED
  BY <1>1, <1>2, TypeCorrect, AccountMapsAgree, PTL DEF Spec

-----------------------------------------------------------------------------
\* A connection that has neither ended nor is in a call.  What NoGhost needs
\* to be inductive: a call in progress is of an open connection or is late.
CallsAreAccounted ==
    \A c \in Conns :
        /\ conn[c] = "open" => ending[c] = "none" /\ c \notin late
        /\ call[c] # "none" => conn[c] = "open" \/ c \in late

\* Every step keeps it so that a call belongs to an open connection or is late.
LEMMA CallsAccountedStep ==
    TypeOK /\ CallsAreAccounted /\ [Next]_vars => CallsAreAccounted'
<1> SUFFICES ASSUME TypeOK, CallsAreAccounted, [Next]_vars PROVE CallsAreAccounted'
  OBVIOUS
<1> USE DEF TypeOK, CallsAreAccounted
<1>1. ASSUME NEW c \in Conns, Console(c) PROVE CallsAreAccounted'
  <2>1. CASE Connect(c)
    BY <2>1 DEF Connect, handlers
  <2>2. CASE Disconnect(c)
    BY <2>2 DEF Disconnect, End
  <2>3. CASE RegisterExWrite(c) \/ UpdateAndGetAllInformation(c) \/ UpdatePresence(c)
    BY <2>3 DEF RegisterExWrite, UpdateAndGetAllInformation, UpdatePresence
  <2> QED
    BY <1>1, <2>1, <2>2, <2>3 DEF Console
<1>2. ASSUME NEW c \in Conns, Handler(c) PROVE CallsAreAccounted'
  <2>1. CASE RegisterExSet(c) \/ Failsafe(c)
    BY <2>1 DEF RegisterExSet, Failsafe
  <2>2. CASE MarkAccountOnline(c) \/ MarkFails(c)
    BY <2>2 DEF MarkAccountOnline, MarkFails, handlers
  <2>3. CASE EndLookup(c) \/ EndDelete(c) \/ EndUnmark(c)
    BY <2>3 DEF EndLookup, EndDelete, EndUnmark
  <2> QED
    BY <1>2, <2>1, <2>2, <2>3 DEF Handler
<1>3. CASE Dropper
  <2>1. ASSUME NEW a \in Accounts, DropAccount(a) \/ DropSessions(a) PROVE CallsAreAccounted'
    BY <2>1 DEF DropAccount, DropSessions, handlers
  <2>2. ASSUME NEW p \in PIDs, DropNext(p) PROVE CallsAreAccounted'
    BY <2>2 DEF DropNext, End
  <2> QED
    BY <1>3, <2>1, <2>2 DEF Dropper
<1>4. CASE UNCHANGED vars
  BY <1>4 DEF vars
<1> QED
  BY <1>1, <1>2, <1>3, <1>4 DEF Next

\* Every step keeps the map free of ghosts, given where calls can be.
LEMMA NoGhostStep ==
    TypeOK /\ CallsAreAccounted /\ NoGhost /\ [Next]_vars => NoGhost'
<1> SUFFICES ASSUME TypeOK, CallsAreAccounted, NoGhost, [Next]_vars PROVE NoGhost'
  OBVIOUS
<1> USE Constants DEF TypeOK, CallsAreAccounted, NoGhost, ConstantAssumptions
<1>1. ASSUME NEW c \in Conns, Console(c) PROVE NoGhost'
  <2>1. CASE Connect(c)
    BY <2>1 DEF Connect, registry, handlers
  <2>2. CASE Disconnect(c)
    BY <2>2 DEF Disconnect, End, registry
  <2>3. CASE RegisterExWrite(c) \/ UpdateAndGetAllInformation(c) \/ UpdatePresence(c)
    BY <2>3 DEF RegisterExWrite, UpdateAndGetAllInformation, UpdatePresence, registry
  <2> QED
    BY <1>1, <2>1, <2>2, <2>3 DEF Console
<1>2. ASSUME NEW c \in Conns, Handler(c) PROVE NoGhost'
  <2>1. CASE RegisterExSet(c)
    BY <2>1 DEF RegisterExSet
  <2>2. CASE Failsafe(c)
    BY <2>2 DEF Failsafe
  <2>3. CASE MarkAccountOnline(c) \/ MarkFails(c)
    BY <2>3 DEF MarkAccountOnline, MarkFails, handlers, registry
  <2>4. CASE EndLookup(c)
    BY <2>4 DEF EndLookup, registry
  <2>5. CASE EndDelete(c)
    BY <2>5 DEF EndDelete
  <2>6. CASE EndUnmark(c)
    BY <2>6 DEF EndUnmark
  <2> QED
    BY <1>2, <2>1, <2>2, <2>3, <2>4, <2>5, <2>6 DEF Handler
<1>3. CASE Dropper
  <2>1. ASSUME NEW a \in Accounts, DropAccount(a) \/ DropSessions(a) PROVE NoGhost'
    BY <2>1 DEF DropAccount, DropSessions, handlers, registry
  <2>2. ASSUME NEW p \in PIDs, DropNext(p) PROVE NoGhost'
    BY <2>2 DEF DropNext, End, registry
  <2> QED
    BY <1>3, <2>1, <2>2 DEF Dropper
<1>4. CASE UNCHANGED vars
  BY <1>4 DEF vars
<1> QED
  BY <1>1, <1>2, <1>3, <1>4 DEF Next

\* Nobody stays in ConnectedUsers after the end handler of their connection
\* ran, unless a call of that connection outlived it.
THEOREM NoGhostEntries == Spec => []NoGhost
<1>1. Init => CallsAreAccounted /\ NoGhost
  BY Constants DEF Init, CallsAreAccounted, NoGhost, ConstantAssumptions
<1> QED
  BY <1>1, TypeCorrect, CallsAccountedStep, NoGhostStep, PTL DEF Spec
=============================================================================
