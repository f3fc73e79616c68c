------------------------------ MODULE Presence ------------------------------
(***************************************************************************)
(* What friends see of each other while they are connected here: the       *)
(* presence kept in an entry of globals.ConnectedUsers, the notifications  *)
(* that announce it and its end (packages notifications/wiiu and           *)
(* notifications/3ds), and the lists a console asks for, all of which run  *)
(* beside each other.                                                      *)
(*                                                                         *)
(* The two kinds of console do it differently.  A Wii U stores a presence  *)
(* and then tells the friends before it answers; a 3DS starts a goroutine  *)
(* that tells them and stores it meanwhile.  A behaviour is one of the     *)
(* one kind or the other.                                                  *)
(*                                                                         *)
(* People are friends of each other throughout.  Whom the core shows       *)
(* online on another platform is in CrossNotify, the accounts behind the   *)
(* entries are in ConnectedUsers.  A friend's packets arrive in the order  *)
(* in which they are sent (they are reliable), and a console shows what    *)
(* it was told last.                                                       *)
(***************************************************************************)
EXTENDS Naturals, Sequences, FiniteSets

CONSTANTS
    People,
    Players,        \* bound: those whose presence changes; the others have NoGame
    Titles,         \* what is played ...
    NoGame,         \* ... of which one is nothing (or hidden)
    Fresh,          \* the presence of an entry nothing was stored in
    Offline, Unknown, NoEntry, Idle,
    MaxConnections, \* bound: connections of each person one of which
                    \* left something behind
    MayFail,        \* whether the friends can fail to be read
    MaxNews         \* bound: goroutines that announce one person

ASSUME PeopleAssumption == \A p \in People : People # {p}
ASSUME PlayerAssumption == Players \subseteq People
ASSUME TitleAssumption == NoGame \in Titles /\ Fresh \notin Titles
ASSUME FailAssumption == MayFail \in BOOLEAN

VARIABLES
    platform,  \* "WUP" or "CTR", and never changes
    conn,      \* a person's last connection ...
    online,    \* ... and who is still connected with it
    entry,     \* ConnectedUsers
    call,      \* the handler of a person's call (bound: one at a time)
    news,      \* 3DS: the goroutines that announce a person
    ending,    \* a person's connection-ended handler (bound: one at a time)
    shown,     \* what a person's console shows of the friends
    doubt      \* history: a console and a friend of whom it may show what is no more

presenceVars == <<platform, conn, online, entry, call, news, ending, shown, doubt>>

Entry == [conn : Nat, title : Titles \cup {Fresh}, online : BOOLEAN]
Listed == [title : Titles \cup {Fresh}, online : BOOLEAN]
Sight == {Unknown, Offline} \cup Listed
Notice == Titles \cup {Offline}
Call == [at : {"read", "tell", "reply", "store"}, conn : Nat, says : Seq(Notice), todo : SUBSET People,
         list : [People -> Sight], replies : BOOLEAN]
News == [title : Titles, todo : SUBSET People]
Ending == [at : {"queued", "tell"}, todo : SUBSET People]

ASSUME SightAssumption ==
    /\ Offline # Unknown /\ Offline \notin Titles \cup {Fresh}
    /\ Offline \notin Listed /\ Unknown \notin Listed
ASSUME NothingAssumption == NoEntry \notin Entry /\ Idle \notin Call /\ Idle \notin Ending

Friends(p) == People \ {p}
Nothing == [q \in People |-> Unknown]

PresenceInit ==
    /\ platform \in {"WUP", "CTR"}
    /\ conn = [p \in People |-> 0]
    /\ online = [p \in People |-> FALSE]
    /\ entry = [p \in People |-> NoEntry]
    /\ call = [p \in People |-> Idle]
    /\ news = [p \in People |-> {}]
    /\ ending = [p \in People |-> Idle]
    /\ shown = [p \in People |-> Nothing]
    /\ doubt = {}

-----------------------------------------------------------------------------
At(p, place) == call[p] # Idle /\ call[p].at = place
Ends(p, place) == ending[p] # Idle /\ ending[p].at = place

\* Notifications to q arrive: the entry has the connection q is on.
Reached(q) == online[q] /\ entry[q] # NoEntry /\ entry[q].conn = conn[q]

\* Nothing that could change what q shows of p is under way.
Quiet(q, p) == call[q] = Idle /\ call[p] = Idle /\ ending[q] = Idle /\ ending[p] = Idle /\ news[p] = {}

\* What q shows of p is what the server has.
Agrees(q, p) ==
    \/ shown[q][p] = Unknown
    \/ shown[q][p] = Offline /\ (entry[p] # NoEntry => entry[p].title = Fresh)
    \/ /\ shown[q][p] \notin {Unknown, Offline} /\ entry[p] # NoEntry
       /\ shown[q][p].title = entry[p].title

\* Nothing is left of whatever happened between q and p.
Settled(q, p) ==
    /\ Quiet(q, p) /\ Agrees(q, p)
    /\ entry[p] # NoEntry => online[p]
    /\ online[q] => Reached(q)

\* The history of a step that makes what the pairs of D see doubtful.
Doubt(D) == doubt' = {d \in doubt \cup D : ~Settled(d[1], d[2])'}

\* Everyone's view of p.
Of(p) == Friends(p) \X {p}

-----------------------------------------------------------------------------
\* Faulty variant of View: the entry as it is.
ViewWhole(p) == IF entry[p] = NoEntry THEN Offline ELSE entry[p]

\* What a list shows of p: the presence of the entry, or a friend who is
\* offline.
View(p) == IF entry[p] = NoEntry THEN Offline ELSE [title |-> entry[p].title, online |-> entry[p].online]

\* What a notification makes its receiver show.
Announced(n) == IF n = Offline THEN Offline ELSE [title |-> n, online |-> TRUE]

\* p's notification n to q, who may not be connected.
Notify(q, p, n) ==
    shown' = IF Reached(q) THEN [shown EXCEPT ![q][p] = Announced(n)] ELSE shown

\* ... and who shows an older list after it, when that is on its way.
Overtaken(q, p) == IF call[q] # Idle /\ call[q].list[p] # Unknown THEN {<<q, p>>} ELSE {}

\* The presence is stored in the entry of p, or in one that is made for the
\* connection of the call.
Store(p, c, t, on) ==
    entry' = [entry EXCEPT ![p] = [conn |-> IF @ = NoEntry THEN c ELSE @.conn, title |-> t, online |-> on]]

NewCall(p, place, says, replies) ==
    [at |-> place, conn |-> conn[p], says |-> says, todo |-> Friends(p), list |-> Nothing, replies |-> replies]

Begin(p, place, says, replies) ==
    /\ call[p] = Idle /\ online[p]
    /\ call' = [call EXCEPT ![p] = NewCall(p, place, says, replies)]

\* A call with nobody left to read or tell goes on to the next thing it does.
Onward(p, c) ==
    IF c.todo # {} THEN c
    ELSE IF c.at = "read" /\ c.says # <<>> THEN [c EXCEPT !.at = "tell", !.todo = Friends(p)]
    ELSE IF Len(c.says) > 1 THEN [c EXCEPT !.says = Tail(c.says), !.todo = Friends(p)]
    ELSE IF c.replies THEN [c EXCEPT !.at = "reply", !.says = <<>>]
    ELSE Idle

Return(p) == call' = [call EXCEPT ![p] = Idle]

-----------------------------------------------------------------------------
\* Nothing is left of a person's connections, which are counted anew.
Forgotten(p) == entry[p] = NoEntry /\ call[p] = Idle /\ ending[p] = Idle

\* RegisterEx on a new connection sets an entry.  The end handler of the last
\* connection may still be at work.
Connect(p) ==
    /\ ~online[p] /\ (Forgotten(p) \/ conn[p] < MaxConnections[p])
    /\ conn' = [conn EXCEPT ![p] = IF Forgotten(p) THEN 1 ELSE @ + 1]
    /\ online' = [online EXCEPT ![p] = TRUE]
    /\ entry' = [entry EXCEPT ![p] = [conn |-> conn'[p], title |-> Fresh, online |-> FALSE]]
    /\ UNCHANGED <<platform, call, news, ending, shown>>
    /\ Doubt({})

\* Faulty variant of UpdatePresenceWiiU: in the background, as on a 3DS.
UpdatePresenceInBackground(p, t) ==
    /\ platform = "WUP" /\ p \in Players
    /\ news[p] = {}
    /\ Begin(p, "store", <<t>>, FALSE)
    /\ news' = [news EXCEPT ![p] = {[title |-> t, todo |-> Friends(p)]}]
    /\ UNCHANGED <<platform, conn, online, entry, ending, shown>>
    /\ Doubt({})

\* UpdatePresence of a Wii U.
UpdatePresenceWiiU(p, t) ==
    /\ platform = "WUP" /\ p \in Players
    /\ Begin(p, "tell", <<t>>, FALSE)
    /\ Store(p, conn[p], t, TRUE)
    /\ UNCHANGED <<platform, conn, online, news, ending, shown>>
    /\ Doubt({})

\* UpdateAndGetAllInformation: the presence is stored as the console sent it,
\* not online; the friends are read, and told, and the console is answered.
UpdateAndGetAllInformation(p, t) ==
    /\ platform = "WUP" /\ (p \in Players \/ t = NoGame)
    /\ Begin(p, "read", <<t>>, TRUE)
    /\ Store(p, conn[p], t, FALSE)
    /\ UNCHANGED <<platform, conn, online, news, ending, shown>>
    /\ Doubt({})

\* GetFriendPresence.
GetFriendPresence(p) ==
    /\ platform = "CTR"
    /\ Begin(p, "read", <<>>, TRUE)
    /\ UNCHANGED <<platform, conn, online, entry, news, ending, shown>>
    /\ Doubt({})

\* UpdatePresence of a 3DS: the goroutine is started first.  Two of them may
\* arrive in either order.
UpdatePresence3DS(p, t) ==
    /\ platform = "CTR" /\ p \in Players
    /\ Cardinality(news[p]) < MaxNews
    /\ Begin(p, "store", <<t>>, FALSE)
    /\ news' = [news EXCEPT ![p] = @ \cup {[title |-> t, todo |-> Friends(p)]}]
    /\ UNCHANGED <<platform, conn, online, entry, ending, shown>>
    /\ Doubt(IF news[p] # {} THEN Of(p) ELSE {})

\* ... then the presence is stored.
Store3DS(p) ==
    /\ At(p, "store")
    /\ Store(p, call[p].conn, Head(call[p].says), TRUE)
    /\ Return(p)
    /\ UNCHANGED <<platform, conn, online, news, ending, shown>>
    /\ Doubt({})

\* UpdatePreference of a 3DS: who hides the game is announced with none, who
\* hides is announced gone.  The entry keeps what it has.
UpdatePreference(p, showGame, publicMode) ==
    /\ platform = "CTR" /\ p \in Players
    /\ ~(showGame /\ publicMode)
    /\ Begin(p, "tell",
             (IF showGame THEN <<>> ELSE <<NoGame>>) \o (IF publicMode THEN <<>> ELSE <<Offline>>), FALSE)
    /\ UNCHANGED <<platform, conn, online, entry, news, ending, shown>>
    /\ Doubt(Of(p))

-----------------------------------------------------------------------------
\* The list a call answers with is made of one friend after the other.  A 3DS
\* that is read before its presence is stored was maybe told of already, and
\* so was one whose entry is about to be deleted.
ReadFriend(p, q) ==
    /\ At(p, "read") /\ q \in call[p].todo
    /\ call' = [call EXCEPT ![p] = Onward(p, [call[p] EXCEPT !.todo = @ \ {q}, !.list[q] = View(q)])]
    /\ UNCHANGED <<platform, conn, online, entry, news, ending, shown>>
    /\ Doubt(IF (platform = "CTR" /\ At(q, "store")) \/ (Ends(q, "tell") /\ p \notin ending[q].todo) THEN {<<p, q>>} ELSE {})

\* The friends or something else the call reads could not be had: it returns
\* an error, with what it stored.
ReadFails(p) ==
    /\ MayFail /\ platform = "WUP" /\ At(p, "read")
    /\ Return(p)
    /\ UNCHANGED <<platform, conn, online, entry, news, ending, shown>>
    /\ Doubt(Of(p))

\* SendPresenceUpdate, and SendUserWentOfflineGlobally for a 3DS that hides,
\* in a handler: the next friend is told.
TellFriend(p, q) ==
    /\ At(p, "tell") /\ q \in call[p].todo
    /\ call' = [call EXCEPT ![p] = Onward(p, [call[p] EXCEPT !.todo = @ \ {q}])]
    /\ Notify(q, p, Head(call[p].says))
    /\ UNCHANGED <<platform, conn, online, entry, news, ending>>
    /\ Doubt(Overtaken(q, p))

\* ... or no friends could be read, and nobody is told.
TellFails(p) ==
    /\ MayFail /\ At(p, "tell") /\ call[p].todo = Friends(p)
    /\ call' = [call EXCEPT ![p] = Onward(p, [call[p] EXCEPT !.todo = {}])]
    /\ UNCHANGED <<platform, conn, online, entry, news, ending, shown>>
    /\ Doubt(Of(p))

\* The answer reaches the console, if it is still there, and is shown.
Reply(p) ==
    /\ At(p, "reply")
    /\ shown' = IF online[p] /\ call[p].conn = conn[p]
                THEN [shown EXCEPT ![p] = [q \in People |-> IF call[p].list[q] = Unknown THEN @[q] ELSE call[p].list[q]]]
                ELSE shown
    /\ Return(p)
    /\ UNCHANGED <<platform, conn, online, entry, news, ending>>
    /\ Doubt({})

\* The goroutine of a 3DS tells the next friend ...
NewsTell(p, n, q) ==
    /\ n \in news[p] /\ q \in n.todo
    /\ LET rest == n.todo \ {q} IN
        news' = [news EXCEPT ![p] = (@ \ {n}) \cup (IF rest = {} THEN {} ELSE {[n EXCEPT !.todo = rest]})]
    /\ Notify(q, p, n.title)
    /\ UNCHANGED <<platform, conn, online, entry, call, ending>>
    /\ Doubt(Overtaken(q, p))

\* ... or has no friends to tell.
NewsFails(p, n) ==
    /\ MayFail /\ n \in news[p] /\ n.todo = Friends(p)
    /\ news' = [news EXCEPT ![p] = @ \ {n}]
    /\ UNCHANGED <<platform, conn, online, entry, call, ending, shown>>
    /\ Doubt(Of(p))

-----------------------------------------------------------------------------
\* A console leaves or falls silent, and the end handler is started.  What is
\* still under way for the person comes after it, or between.
Disconnect(p) ==
    /\ online[p] /\ ending[p] = Idle
    /\ online' = [online EXCEPT ![p] = FALSE]
    /\ ending' = [ending EXCEPT ![p] = [at |-> "queued", todo |-> Friends(p)]]
    /\ shown' = [shown EXCEPT ![p] = Nothing]
    /\ UNCHANGED <<platform, conn, entry, call, news>>
    /\ Doubt(IF call[p] # Idle \/ news[p] # {} THEN Of(p) ELSE {})

\* Faulty variant of EndLookup: only the friends of a Wii U are told.
EndLookupWiiU(p) ==
    /\ Ends(p, "queued")
    /\ ending' = [ending EXCEPT ![p] = IF entry[p] = NoEntry THEN Idle
                                      ELSE [at |-> "tell", todo |-> IF platform = "WUP" THEN @.todo ELSE {}]]
    /\ UNCHANGED <<platform, conn, online, entry, call, news, shown>>
    /\ Doubt({})

\* OnConnectionEnded finds an entry, or returns.
EndLookup(p) ==
    /\ Ends(p, "queued")
    /\ ending' = [ending EXCEPT ![p] = IF entry[p] = NoEntry THEN Idle ELSE [@ EXCEPT !.at = "tell"]]
    /\ UNCHANGED <<platform, conn, online, entry, call, news, shown>>
    /\ Doubt({})

\* SendUserWentOffline to the next friend.
EndTell(p, q) ==
    /\ Ends(p, "tell") /\ q \in ending[p].todo
    /\ ending' = [ending EXCEPT ![p].todo = @ \ {q}]
    /\ Notify(q, p, Offline)
    /\ UNCHANGED <<platform, conn, online, entry, call, news>>
    /\ Doubt(Overtaken(q, p))

\* ... or no friends could be read.
EndTellFails(p) ==
    /\ MayFail /\ Ends(p, "tell") /\ ending[p].todo = Friends(p)
    /\ ending' = [ending EXCEPT ![p].todo = {}]
    /\ UNCHANGED <<platform, conn, online, entry, call, news, shown>>
    /\ Doubt(Of(p))

\* The entry is deleted, whichever connection it is of: a person who is back
\* is announced gone, and gets no notifications until the next call makes an
\* entry.
EndDelete(p) ==
    /\ Ends(p, "tell") /\ ending[p].todo = {}
    /\ entry' = [entry EXCEPT ![p] = NoEntry]
    /\ ending' = [ending EXCEPT ![p] = Idle]
    /\ UNCHANGED <<platform, conn, online, call, news, shown>>
    /\ Doubt(IF online[p] THEN Of(p) \cup ({p} \X Friends(p)) ELSE {})

-----------------------------------------------------------------------------
PresenceNext ==
    \E p \in People :
        \/ Connect(p)
        \/ \E t \in Titles : UpdatePresenceWiiU(p, t)
        \/ \E t \in Titles : UpdateAndGetAllInformation(p, t)
        \/ GetFriendPresence(p)
        \/ \E t \in Titles : UpdatePresence3DS(p, t)
        \/ Store3DS(p)
        \/ \E showGame, publicMode \in BOOLEAN : UpdatePreference(p, showGame, publicMode)
        \/ \E q \in People : ReadFriend(p, q)
        \/ ReadFails(p)
        \/ \E q \in People : TellFriend(p, q)
        \/ TellFails(p)
        \/ Reply(p)
        \/ \E n \in news[p] : \E q \in People : NewsTell(p, n, q)
        \/ \E n \in news[p] : NewsFails(p, n)
        \/ Disconnect(p)
        \/ EndLookup(p)
        \/ \E q \in People : EndTell(p, q)
        \/ EndTellFails(p)
        \/ EndDelete(p)

PresenceSpec == PresenceInit /\ [][PresenceNext]_presenceVars

-----------------------------------------------------------------------------
\* Every variable has its type; a list shows what a console can be sent, and
\* nothing of an entry's connection.
PresenceTypeOK ==
    /\ platform \in {"WUP", "CTR"}
    /\ conn \in [People -> Nat]
    /\ online \in [People -> BOOLEAN]
    /\ entry \in [People -> Entry \cup {NoEntry}]
    /\ call \in [People -> Call \cup {Idle}]
    /\ news \in [People -> SUBSET News]
    /\ ending \in [People -> Ending \cup {Idle}]
    /\ shown \in [People -> [People -> Sight]]
    /\ doubt \subseteq People \X People

\* What a person announced is what the friends' consoles show.  Stored first
\* and told after, a presence is either in the list a friend reads or told to
\* the friend's entry, which RegisterEx or the failsafe has set before the
\* list is read; so that no console is left with an older one, but for those
\* in doubt: whose list was read before and answered after they were told,
\* who read a 3DS between its goroutine and the store, whose friend's
\* goroutines overtook each other, hid something, could not read the friends,
\* or has only just been announced gone by the end of an older connection.
AnnouncedIsShown ==
    \A q \in People : \A p \in Friends(q) :
        (/\ Reached(q) /\ Quiet(q, p) /\ <<q, p>> \notin doubt
         /\ entry[p] # NoEntry /\ entry[p].title # Fresh
         /\ shown[q][p] # Unknown)
        => shown[q][p] # Offline /\ shown[q][p].title = entry[p].title

\* Nobody who has left stays on a friend's console, but for those in doubt:
\* who read the list between the notification and the deletion of the entry,
\* and whose friend left with a call or a goroutine still at work.
GoneIsShown ==
    \A q \in People : \A p \in Friends(q) :
        (/\ Reached(q) /\ Quiet(q, p) /\ <<q, p>> \notin doubt /\ ~online[p])
        => shown[q][p] \in {Offline, Unknown}

\* A friend who is connected and has announced a presence is listed online
\* (the branch "Online" of FriendInfosForPIDs, and the comment of
\* UpdateAndGetAllInformation that it forces the status).  Not so: what is
\* stored, and listed from, is the copy made before the status is forced.
ListedOnline ==
    platform = "WUP" =>
        \A q \in People : \A p \in Friends(q) :
            (/\ Quiet(q, p) /\ online[q] /\ online[p]
             /\ shown[q][p] \notin {Offline, Unknown} /\ shown[q][p].title \in Titles)
            => shown[q][p].online
=============================================================================
