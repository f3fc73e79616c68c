--------------------------- MODULE EventDelivery ---------------------------
(***************************************************************************)
(* What the event loop of package coreevents promises, without its         *)
(* transports, pages and cursor row: events are delivered in the order of  *)
(* their versions, each at least once, none is passed over.  The service   *)
(* may pick where it starts (`base') only until it has stored a first      *)
(* cursor: from then on every later event is delivered.                    *)
(***************************************************************************)
EXTENDS Naturals

VARIABLES
    head,       \* version of the newest event the core holds
    base,       \* events up to this version are not the service's to deliver
    delivered,  \* the versions handled so far
    started     \* a first cursor has been stored

vars == <<head, base, delivered, started>>

Init ==
    /\ head \in Nat
    /\ base \in 0..head
    /\ delivered = {}
    /\ started \in BOOLEAN

\* The core appends one event.
Append ==
    /\ head' = head + 1
    /\ UNCHANGED <<base, delivered, started>>

\* The service delivers v: everything between its base and v was delivered.
\* A version delivered before may be delivered again (at-least-once).
Deliver(v) ==
    /\ v \in 1..head
    /\ \A w \in 1..(v - 1) : w > base => w \in delivered
    /\ delivered' = delivered \cup {v}
    /\ UNCHANGED <<head, base, started>>

\* A service without a stored cursor starts at a point the core has reached.
StartAt(b) ==
    /\ ~started
    /\ b \in base..head
    /\ base' = b
    /\ started' \in BOOLEAN
    /\ UNCHANGED <<head, delivered>>

\* The first cursor is stored behind what was delivered.
Commit ==
    /\ ~started
    /\ started' = TRUE
    /\ UNCHANGED <<head, base, delivered>>

Next ==
    \/ Append
    \/ \E v \in 1..head : Deliver(v)
    \/ \E b \in base..head : StartAt(b)
    \/ Commit

Spec == Init /\ [][Next]_vars
=============================================================================
