---- MODULE MCPresence ----
EXTENDS Presence
CONSTANTS a, b

\* Of the two it is a who returns.
MCMaxConnections == [p \in People |-> IF p = a THEN 2 ELSE 1]
====
