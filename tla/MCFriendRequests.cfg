\* Two people of three, one of whom has no account behind the PID; one console call
\* at a time beside the event loop.
CONSTANTS
    PIDs = {a, b, u}
    Unresolved = {u}
    MaxQueue = 1
    Slots = {c}
    Loop = Loop
    Rows = {r1, r2}
    NoRow = NoRow
    Idle = Idle
    Ops = {"save", "cancel", "accept", "list", "deny", "block", "delete"}
    MayExpire = TRUE
    MaxFails = 1
    MaxRestarts = 1
    MaxElsewhere = 1
SPECIFICATION Spec
INVARIANTS
    TypeOK
    BlockListMatches
    EndedIsForgotten
 
SYMMETRY MCSymmetry
CONSTRAINT MCBound
