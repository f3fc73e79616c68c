\* A request is denied.
CONSTANTS
    PIDs = {a, b}
    Unresolved = {}
    MaxQueue = 2
    Slots = {c}
    Loop = Loop
    Rows = {r1, r2}
    NoRow = NoRow
    Idle = Idle
    Ops = {"save", "delete", "list"}
    MayExpire = FALSE
    MaxFails = 0
    MaxRestarts = 0
    MaxElsewhere = 0
SPECIFICATION Spec
PROPERTY DeniedDisappears
