\* A person with two friends, one of whom may be linked or unlinked; an answer lives
\* twice as long as a miss.
CONSTANTS
    Keys = {me, a, b}
    Self = me
    Values = {p}
    NotFound = NotFound
    NoEntry = NoEntry
    Idle = Idle
    Callers = {c, d}
    TTL = 2
    NegativeTTL = 1
    Timeout = 1
    Lag = 0
    Horizon = 4
    MaxChanges = 1
SPECIFICATION Spec
INVARIANTS
    TypeOK
    AnswersAreFresh
PROPERTY ListIsRight
SYMMETRY MCSymmetry
