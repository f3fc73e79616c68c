\* Restarts, broken streams, and a database that drops writes and reads or one
\* that does what it is asked.
CONSTANTS
    PageSize = 2
    MaxHead = 3
    MaxCrashes = 2
    NoRow = NoRow
    Echoed = 4
    NoHead = NoHead
SPECIFICATION FairSpec
INVARIANTS
    TypeOK
    CursorBehindHandled
    ReplayBounded
    OnceWithoutCrash
PROPERTIES
    EventuallyHandled
    CursorCatchesUp
    ImplementsDelivery
