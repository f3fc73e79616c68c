\* One person, two things to show, time and failing calls; and the long run.
CONSTANTS
    PIDs = {p}
    Shows = {menu, game}
    Off = Off
    Sids = {s1, s2, s3, s4, s5}
    Free = Free
    Nothing = Nothing
    Lease = 3
    MaxFails = 3
    Patience = 4
SPECIFICATION FairSpec
INVARIANTS
    TypeOK
    OwnSessions
    OneLossDoesNotBlink
    GoneInTime
PROPERTY ShownAsTheyAre
