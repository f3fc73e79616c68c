\* One identity, of a Wii U or of a 3DS; one call beside the goroutine, the
\* erasure and the purge; the profile changes once or is deleted.
CONSTANTS
    PIDs = {p}
    Slots = {s}
    Updaters = {u}
    MaxVersion = 1
    MaxFails = 2
    MaxLogins = 1
    NoRow = NoRow
    Bare = Bare
    Gone = Gone
    NoPid = NoPid
SPECIFICATION FairSpec
INVARIANTS
    TypeOK
    
    FreshIsCurrent
    
PROPERTIES
    KeepsTheLiving
    UpdateIsShown
