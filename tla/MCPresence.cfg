SPECIFICATION PresenceSpec
CONSTANTS
    a = a
    b = b
    People = {a, b}
    Players = {a}
    none = none
    t = t
    Titles = {none, t}
    NoGame = none
    Fresh = Fresh
    Offline = Offline
    Unknown = Unknown
    NoEntry = NoEntry
    Idle = Idle
    MaxConnections <- MCMaxConnections
    MayFail = TRUE
    MaxNews = 2
INVARIANTS
    PresenceTypeOK
    
    GoneIsShown
