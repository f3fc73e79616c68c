\* A Wii U that reconnects before its old connection is gone.
CONSTANTS
    w1 = w1  w2 = w2  t1 = t1
    wii = wii  ctr = ctr
    ann = ann  bob = bob
    NoConn = NoConn  NoAccount = NoAccount  NoPid = NoPid
    Conns <- MCOverlap
    PIDs <- MCPids
    Accounts = {ann, bob}
    PidOf <- MCPidOf
    AccountOf <- MCTwoAccounts
    CTRs <- MCCTRs
SPECIFICATION FairSpec
INVARIANTS
    TypeOK
    NoGhost
    MapsAgree
    SolePidReached
PROPERTY LeaverIsRemoved
