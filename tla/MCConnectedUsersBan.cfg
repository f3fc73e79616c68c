\* A banned account's sessions.
CONSTANTS
    w1 = w1  w2 = w2  t1 = t1
    wii = wii  ctr = ctr
    ann = ann  bob = bob
    NoConn = NoConn  NoAccount = NoAccount  NoPid = NoPid
    Conns <- MCTwoConsoles
    PIDs <- MCPids
    Accounts = {ann}
    PidOf <- MCPidOf
    AccountOf <- MCOneAccount
    CTRs <- MCCTRs
SPECIFICATION Spec
PROPERTY BanReachesConnected
