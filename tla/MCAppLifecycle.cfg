CONSTANTS
    f1 = f1
    f2 = f2
    ca = ca
    cb = cb
    cc = cc
    exe1 = exe1
    exe2 = exe2
    None = None
    Factories = {f1, f2}
    Components = {ca, cb, cc}
    Comps <- MCComps
    Conns <- MCConns
    Files = {exe1, exe2}
    File <- MCFile
    Devices = {d1, d2}
    Names = {n1, n2}
    FirstDevices = {d1}
    Exclusive = TRUE
    MayCrash = {cc}
    MayLock = {d2}
    MayFailFork = {d2}
    MaxCalls = 4
SPECIFICATION FairSpec
INVARIANTS
    TypeOK
    ListedReachable
    LoadedWhileRunning
    NoDanglingConnection
    ReleaseTerminatesAll
    NoInconsistentAbort
    NothingLeftBehind
PROPERTIES
    CreateReturns
CHECK_DEADLOCK FALSE
