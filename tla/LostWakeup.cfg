CONSTANTS
    f1 = f1
    f2 = f2
    ca = ca
    cb = cb
    cc = cc
    exe1 = exe1
    exe2 = exe2
    None = None
    Factories = {f1, f2}
    Components = {ca, cb, cc}
    Comps <- MCComps
    Conns <- MCConns
    Files = {exe1, exe2}
    File <- MCFile
    Devices = {d1, d2}
    Names = {n1, n2}
    FirstDevices = {d1}
    Exclusive = TRUE
    MayCrash = {}
    MayLock = {}
    MayFailFork = {}
    MaxCalls = 3
SPECIFICATION FairSpec
PROPERTIES
    ReleaseReturns
CHECK_DEADLOCK FALSE
