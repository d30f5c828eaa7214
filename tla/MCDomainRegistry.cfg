CONSTANTS
    m1 = m1
    m2 = m2
    m3 = m3
    c1 = c1
    c2 = c2
    d1 = d1
    d2 = d2
    d3 = d3
    Nil = Nil
    Managers = {m1, m2, m3}
    Devices = {d1, d2}
    Devs <- ThreeNodesDevs
    Clients = {c1}
    MayCrash = {m2}
    Careful = {m1, m2, m3}
    Alone = {m1, m2, m3}
    Overlap = FALSE
    MaxBoots <- ThreeNodesBoots
    MaxCalls = 1
SPECIFICATION Spec
INVARIANTS
    TypeOK
    RegisteredListed
    NoOrphanDevice
    RegistriesAgree
    IndexStaysValid
    OnlyReturnAborts

    
CHECK_DEADLOCK FALSE
