CONSTANTS
    m1 = m1
    m2 = m2
    m3 = m3
    c1 = c1
    c2 = c2
    d1 = d1
    d2 = d2
    d3 = d3
    Nil = Nil
    Managers = {m1, m2, m3}
    Devices = {d1, d2}
    Devs <- ThreeNodesDevs
    Clients = {}
    MayCrash = {m1}
    Careful = {m1, m2, m3}
    Alone = {m1, m2, m3}
    Overlap = TRUE
    MaxBoots <- ThreeNodesBoots
    MaxCalls = 0
SPECIFICATION Spec
INVARIANTS
    RegisteredListed
CHECK_DEADLOCK FALSE
