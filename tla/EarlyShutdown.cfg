CONSTANTS
    m1 = m1
    m2 = m2
    m3 = m3
    c1 = c1
    c2 = c2
    d1 = d1
    d2 = d2
    d3 = d3
    Nil = Nil
    Managers = {m1, m2}
    Devices = {d1, d2, d3}
    Devs <- TwoNodesDevs
    Clients = {}
    MayCrash = {m1}
    Careful = {}
    Alone = {m1, m2}
    Overlap = FALSE
    MaxBoots <- TwoNodesBoots
    MaxCalls = 0
SPECIFICATION Spec
INVARIANTS
    ReleasesDevices
CHECK_DEADLOCK FALSE
