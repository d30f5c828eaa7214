CONSTANTS
    m1 = m1
    m2 = m2
    m3 = m3
    c1 = c1
    c2 = c2
    d1 = d1
    d2 = d2
    d3 = d3
    Nil = Nil
    Managers = {m1}
    Devices = {d1, d2, d3}
    Devs <- OneNodeDevs
    Clients = {c1, c2}
    MayCrash = {}
    Careful = {m1}
    Alone = {}
    Overlap = FALSE
    MaxBoots <- OneNodeBoots
    MaxCalls = 2
SPECIFICATION Spec
PROPERTIES
    RemovesItsDevice
CHECK_DEADLOCK FALSE
