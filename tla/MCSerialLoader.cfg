SPECIFICATION Spec
CONSTANTS
    ubl = ubl
    app = app
    old = old
    Images = {ubl, app, old}
    Srec = {app}
    NumPage <- MCNumPage
    NumBlocks = 7
    PagesPerBlock = 2
    FirstUbl = 1
    LastUbl = 2
    FirstApp = 3
    LastApp = 5
    Half = Half
    Erased = Erased
    Commands = {"burn", "run", "erase"}
    Ubl = ubl
    App = app
    Old = old
    OldAt = 5
    Memory = 7
    Size <- MCSize
    MaxFaults = 3
CHECK_DEADLOCK FALSE
INVARIANTS
    TypeOK
    SuccessIsReal
    AreasApart
    BootsWhole
PROPERTIES
    DialogEnds
