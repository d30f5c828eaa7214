SPECIFICATION Spec
CONSTANTS
    core = core
    node1 = node1
    c1 = c1
    c2 = c2
    Clients = {c1, c2}
    FileSystems = {core, node1}
    Points <- MCPoints
    FileNames <- MCFileNames
    DirNames <- MCDirNames
    Initially <- MCInitially
    InitialData <- MCInitialData
    Block = {"w"}
    Own = core
    MayDie = {node1}
    Does <- MCDoes
    MaxCalls <- MCMaxCalls
    Nothing = Nothing
    Directory = Directory
CHECK_DEADLOCK FALSE
INVARIANTS
    TypeOK
    ResolvesLongest
    LoneMountListed
    CopyFaithful
PROPERTIES
    OnlyDestinationChanges
