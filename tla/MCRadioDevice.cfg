CONSTANTS
    Counts = {1, 2}
    BufferLength = 2
    MaxCalls = 3
    MaxBothCalls = 2
SPECIFICATION FairSpec
INVARIANTS
    TypeOK
    IdleRadioSilent
    ExactCount
    OneMoreAtMost
PROPERTIES
    ReceptionStops
    TransmissionRests
CHECK_DEADLOCK FALSE
