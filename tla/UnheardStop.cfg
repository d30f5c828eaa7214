CONSTANTS
    Counts = {1}
    BufferLength = 1
    MaxCalls = 2
    MaxBothCalls = 2
SPECIFICATION FairSpec
PROPERTIES
    StopEndsTransmission
CHECK_DEADLOCK FALSE
