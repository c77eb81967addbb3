CONSTANTS
    BlockCount = 4
    SizeT = 16
    MaxBlocks = 7
    EventCapacity = 4
    MaxOperations = 4
SPECIFICATION FairSpec
INVARIANTS
    NoTornBlock
PROPERTIES
    IsFifo
    KeepsPlaying
    CallsReturn
CHECK_DEADLOCK FALSE
