CONSTANTS
    SERVICE_QUEUE_LENGTH = 2
    CONTROL_QUEUE_LENGTH = 4
    IrqQueueLength = 1
    MaxCommands = 4
    MaxInterrupts = 3
    TaskCreateMayFail = TRUE
SPECIFICATION FairSpec
INVARIANTS
    ResourcesOutliveTask
    SetMatchesQueues
    StopAfterCommands
PROPERTIES
    CloseReturns
CHECK_DEADLOCK FALSE
