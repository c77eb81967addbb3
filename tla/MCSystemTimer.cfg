CONSTANTS
    single = single
    periodic = periodic
    Timers = {single, periodic}
    Periodic = {periodic}
    TimerQueueLength = 3
    MaxStarts = 2
    MaxStops = 1
    MaxMessages = 1
SPECIFICATION FairSpec
INVARIANTS
    FlagMatchesTimer
PROPERTIES
    StartedFires
CHECK_DEADLOCK FALSE
