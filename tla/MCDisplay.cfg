CONSTANTS
    f = f
    g = g
    Torn = Torn
    Blank = Blank
    ContextsCount = 2
    Frames = {f, g}
    MaxDraws = 3
    MaxSchemes = 1
    MaxTimeouts = 3
    MaxErrors = 1
    MaxCloses = 1
    MaxEvents = 3
SPECIFICATION FairSpec
INVARIANTS
    PoolConsistent
    NoTornFrame
PROPERTIES
    LatestShown
    CloseAnswered
CHECK_DEADLOCK FALSE
