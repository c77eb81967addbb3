CONSTANTS
    app = app
    eink = eink
    Sentinels = {eink, app}
    Apps = {app}
    HoldLevels = {3}
    Loads = {"low", "high"}
    MinimalFrequency = 0
    MaxAbove = 1
    MaxBelow = 2
    MaxBelowInRow = 1
    MaxRequests = 3
    MaxEvents = 2
SPECIFICATION FairSpec
INVARIANTS
    RequestsReach
    RequestsHonoured
    SentinelsInformed
    MutexMatchesPermission
    HandlesValid
PROPERTIES
    AnsweredMeansDone
    DropsToMinimum
CHECK_DEADLOCK FALSE
