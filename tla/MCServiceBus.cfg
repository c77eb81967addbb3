SPECIFICATION FairSpec
CONSTANTS
    mgr = mgr
    a = a
    b = b
    none = none
    Services <- MCServices
    SysMgr = mgr
    Subscribers <- MCSubscribers
    NoMsg = none
    Started <- MCStarted
    MaxRequests = 2
    MaxGroupSends = 1
    MaxStarts = 1
INVARIANTS TypeOK SyncMatches Routing NothingLost
PROPERTIES SyncReturns Quiescence
CHECK_DEADLOCK FALSE
