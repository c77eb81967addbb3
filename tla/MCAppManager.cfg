CONSTANTS
    home = home
    calls = calls
    music = music
    none = none
    Apps = {home, calls, music}
    Root = home
    Closeable = {calls, music}
    Blocking = {calls}
    InBackground = {music}
    NoApp = none
    Product = "PurePhone"
    MaxRequests = 3
    MaxCrossings = 1
SPECIFICATION FairSpec
INVARIANTS
    ActionAnswered
    HandlesExist
    FocusSettles
PROPERTIES
    Settles
CHECK_DEADLOCK FALSE
