CONSTANTS
    home = home
    calls = calls
    music = music
    none = none
    Apps = {home, calls, music}
    Root = home
    Closeable = {calls, music}
    Blocking = {calls}
    InBackground = {music}
    NoApp = none
    Product = "PurePhone"
    MaxRequests = 2
    MaxCrossings = 1
SPECIFICATION Spec
INVARIANTS
    OneHasFocus
CHECK_DEADLOCK FALSE
