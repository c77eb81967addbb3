CONSTANTS
    evtmgr = evtmgr
    db = db
    appmgr = appmgr
    desktop = desktop
    Created <- PureServices
    EvtMgr = evtmgr
    CloseWhiteList = {evtmgr}
    RestoreWhiteList = {evtmgr, appmgr, desktop}
    Product = "PurePhone"
    Requesters = {appmgr}
    Reasons = {"RegularPowerDown"}
    MaxCloseRequests = 1
    MaxLowBattery = 0
    MaxRestores = 1
    MaxKeys = 1
    MaxCharger = 1
    MaxKinds = 1
SPECIFICATION FairSpec
INVARIANTS
    NonWhitelistedGone
PROPERTIES
    DestroyOrder
    CloseCompletes
    ShutdownCompletes
CHECK_DEADLOCK FALSE
