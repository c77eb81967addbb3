CONSTANTS
    evtmgr = evtmgr
    db = db
    appmgr = appmgr
    desktop = desktop
    Created <- FewServices
    EvtMgr = evtmgr
    CloseWhiteList = {}
    RestoreWhiteList = {}
    Product = "BellHybrid"
    Requesters = {appmgr}
    Reasons = {"RegularPowerDown", "Reboot", "RebootMSC", "FactoryReset"}
    MaxCloseRequests = 1
    MaxLowBattery = 1
    MaxRestores = 0
    MaxKeys = 0
    MaxCharger = 0
    MaxKinds = 0
SPECIFICATION Spec
INVARIANTS
    NonWhitelistedGone
CHECK_DEADLOCK FALSE
