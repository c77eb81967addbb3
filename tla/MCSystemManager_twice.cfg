CONSTANTS
    evtmgr = evtmgr
    db = db
    appmgr = appmgr
    desktop = desktop
    Created <- FewServices
    EvtMgr = evtmgr
    CloseWhiteList = {evtmgr}
    RestoreWhiteList = {evtmgr, appmgr}
    Product = "PurePhone"
    Requesters = {evtmgr, appmgr}
    Reasons = {"RegularPowerDown"}
    MaxCloseRequests = 2
    MaxLowBattery = 0
    MaxRestores = 0
    MaxKeys = 0
    MaxCharger = 0
    MaxKinds = 0
SPECIFICATION FairServicesSpec
PROPERTIES
    CloseCompletes
CHECK_DEADLOCK FALSE
