CONSTANTS
    service = service
    t1 = t1
    t2 = t2
    None = None
    Thread = service
    Others = {t1, t2}
    MaxItems = 3
    MaxTimeouts = 3
SPECIFICATION MailboxFairSpec
INVARIANTS
    NoLostWakeup
    StaleOnlyFromTimeouts
PROPERTIES
    ImplementsQueue
    PopReturns
CHECK_DEADLOCK FALSE
