SPECIFICATION Spec
CONSTANTS
    Requests <- MCRequests
    Sizes = {0, 3}
    MaxData = 2
    Word = 8
    Timeout = 1
    Cooldown = 1
    CycleTime = 1
    FileQueueDepth = 2
    CommandFailuresDisabled = TRUE
    MaxRequests = 2
PROPERTY StaleIsIgnored
CHECK_DEADLOCK FALSE
