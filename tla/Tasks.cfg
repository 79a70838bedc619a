SPECIFICATION TasksSpec
CONSTANTS
    Requests <- MCRequests
    Sizes = {0, 3}
    MaxData = 2
    Word = 8
    Timeout = 1
    Cooldown = 1
    CycleTime = 1
    FileQueueDepth = 2
    CommandFailuresDisabled = TRUE
    MaxRequests = 3
    Files <- MCFiles
    Missing = Missing
    Ops = {"CS_RUN", "CS_VALIDATE", "seqRunIn", "CANCEL", "CS_START", "CS_STEP",
           "CS_AUTO", "CS_MANUAL", "CS_JOIN_WAIT"}
    Blocks = {TRUE, FALSE}
    Delays = {0, 2}
    SeqTimeout = 1
    Ids <- MCIds
    MaxLate = 1
INVARIANTS RunInOrder OwedIsAnswered
    OneAnswerEach PacketsAreTheFile InFlightIntact AssertionsHold
PROPERTIES AutoEnds RequestIsAnswered
CHECK_DEADLOCK FALSE
