CONSTANTS
    Clients = {c1, c2}
    Free = Free
    MinDuty = 2
    TopDuty = 4
    NaN = NaN
    Bad = Bad
    Chunks <- MCStopChunks
    Outcomes = {"sent"}

CHECK_DEADLOCK FALSE
SPECIFICATION FairSpec
PROPERTY StopRests
