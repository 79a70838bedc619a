CONSTANTS
    Clients = {c1, c2}
    Free = Free
    MinDuty = 2
    TopDuty = 4
    NaN = NaN
    Bad = Bad
    Chunks <- MCChunks
    Outcomes = {"sent", "raised"}
    MaxDuty = 1
    Duties <- MCDuties
    Currents = {0}
    FloatNaN = FloatNaN
    Layout <- MCLayout
    BufLen = 4
    WireLen = 4
    CmdLen = 2
    Crashes = {"bridge", "server"}

CHECK_DEADLOCK FALSE
SPECIFICATION MotorsSpec
INVARIANTS LinkIsKept DisabledIsAtRest
PROPERTIES OneLinePublished BothWaysFlow
