SPECIFICATION LinkFairSpec
CONSTANTS
    MaxDuty = 1
    Duties <- MCDuties
    Currents = {}
    FloatNaN = FloatNaN
    Layout <- MCLayout
    BufLen = 4
    WireLen = 4
    CmdLen = 1
    Crashes = {}
PROPERTY StopCommandRests
CHECK_DEADLOCK FALSE
