SPECIFICATION FairSpec
CONSTANTS
    NumEntries = 2
    Warn <- MCWarn
    Fatal <- MCFatal
    Commands <- MCCommands
    Repeating = {2}
    MaxCommands = 2
    QueueDepth = 2
    KeyMod = 3
    CycleCap = 4
INVARIANTS PingsAreMatched
PROPERTIES NoFalseLate SilenceIsReported
CHECK_DEADLOCK FALSE
