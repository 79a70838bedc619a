SPECIFICATION PrmSpec
CONSTANTS
    Params = {1, 2}
    Values <- MCValues
    NumEntries = 2
    MaxSets = 3
    MaxSaves = 2
    MaxStarts = 3
INVARIANT NotLoadedIsInvalid
CHECK_DEADLOCK FALSE
