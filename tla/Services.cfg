SPECIFICATION ServicesSpec
CONSTANTS
    Store = 5
    Byte = {0, 1, 2, 3}
    BufferSizes <- MCSizes
    StartWord = 3
    PacketCommand = 1
    PacketFile = 0
    MaxCom = 1
    MaxChunk = 2
    MaxStream = 7
    Channels = {1, 2, 3}
    doHash <- Modulo
    HashSlots = {0, 1}
    Buckets = 3
    MaxWrites = 4
    Dividers <- MCDividers
    Rollover = 6
    NumContexts = 1
    QueueDepth = 2
    Throttle = 1
    MaxPings = 1
    ChannelIds = {1, 2, 3}
    Packets <- MCPackets
    Ignored = {3}
    Levels = {0, 1, 2}
    StartLevel = 1
    PacketIds = {1, 2, 3}
    Modes = {"ALWAYS", "ON_CHANGE", "AFTER_FIRST_CHANGE"}
    MaxReceives = 2
    BaseNames <- MCBaseNames
    Buffers <- MCBuffers
    ByteBase = 4
    sizeOfSize = 1
    maxSize = 5
    Params = {1, 2}
    Values <- MCParamValues
    NumEntries = 2
    MaxSets = 3
    MaxSaves = 2
    MaxStarts = 3
    MaxLogs = 4
    MaxFailures = 1
    MaxCommands = 2
INVARIANTS DeframesTheStream BuffersAccounted QuietFileIsWhole TicksAreCycles LoadIsSound
    SendsTheSwap LogReadsBack
PROPERTIES LatestIsSent
CHECK_DEADLOCK FALSE
