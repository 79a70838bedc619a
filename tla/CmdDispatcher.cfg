SPECIFICATION DispatcherSpec
CONSTANTS
    SeqPorts = {"p", "q"}
    StatusPorts = {"p"}
    CompPorts = {1, 2}
    Registrations <- MCRegistrations
    Opcodes = {"A", "Clear"}
    OwnOps = {"Clear"}
    ClearOp = "Clear"
    Malformed = "Malformed"
    Contexts = {7}
    Responses = {"OK"}
    EntryTableSize = 2
    TrackerSize = 2
    QueueDepth = 2
    SeqMod = 4
    MaxSubmits = 3
    Faults = {"drop", "repeat"}
INVARIANTS TablesAreKept StatusFindsItsCommand
PROPERTIES ServiceSpec EveryCommandEnds
CHECK_DEADLOCK FALSE
