SPECIFICATION QueuesSpec
CONSTANTS
    Depth = 3
    OrderMod = 6
    IndexMod = 6
    AgeBound = 5
    Messages <- MCMessages
    Threads <- MCThreads
    Consumers <- MCConsumers
    Capacities <- MCSizes
    SendModes <- MCSendModes
    Spurious = TRUE
    Buffers <- MCBuffers
    NoBuffer = "none"
    Capacity = 2
    Senders <- MCSenders
    Blank = "none"
    MaxMsg = 3
INVARIANTS PoolHoldsTheFreeSlots NoLostWakeup DrainsInOrder NothingLostOrMixed
PROPERTIES ImplementsFifo UrgentIsDelivered
