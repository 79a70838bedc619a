CONSTANTS
    Clients = {"c1", "c2"}
    Free = Free
    MaxDuty = 1
    NaN = NaN
    Bad = Bad
    Chunks <- MCChunks
    ReplyRoom = 1
    Outcomes = {"sent", "raised"}
    Pieces = 2

CHECK_DEADLOCK FALSE
SPECIFICATION ConnectionsSpec
INVARIANTS AtMostOneStaleSend AckMatchesState SocketIsKept
PROPERTIES EnableStartsAtRest DisabledComesToRest TaskClosesTheDead TaskGoesOn
