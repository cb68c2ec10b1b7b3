SPECIFICATION Spec
CONSTANTS
    Clients = {c1}
    Names = {n1}
    Blocks = {b1, b2}
    MaxBlocks = 2
    MaxPuts = 2
    NumSends = 2
    OperationBase = 5
    LastPacket = LastPacket
    NoClient = NoClient
    Faults = {"late"}
INVARIANT AckIsForThisPacket
CHECK_DEADLOCK FALSE
