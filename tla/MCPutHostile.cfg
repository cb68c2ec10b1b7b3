SPECIFICATION FairSpec
CONSTANTS
    Clients = {c1}
    Names = {n1}
    Blocks = {b1, b2}
    MaxBlocks = 3
    MaxPuts = 1
    NumSends = 2
    OperationBase = 4
    LastPacket = LastPacket
    NoClient = NoClient
    Faults = {"loss", "late", "reorder", "badsum"}
INVARIANT TypeOK
INVARIANT NothingMissing
PROPERTY ClientReturns
CHECK_DEADLOCK FALSE
