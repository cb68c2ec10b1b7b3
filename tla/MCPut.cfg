SPECIFICATION Spec
CONSTANTS
    User = c1
    Clients = {c1}
    Names = {n1, n2}
    Blocks = {b1, b2}
    MaxBlocks = 3
    MaxPuts = 2
    NumSends = 2
    OperationBase = 2
    LastPacket = LastPacket
    NoClient = NoClient
    Faults = {"loss", "late"}
INVARIANT PutInvariant
INVARIANT StoredIsPrefix
INVARIANT AckedIsStored
INVARIANT PutIsComplete
PROPERTY PutIsAsPromised
CHECK_DEADLOCK FALSE
