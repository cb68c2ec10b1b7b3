SPECIFICATION Spec
CONSTANTS
    Clients = {c1}
    Names = {n1, n2}
    FullBlocks = {b1}
    ShortBlocks = {s1, s2}
    TinyBlocks = {}
    MaxFull = 1
    MaxCommands = 2
    MaxAsks = 3
    MaxTries = 3
    MaxPolls = 6
    SendingFile = SendingFile
    Ack = Ack
    Nothing = Nothing
    Garbage = Garbage
INVARIANT LastPacketReceived
CHECK_DEADLOCK FALSE
