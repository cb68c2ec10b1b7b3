SPECIFICATION FairSpec
CONSTANTS
    Clients = {c1}
    User = c1
    Names = {n1}
    FullBlocks = {b1, b2}
    ShortBlocks = {s1}
    TinyBlocks = {t1}
    MaxFull = 2
    MaxCommands = 1
    MaxAsks = 2
    MaxTries = 3
    MaxPolls = 7
    SendingFile = SendingFile
    Ack = Ack
    Nothing = Nothing
    Garbage = Garbage
INVARIANT TypeOK
PROPERTY GetIsAsPromised
INVARIANT LastMeansWhole
INVARIANT ReceivedInOrder
PROPERTY ClientReturns
PROPERTY SendFileReturns
CHECK_DEADLOCK FALSE
