SPECIFICATION Spec
CONSTANTS
    OperationBase = 127
    MaxNumber = 1020
    Lengths = {0, 1, 126, 127, 128, 1016, 1019, 1020}
    BufSize = 5
    Characters = {1, 10, 22, 104}
    Talkers = {t1, t2}
    Private = {0, 3, 7}
    Public <- PublicKey
    Shared <- SharedKey
    Keys <- SomeKeys
    Texts = {hello}
    Garbled = Garbled
    None = None
    MaxMessages = 2
    MaxRuns = 2
    Clients = {c1, c2}
    Lines = {Empty, Line}
    Nothing = Nothing
    MaxStarts = 2
INVARIANTS
    HeaderSurvives
    OnlyThisAckAccepted
    LongSizeIsRead
    LastIsRecognised
    TextArrives
    CopyIsTheFile
    ExchangeTypeOK
    MessagesReadable
    OneIsAnswered
    ReplyIsOwn
PROPERTIES
    SomebodyTalks
    LineComesBack
CHECK_DEADLOCK FALSE
