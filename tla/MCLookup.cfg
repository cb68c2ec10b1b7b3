SPECIFICATION Spec
CONSTANTS
    Threads = {t1, t2}
    Requests <- MCRequests
    AddressOf <- MCAddressOf
    Addresses <- MCAddresses
    EntryRoom = 5
    TextRoom = 10
    Lines <- MCLines
    MaxRequests = 3
    MaxOverlaps = 1
    Default = Default
    Unset = Unset
    None = None
    x = x
INVARIANTS
    TypeOK
    PageIsOwn
    DnsCacheIsRight
    NobodyStuck
PROPERTIES
    ForbiddenNotFetched
    StaysUp
\* The bound on requests ends the run.
CHECK_DEADLOCK FALSE
