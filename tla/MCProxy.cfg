CONSTANTS
    Threads = {t1, t2}
    Urls = {u1, u2}
    PageLength = 3
    Timeout = TRUE
    MaxRequests = 3
    MaxCrashes = 1
    Refusal = Refusal
    Junk = Junk
    None = None
SPECIFICATION FairSpec
INVARIANTS
    TypeOK
    LastFetchIsWhole
    CacheInvariant
PROPERTY RequestEnds
\* The bound on requests ends the run.
CHECK_DEADLOCK FALSE
