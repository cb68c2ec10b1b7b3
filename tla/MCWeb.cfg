SPECIFICATION FairSpec
CONSTANTS
    Connections = {k1, k2, k3}
    Backlog = 0
    MaxFds = 3
    MaxRequests = 2
INVARIANT TypeOK
INVARIANT FoundWhileDescriptorsLast
PROPERTY RequestAnswered
PROPERTY NobodyWaitsInBacklog
\* Clients may stop sending.
CHECK_DEADLOCK FALSE
