SPECIFICATION Spec
CONSTANTS
    Connections = {k1, k2, k3}
    Backlog = 0
    MaxFds = 3
    MaxRequests = 2
PROPERTY NothingAfterError
\* Clients may stop sending.
CHECK_DEADLOCK FALSE
