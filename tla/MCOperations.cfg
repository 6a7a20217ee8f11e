SPECIFICATION FairSpec
CONSTANTS
    c1 = c1
    c2 = c2
    d1 = d1
    d2 = d2
    k1 = k1
    Clients = {c1, c2}
    Daemons = {d1, d2}
    Keys = {k1}
    Requests <- SomeRequests
    ClientRetries = 2
    MaxConnections = 2
    MaxRuns = 1
    Subscribe = Subscribe
    Shutdown = Shutdown
    None = None
INVARIANT ServingOwnsTheSocket
PROPERTY ImplementsService
PROPERTY ControlSlotFrees
