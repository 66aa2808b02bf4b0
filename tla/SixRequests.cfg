SPECIFICATION Spec
CONSTANTS
    NoRoute = NoRoute
    Addrs <- HostAddrs
    Mine <- HostMine
    Hops <- HostHops
    Route <- HostRoute
    OutAddr <- HostOut
    Arrivals <- HostTransit
    CacheSize = 2
    CacheTimeout = 2
    Tries = 4
    MaxPackets = 2
    MaxAsked = 6
INVARIANT AtMostFiveRequests
