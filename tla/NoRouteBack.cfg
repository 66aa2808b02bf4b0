SPECIFICATION Spec
CONSTANTS
    NoRoute = NoRoute
    Addrs <- HostAddrs
    Mine <- HostMine
    Hops <- HostHops
    Route <- HostRoute
    OutAddr <- HostOut
    Arrivals <- HostTransit
    CacheSize = 2
    CacheTimeout = 2
    Tries = 4
    MaxPackets = 1
    MaxAsked = 5
INVARIANT SourcesReachable
