SPECIFICATION FairSpec
CONSTANTS
    NoRoute = NoRoute
    Addrs <- NetAddrs
    Mine <- NetMine
    Hops <- NetHops
    Route <- NetRoute
    OutAddr <- NetOut
    Arrivals <- NetArrivals
    CacheSize = 1
    CacheTimeout = 1
    Tries = 4
    MaxPackets = 3
    MaxAsked = 5
INVARIANTS
    CachedNotRequested
    NoPacketLost
    GivesUpAfterAll
    OneFate
    OneEntryPerHop
    RequestHasPackets
PROPERTY EveryPacketSettled
CHECK_DEADLOCK FALSE
