SPECIFICATION SessionSpec
CONSTANTS
    NoAddr <- MCNoAddr
    Bits <- MCBits
    Interfaces <- MCInterfaces
    MaxRoutes = 2
    IpOf <- MCIp
    EtherOf <- MCEther
    HwInfos <- MCHwInfos
    Packets <- MCPackets
    Lines <- MCLines
    Options <- MCOptions
    MaxMessages = 5
INVARIANTS
    SessionTypeOK
    LongestMatch
    Framed
    
    AddressesAsAnnounced
    OpensWhenAdmitted
    
PROPERTIES
    
    EveryMessageHandled
CHECK_DEADLOCK FALSE
