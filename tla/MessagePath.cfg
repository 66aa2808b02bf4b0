SPECIFICATION PathSpec
CONSTANTS
    B = 3
    N = 5
    Generator <- MCGenerator
    PAYLOAD = 2
    REM = 8
    ByteOf <- MCByteOf
    Texts <- MCTexts
    Garbage <- MCGarbage
    MaxMsgs = 2
    MaxFaults = 2
    Lists <- MCLists
    MaxNodes = 12
    Values <- MCValues
    NULL = NULL
INVARIANTS
    PathTypeOK
    CorruptionDetected
    ListsLinked
    DeliveredWhole
PROPERTIES
    EveryMessagePrinted
