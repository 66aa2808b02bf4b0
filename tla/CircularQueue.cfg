SPECIFICATION Spec
CONSTANTS
    N = 2
    W = 2
    BYTE = 4
    Items = {f, g}
    NULL = NULL
INVARIANT OccupiedInQueue
PROPERTY WindowsSpec
