\* Files of 4 and 5 records (virtual nodes), searched in one buffer.
CONSTANTS
    Keys = {1, 2, 3}
    Sizes = {4, 5}
    DiskBlock = 8
    KeySize = 1
    OffsetSize = 1
    HdrSize = 2
    MaxTreeBuffer = 100
SPECIFICATION Spec
CHECK_DEADLOCK FALSE
INVARIANT NoUndefinedBehaviour
