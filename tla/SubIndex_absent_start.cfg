\* Files of up to 3 records, searched in one buffer.
CONSTANTS
    Keys = {1, 2, 3}
    Sizes = {0, 1, 2, 3}
    DiskBlock = 8
    KeySize = 1
    OffsetSize = 1
    HdrSize = 2
    MaxTreeBuffer = 100
SPECIFICATION Spec
CHECK_DEADLOCK FALSE
INVARIANT SearchComplete
