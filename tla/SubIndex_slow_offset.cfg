\* Files of up to 7 records; the buffer holds three, so the root levels are walked one read at a time.
CONSTANTS
    Keys = {1, 2, 3}
    Sizes = {1, 2, 3, 4, 5, 6, 7}
    DiskBlock = 8
    KeySize = 1
    OffsetSize = 1
    HdrSize = 2
    MaxTreeBuffer = 6
SPECIFICATION Spec
CHECK_DEADLOCK FALSE
INVARIANT NoFalsePositives
