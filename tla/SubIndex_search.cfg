\* Files of 0..15 records over three keys.  The preview block has depth 3
\* and holds 6 keys, so files of 8 records and more have a preview and it
\* is cut short from 14 up.  MAX_TREE_BUFFER holds three records: files of
\* 4..7 records, and files whose preview ends early, walk the upper levels
\* one read at a time before the buffered descent.
CONSTANTS
    Keys = {1, 2, 3}
    Sizes = {0, 1, 2, 3, 4, 5, 6, 7, 8, 9, 10, 11, 12, 13, 14, 15}
    DiskBlock = 8
    KeySize = 1
    OffsetSize = 1
    HdrSize = 2
    MaxTreeBuffer = 6
SPECIFICATION Spec
\* A search returns: its final states have no successor.
CHECK_DEADLOCK FALSE
INVARIANTS TypeOK PreviewInStep MatchIsLeftmost
PROPERTIES SearchTerminates
