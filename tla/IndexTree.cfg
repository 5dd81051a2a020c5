CONSTANTS
    Keys = {1, 2}
    Flows = {1, 2, 3}
    MaxPkts = 4
    MaxOrder = 64
    DiskBlock = 2
    KeySize = 1
    HdrSize = 1
    NULL = NULL
SPECIFICATION Spec
CHECK_DEADLOCK FALSE
INVARIANTS
    TypeOK
    IndexConsistent
    WrittenIndexSearchable
    TraversalMemorySafe
PROPERTIES
    IndexingTerminates
