CONSTANTS
    Procs <- MC_Procs
    Items = 3
    BufCap = 2
    NULL = NULL
SPECIFICATION Spec
CHECK_DEADLOCK FALSE
INVARIANTS
    ReadsComplete
