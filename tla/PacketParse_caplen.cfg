\* Packets whose capture kept fewer bytes than they had on the wire.
CONSTANTS
    Input <- MC_Truncated
    Over = 64
    Junk = {0}
SPECIFICATION Spec
INVARIANT ReadsInPacket
CHECK_DEADLOCK FALSE
