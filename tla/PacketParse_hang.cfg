\* A mobility header whose payload protocol names a mobility header.
CONSTANTS
    Input <- MC_Mobility
    Over = 16
    Junk = {0}
SPECIFICATION Spec
PROPERTY ParseTerminates
CHECK_DEADLOCK FALSE
