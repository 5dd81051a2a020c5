\* The parse of whole packets against the spec's account of it (4.D).
CONSTANTS
    Input <- MC_Input
    Over = 16
    Junk = {0}
SPECIFICATION Spec
INVARIANT ParsesAsSpecified
\* One packet is parsed: the parse stops at "done".
CHECK_DEADLOCK FALSE
