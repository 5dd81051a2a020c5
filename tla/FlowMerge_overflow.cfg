CONSTANTS
    Captures = {1, 2}
    Keys <- MC_Keys
    Counts = {3, 9}
    Times = {1, 2}
    Width = 4
    PowBits = 4
SPECIFICATION Spec
INVARIANT
    UnionMergesCounts
