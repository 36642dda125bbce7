CONSTANTS
    Lengths <- MCLengths
    Times <- MCTimes
    Wrap = 64
SPECIFICATION Spec
INVARIANT TypeOK
INVARIANT LargestPrimesFirst
CHECK_DEADLOCK FALSE
