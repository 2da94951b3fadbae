\* Four rows, three keys, a window that does not reach from the first to the last.
SPECIFICATION Spec
CONSTANTS
    N = 4
    Keys <- MCKeys
    Similar <- MCSimilar
    MaxFilled = 1
    WindowSize = 3
INVARIANTS
    NoSimilarPairKept
    Represented
    FirstIsExact
CHECK_DEADLOCK FALSE
