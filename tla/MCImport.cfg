\* Files of up to four lines; a job ends, and then nothing happens.
SPECIFICATION Spec
CONSTANTS
    p = p  pPadded = pPadded  q = q  x = x  y = y  bad = bad  empty = empty
    Cells <- MCCells
    Empty <- empty
    Trim <- MCTrim
    Bad <- bad
    Inputs <- MCInputs
    MaxFailed = 2
INVARIANTS
    StoredIsTheFile
    ColumnsMatchRows
PROPERTIES
    ImportEnds
CHECK_DEADLOCK FALSE
