\* Two jobs and an export over two ids, two of the three at a time; the datasets have two
\* rows, cleaned in one chunk.
SPECIFICATION Spec
CONSTANTS
    a = a  b = b  j1 = j1  j2 = j2  e1 = e1
    Ids = {a, b}
    Loaded = {a}
    Jobs = {j1, j2}
    Exports = {e1}
    Rows = 2
    Chunk = 2
    None = None
    MaxBusy = 2
SYMMETRY Symmetry
CONSTRAINT FewBusy
INVARIANTS
    OnlyInPlaceRaces
    ExportsAreWhole
    AnalysisFits
    FinishedStands
CHECK_DEADLOCK FALSE
