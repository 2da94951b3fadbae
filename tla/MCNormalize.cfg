\* Rules on three rows, 1NF on two, 2NF and 3NF on three; 4 is the largest
\* number, so that the difference of 5 and 0 is infinite.
SPECIFICATION Spec
CONSTANTS
    Column <- MCColumn
    IdColumns <- MCIdColumns
    IdOf <- MCIdOf
    Sanitize <- MCSanitize
    Inputs <- MCInputs
    Rewrite <- MCRewrite
    Lower <- MCLower
    ReadAs <- MCReadAs
    Text <- MCText
    Separated <- MCSeparated
    Atoms <- MCAtoms
    SplitPercent = 60
    UniquePercent = 100
    Scale = 10
    MaxNumber = 4
INVARIANTS
    LoneRulesReachTheirGoal
    CombinationsKept
    ForeignKeysResolve
PROPERTIES
    NothingLost
CHECK_DEADLOCK FALSE
