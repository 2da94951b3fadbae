\* Columns of seven and ten cells; a cleaned column is not cleaned again.
SPECIFICATION ColumnSpec
CONSTANTS
    Cells <- MCCells
    Missing <- MCMissing
    Nulls <- MCNulls
    Matches <- MCMatches
    Layout <- MCLayout
    NoLayout = "none"
    Timed = {}
    Shows <- MCShows
    Casing <- MCCasing
    Does <- MCDoes
    Parses <- MCParses
    Number <- MCNumber
    NoNumber = "none"
    Truth <- MCTruth
    At <- MCAt
    MeanOf <- MCMeanOf
    Zero = "0"
    False = "false"
    Unknown = "Unknown"
    Similar <- MCSimilar
    Inputs <- MCInputs
INVARIANTS
    FilledAfterCleaning
    MismatchesGone
    OutliersJoinCategories
CHECK_DEADLOCK FALSE
