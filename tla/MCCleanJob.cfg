\* Up to four rows in two chunks, two runs of the job.
SPECIFICATION Spec
CONSTANTS
    c1 = c1  c2 = c2  b = b
    zero = zero  blank = blank  dash = dash  whole = whole
    N = 4
    Sources <- MCSources
    ChunkSize = 2
    MaxAttempts = 2
    Columns <- MCColumns
    Values <- MCValues
    Nulls <- MCNulls
    Blanks <- MCBlanks
    Empty <- blank
    Zero <- zero
    Whole <- whole
    Rewrite <- MCRewrite
    RuleLists <- MCRuleLists
INVARIANTS
    SourceUntouched
    CleanedUpToLastChunk
    FilledAfterRetries
    FilledAlike
CHECK_DEADLOCK FALSE
