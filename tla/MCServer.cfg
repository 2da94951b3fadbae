\* One or two workers, four ever spawned, two jobs; nine workers asked for; two signals.
SPECIFICATION FairServerSpec
CONSTANTS
    j1 = j1  j2 = j2
    NoJob = NoJob
    Jobs <- MCJobs
    MinWorkers = 1
    MaxWorkers = 2
    InitialWorkers = 9
    MaxSpawns = 4
    MaxSignals = 2
INVARIANTS
    WorkersAccounted
PROPERTIES
    StopWaits
    ShrinkCompletes
    SignalsEndTheServer
CHECK_DEADLOCK FALSE
