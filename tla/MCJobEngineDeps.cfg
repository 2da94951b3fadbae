\* Two jobs, one of which depends on the other; one poll lists every pending job, and the queue has room.
SPECIFICATION FairSpec
CONSTANTS
    a = a  b = b  w1 = w1  w2 = w2
    NoJob = NoJob
    Poller = Poller
    Jobs <- TwoJobs
    Workers <- OneWorker
    Cancellable <- OnlyB
    Priority <- MCPriority
    DependsOn <- BDependsOnA
    MaxRetries = 1
    PageSize = 2
    MayReject = FALSE
INVARIANTS
    DependencyRespected
PROPERTIES
    SafetyNet
    EveryJobRuns
