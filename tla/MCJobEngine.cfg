\* One job, two workers: a job can be queued and run twice.
SPECIFICATION Spec
CONSTANTS
    a = a  b = b  w1 = w1  w2 = w2
    NoJob = NoJob
    Poller = Poller
    Jobs <- OneJob
    Workers <- TwoWorkers
    Cancellable <- OneJob
    Priority <- MCPriority
    DependsOn <- NoDependency
    MaxRetries = 2
    PageSize = 2
    MayReject = TRUE
INVARIANTS
    RunningHasWorker
    QueuedIsServed
    RetryOvershootBounded
PROPERTY
    SettledStays
