\* Two workers run the same job, which its handler and the poll have both enqueued.
SPECIFICATION Spec
CONSTANTS
    a = a  b = b  w1 = w1  w2 = w2
    NoJob = NoJob
    Poller = Poller
    Jobs <- OneJob
    Workers <- TwoWorkers
    Cancellable <- None
    Priority <- MCPriority
    DependsOn <- NoDependency
    MaxRetries = 1
    PageSize = 2
    MayReject = FALSE
INVARIANT
    SingleExecution
