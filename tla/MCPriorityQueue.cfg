\* Four calls, two of them at a time, two workers, a channel of two tokens.
SPECIFICATION FairSpec
CONSTANTS
    h1 = h1  h2 = h2  m1 = m1  l1 = l1  w1 = w1  w2 = w2
    NoJob = NoJob
    Calls <- MCCalls
    Workers <- MCWorkers
    Priority <- MCPriority
    CreatedAt <- MCCreatedAt
    Size <- MCSize
    NotifyCap = 2
    RamCap = 3
    MaxCallers = 2
INVARIANTS
    TokenLedger
    NeverEmptyHanded
    RamOvershootBounded
    NoOvertakingSinceWakeup
PROPERTIES
    ImplementsWorkQueue
    TakenUnlessDropped
CHECK_DEADLOCK FALSE
