CONSTANTS
    Task = {s1}
    Session = {s1}
    Private = {s1}
    Worker = w
    Slot = {w}
    Priority <- MCPriority
    RetryPolicy <- MCRetryPolicy
    Lease = 1
    MaxStamp = 0
    MaxCharge = 0
    MaxCrash = 2
SPECIFICATION FairSpec
INVARIANTS
    ProviderWorkIsBacked
PROPERTIES
    PromiseKept
    DeletionHolds
    SchemaTakesEveryWrite
    RequestSettles
CHECK_DEADLOCK FALSE
