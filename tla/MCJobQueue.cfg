CONSTANTS
    Jobs = {j1, j2, j3}
    Workers = {w1, w2}
    Keys = {k1}
    NoWorker = NoWorker
    NoKey = NoKey
    NoJob = NoJob
    NoTime = NoTime
    MaxAttempts = 2
    LeaseSeconds = 1
    MaxDelay = 1
SPECIFICATION FairSpec
\* The queue stops when every job is over.
CHECK_DEADLOCK FALSE
INVARIANTS
    PendingIsExact
    AttemptBudget
    LeaseIsExact
    KeysAreUnique
PROPERTIES
    NoStolenLease
    NoWaitingJobStarves
    ImplementsLifecycle
