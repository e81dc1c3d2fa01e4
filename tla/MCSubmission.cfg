CONSTANTS
    p1 = p1
    p2 = p2
    s1 = s1
    Queued = {s1}
    Direct = {s2}
    Clients = {c1}
    WorkerProcs = {p1, p2}
    WorkerIds = {"worker:1", "worker:2"}
    WorkerId <- OwnId
    FaultSets = {{}, {"crash", "stall", "db"}}
    Failures = {"retryable", "permanent"}
    NoWorker = NoWorker
    NoKey = NoKey
    NoJob = NoJob
    NoTime = NoTime
    NoRecord = NoRecord
    MaxAttempts = 2
    LeaseSeconds = 1
    MaxDelay = 1
SPECIFICATION MCSpec
\* The system rests when every submission is over.
CHECK_DEADLOCK FALSE
INVARIANTS
    DoneMeansPersisted
    FailuresAreRuns
    JobAndRowAgree
PROPERTIES
    OnlyHolderSettles
    EveryJobEnds
