CONSTANTS
    p1 = p1
    p2 = p2
    s1 = s1
    Queued = {s1}
    Direct = {}
    Clients = {c1}
    WorkerProcs = {p1}
    WorkerIds = {"worker:1", "worker:2"}
    WorkerId <- OwnId
    FaultSets = {{"crash"}}
    Failures = {}
    NoWorker = NoWorker
    NoKey = NoKey
    NoJob = NoJob
    NoTime = NoTime
    NoRecord = NoRecord
    MaxAttempts = 2
    LeaseSeconds = 1
    MaxDelay = 1
SPECIFICATION MCSpec
CHECK_DEADLOCK FALSE
PROPERTY
    CompleteIsTerminal
