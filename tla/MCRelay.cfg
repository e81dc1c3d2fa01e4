CONSTANTS
    r1 = r1
    r2 = r2
    s1 = s1
    s2 = s2
    Requests = {r1, r2}
    Subjects = {s1, s2}
    SubjectOf <- TwoSubjects
    Answers = {"valid"}
    Callers = {c1}
    Workers = {w1}
    Sweepers = {}
    Publishers = {p1, p2}
    Aborts = 1
    SinkFailures = 1
    NoWorker = NoWorker
    NoKey = NoKey
    NoJob = NoJob
    NoTime = NoTime
    NoRecord = NoRecord
    MaxAttempts = 1
    LeaseSeconds = 0
    RetryDelay = 0
SPECIFICATION FairSpec
\* The system stops when every request is over and every event published.
CHECK_DEADLOCK FALSE
INVARIANT
    BoundedDuplication
PROPERTIES
    ImplementsRelay
    EveryEventPublished
