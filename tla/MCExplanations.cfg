CONSTANTS
    r1 = r1
    r2 = r2
    s1 = s1
    s2 = s2
    Requests = {r1, r2}
    Subjects = {s1}
    SubjectOf <- OneSubject
    Answers = {"valid", "invalid", "timeout"}
    Callers = {c1}
    Workers = {w1, w2}
    Sweepers = {v1}
    Publishers = {}
    Aborts = 1
    SinkFailures = 0
    NoWorker = NoWorker
    NoKey = NoKey
    NoJob = NoJob
    NoTime = NoTime
    NoRecord = NoRecord
    MaxAttempts = 2
    LeaseSeconds = 0
    RetryDelay = 0
SPECIFICATION Spec
\* The system stops when every request is over.
CHECK_DEADLOCK FALSE
INVARIANTS
    ReadyIsAnnounced
    SucceededIsExplained
    RowIsPast
