CONSTANTS
    j1 = j1
    Jobs = {j1, j2}
    Workers = {w1, w2}
    Keys = {k1}
    Clients = {c1, c2}
    NoWorker = NoWorker
    NoKey = NoKey
    NoJob = NoJob
    NoTime = NoTime
    MaxAttempts = 2
    LeaseSeconds = 1
    MaxDelay = 1
    Crashes = TRUE
    MaxPending = 3
SPECIFICATION MCSpec
SYMMETRY Symmetry
\* Redis rests when every job is over.
CHECK_DEADLOCK FALSE
INVARIANTS
    NoJobIsLost
    PlacesAreExact
    OneJobPerKey
PROPERTIES
    LiveLeasesKept
    ImplementsLifecycle
