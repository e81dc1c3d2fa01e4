CONSTANTS
    q2 = q2
    Names = {n1, n2, n3}
    Empty = {n3}
    Workers = {w1, w2}
    Requests = {q1, q2}
    MaxDeliveries = 2
    NoRecord = NoRecord
SPECIFICATION MCSpec
\* The service rests when nobody asks.
CHECK_DEADLOCK FALSE
INVARIANT
    BiddersStoredOnce
