SPECIFICATION Spec
CONSTANTS
    Bids <- MCBids
    Answers <- MCAnswers
    SumError <- MCSumError
INVARIANTS
    OneResultEach
    AuditTrail
    OutageNeverDecides
    OrderMattersOnlyIfReported
CHECK_DEADLOCK FALSE
