SPECIFICATION Spec
CONSTANTS
    Bids <- MCBids
    Answers <- MCAnswers
    SumError <- MCSumError
INVARIANTS
    NoOutageAborts
CHECK_DEADLOCK FALSE
