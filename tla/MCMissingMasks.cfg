SPECIFICATION Spec
CONSTANT Cases <- MCCases
INVARIANTS
    BadNewsNeverHelpsAtAll
CHECK_DEADLOCK FALSE
