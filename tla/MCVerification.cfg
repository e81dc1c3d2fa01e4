SPECIFICATION Spec
CONSTANT Cases <- MCCases
INVARIANTS
    FindingsAreGrounded
    SeenFromBothSides
    CopyIsReported
    OrderIsIrrelevant
    BadNewsNeverHelps
CHECK_DEADLOCK FALSE
