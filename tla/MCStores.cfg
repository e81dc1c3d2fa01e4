CONSTANTS
    s1 = s1
    s2 = s2
    s3 = s3
    f1 = f1
    f2 = f2
    r1 = r1
    c1 = c1
    c2 = c2
    AI = AI
    Submissions = {s1, s2, s3}
    Together = {s1, s2}
    Flags = {f1, f2}
    Requirements = {r1}
    Contents = {c1, c2}
    ContentOf <- Documents
    Outcomes <- Found
    NoRecord = NoRecord
    MaxRaises = 1
    MaxTorn = 1
    MaxRuns = 3
    MaxTogether = 2
SPECIFICATION Spec
\* The system rests when every submission is over.
CHECK_DEADLOCK FALSE
INVARIANTS
    AnswersAreOnRecord
    FlagsAreGrounded
    ExplanationsAreGrounded
    DocumentsAreReadable
    ReadBackAgrees
