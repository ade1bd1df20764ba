CONSTANTS
    Calls = {c1}
    Student = student
    Staff = {advisor}
    Grant = 1
    Validity = 1
    MaxTime = 2
    MaxMoves = 3
    Reports = {1}
    Volatile = {advisor}
    Prompt = FALSE
    JoinAfterEnd = TRUE
SPECIFICATION FairSpec
CHECK_DEADLOCK FALSE
INVARIANTS TypeOK ExactUnlessTied
PROPERTIES BilledOnceAfterEnd UsedUpCallStops
