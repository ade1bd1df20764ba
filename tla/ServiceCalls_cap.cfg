CONSTANTS
    Calls = {c1}
    Student = student
    Staff = {advisor}
    Grant = 2
    Validity = 9
    MaxTime = 4
    MaxMoves = 2
    Reports = {}
    Volatile = {}
    Prompt = FALSE
    JoinAfterEnd = TRUE
SPECIFICATION Spec
CHECK_DEADLOCK FALSE
INVARIANTS
    ConsumptionWithinGrant
