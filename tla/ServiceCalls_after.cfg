CONSTANTS
    Calls = {c1}
    Student = student
    Staff = {advisor}
    Grant = 1
    Validity = 9
    MaxTime = 3
    MaxMoves = 4
    Reports = {}
    Volatile = {}
    Prompt = TRUE
    JoinAfterEnd = TRUE
SPECIFICATION Spec
CHECK_DEADLOCK FALSE
PROPERTIES
    NoTalkWithoutBalance
