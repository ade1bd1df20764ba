CONSTANTS
    Students = {s1}
    Questions = {q1, q2}
    Options = {o1, o2}
    Opens = 1
    Closes = 3
    Duration = 1
    Limit = 2
    Horizon = 3
    Pupils = {p1}
    Requests = {r1, r2}
    PoolSize = 3
    Items = {i1, i2}
    Lessons = {l1, l2}
    MaxTries = 2
    Requesters = {j1}
    Operators = {op1}
    Tickets = {t1}
    Priorities = {"normal", "urgent"}
    Seconds = {0, 30}
    Steps = {0, 479}
    LastMoment = 958
    MaxPauses = 2
    Attachments = {a1, a2}
    MAX_SUPPORT_ATTACHMENTS_PER_TICKET = 1
SPECIFICATION Spec
SYMMETRY Symmetry
CHECK_DEADLOCK FALSE
INVARIANTS
    TypeOK
    AttemptsAreSound
    ExercisesAreSound
    SupportKeepsItsWord
    WritesUnderAuthority
    AnswersAreHonest
PROPERTIES
    ClosedIsFrozen
    AnswersStand
