CONSTANTS
    People = {Educator, Provider, p3}
    Educator = Educator
    Provider = Provider
    Learners = {Educator}
    Courses = {c1, c2}
    Keys = {k1}
    MaxOpen = 2
    Supporters = {m1}
    Counselors = {m2}
    Problems = {q1}
    Windows = {w1, w2}
    MaxMessages = 1
    Persons = {h1, h2, h3}
    Collaborations = {l1, l2}
    MaxParties = 2
    Accounts = {u1, u2}
    Numbers = {n1, n2}
    Codes = {x1}
    ApiKeys = {y1}
    Phones = {f0, f1}
    FirstPhone = f0
    Lifetime = 2
    SendWindow = 3
    MaxSends = 2
    MaxAttempts = 1
    LastCode = 3
    LastMinute = 3
    Videos = {v1}
    Reviewers = {b1}
    RequestIds = {g1, g2}
    Deliveries = {d1, d2, d3}
    Topics = {b0}
    Films = {z1}
    Asks = {w1, w2}
    MaxCount = 2
SPECIFICATION Spec
SYMMETRY Symmetry
CHECK_DEADLOCK FALSE
INVARIANTS
    TypeOK
    CourseHasItsOwner
    SessionsMatchRequests
    ApprovedByThree
    PermissionsHold
    ProfileIsTheStudents
PROPERTIES
    AccessFollowsAuthority
    WritesWhileAssigned
    RosterIsAuthorized
    AcknowledgedCodeStands
    NoHelpInExam
