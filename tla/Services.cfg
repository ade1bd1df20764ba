CONSTANTS
    Students = {s1}
    Keys = {k1, k2}
    Services = {v1}
    Events = {e1, e2}
    Prices = {1, 2}
    Minutes = {0, 5}
    Calls = {c1, c2}
    Student = student
    Staff = {advisor}
    Grant = 2
    Validity = 9
    MaxTime = 4
    MaxMoves = 2
    Reports = {}
    Volatile = {}
    Prompt = TRUE
    JoinAfterEnd = FALSE
SPECIFICATION ServicesSpec
SYMMETRY Symmetry
CHECK_DEADLOCK FALSE
INVARIANTS
    OrdersTypeOK
    BooksMatchOrders
    QuotaIsPaidFor
    OnePendingOrder
    ConsentBeforePayment
    ConsumptionWithinGrant
    OneOpenCall
PROPERTIES
    OrderedAsOffered
    KeepsCheckout
