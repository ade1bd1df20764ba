CONSTANTS
    Accounts = {u1, u2}
    Numbers = {n1, n2}
    Codes = {x1}
    ApiKeys = {}
SPECIFICATION AccountsSpec
CHECK_DEADLOCK FALSE
INVARIANTS
    NewNumberOpensAccount
