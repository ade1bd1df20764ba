CONSTANTS
    Supporters = {m1}
    Counselors = {}
    Problems = {q1}
    Windows = {w1}
    MaxMessages = 1
SPECIFICATION TeamSpec
CHECK_DEADLOCK FALSE
PROPERTIES
    DecidesWhileAssigned
