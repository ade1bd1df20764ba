CONSTANTS
    Pupils = {p1, p2}
    Requests = {r1, r2}
    PoolSize = 2
    Items = {i1}
    Lessons = {l1}
    MaxTries = 1
SPECIFICATION LearningFairSpec
PROPERTIES
    RequestsAreAnswered
