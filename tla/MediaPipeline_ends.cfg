CONSTANTS
    Requests = {r1, r2}
    Calls = {c1}
    MaxAttempts = 1
    MaxIntents = 2
    BatchLimit = 1
SPECIFICATION FairSpec
PROPERTIES
    UploadsResolve
