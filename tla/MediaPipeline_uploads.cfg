CONSTANTS
    Requests = {r1, r2}
    Calls = {c1, c2}
    MaxAttempts = 2
    MaxIntents = 1
    BatchLimit = 1
SPECIFICATION Spec
INVARIANTS
    TypeOK
    ReadyIsProcessed
    DoneIsFenced
    QuarantineIsBacked
    SharedQuota
PROPERTIES
    PublicationIsSafe
    KeepsPromise
