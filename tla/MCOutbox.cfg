SPECIFICATION MCSpec
CONSTANTS
    i1 = i1
    i2 = i2
    Jobs = {1, 2, 3}
    Automated = {1, 2}
    Instances = {i1}
    MaxAttempts = 2
    MaxRetries = 1
    MaxCrashes = 1
INVARIANTS
    TypeOK
    CreditedOnce
    FulfilledIsComplete
PROPERTIES
    KeepsContract
    DeliveredIsFinal
    JobsSettle
    CompletionIsNoticed
CHECK_DEADLOCK FALSE
