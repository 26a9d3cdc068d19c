SPECIFICATION Spec
CONSTANTS
    i1 = i1
    i2 = i2
    Jobs = {1}
    Automated = {1}
    Instances = {i1, i2}
    MaxAttempts = 2
    MaxRetries = 0
    MaxCrashes = 1
PROPERTIES
    DeliveredIsFinal
CHECK_DEADLOCK FALSE
