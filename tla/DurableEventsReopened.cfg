\* The smallest instance in which a late failure meets a delivered row.
SPECIFICATION Spec
CONSTANTS
    Events = {e1}
    Consumers = {c1}
    Workers = {w1, w2}
    MaxRetries = 2
    RetryDelay = 1
    Lease = 1
    TaskLimit = 2
    AttemptCap = 3
    TaskCap = 2
    MaxCrashes = 0
PROPERTY
    DeliveredIsFinal
