\* One delivery whose subscriber raises once; nobody publishes again.
SPECIFICATION FairSpec
CONSTANTS
    Events = {e1}
    Consumers = {c1}
    Workers = {w1, w2}
    MaxRetries = 2
    RetryDelay = 1
    Lease = 1
    TaskLimit = 2
    AttemptCap = 3
    TaskCap = 2
    MaxCrashes = 0
PROPERTY
    RetryableResumes
