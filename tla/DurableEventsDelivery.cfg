\* One delivery, three workers, one crash or broker loss: a lease expires under a
\* live worker, a second worker takes the claim, and the late finalizer lets a
\* third one in. No symmetry, which a liveness property does not allow.
SPECIFICATION FairSpec
CONSTANTS
    Events = {e1}
    Consumers = {c1}
    Workers = {w1, w2, w3}
    MaxRetries = 2
    RetryDelay = 1
    Lease = 1
    TaskLimit = 2
    AttemptCap = 4
    TaskCap = 2
    MaxCrashes = 1
INVARIANTS
    TypeOK
    OneOwnerUnlessReclaimed
    AttemptsWithinBudget
    ClaimProtocol
PROPERTIES
    SettledUnlessReclaimed
    ImplementsLedger
    SettlesWhileSwept
