\* Two stages, the first of which may stop for review; two requests in flight;
\* two attempts. Failures are in the liveness run.
SPECIFICATION Spec
CONSTANTS
    Operators = {o1, o2}
    ReviewStage = 2
    LastStage = 3
    MaxAttempts = 2
    TaskCap = 1
    MaxFaults = 0
SYMMETRY Interchangeable
INVARIANTS
    TypeOK
    StagesInOrder
    ReviewedIsValidated
    ActiveIsDriven
    ActiveIsNewest
    OnlyCancellationRefuses
PROPERTIES
    DeletedIsFinal
    CancelledAttemptRests
CHECK_DEADLOCK FALSE
