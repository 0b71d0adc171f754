\* One request at a time, two stages, three attempts, one fault.
SPECIFICATION FairSpec
CONSTANTS
    Operators = {o1}
    ReviewStage = 2
    LastStage = 3
    MaxAttempts = 3
    TaskCap = 1
    MaxFaults = 1
PROPERTIES
    ActiveComesToRest
    ImplementsLifecycle
CHECK_DEADLOCK FALSE
