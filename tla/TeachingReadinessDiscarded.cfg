\* A request that has read the job before an evaluation grants readiness.
SPECIFICATION TRSpec
CONSTANTS
    Requests = {r1}
    Keys = {k1}
    Parts = {s1}
    Versions = {v1}
    MaxCrashes = 0
    Evaluators = {p1}
    EvaluationKeys = {e1}
    Mutable = {"processing", "review"}
PROPERTY
    TaughtIsImmutable
CHECK_DEADLOCK FALSE
