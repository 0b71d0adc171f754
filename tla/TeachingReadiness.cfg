\* Two evaluations, an invalidation and a deletion beside one synchronization
\* and authors who withhold and restore the content.
SPECIFICATION TRSpec
CONSTANTS
    Requests = {r1}
    Keys = {k1}
    Parts = {s1}
    Versions = {v1}
    MaxCrashes = 0
    Evaluators = {p1, p2}
    EvaluationKeys = {e1, e2}
    Mutable = {"review"}
INVARIANTS
    TypeOK
    OneCurrentEvaluation
    ReadyIsGranted
    TeachingIsAccounted
    TeachingIsSearchable
PROPERTIES
    ImplementsDecisions
    EvaluationsEnd
CHECK_DEADLOCK FALSE
