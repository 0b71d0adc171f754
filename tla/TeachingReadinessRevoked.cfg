\* One evaluation after another: the content is withheld between the two.
SPECIFICATION TRSpec
CONSTANTS
    Requests = {r1}
    Keys = {k1}
    Parts = {s1}
    Versions = {v1}
    MaxCrashes = 0
    Evaluators = {p1}
    EvaluationKeys = {e1, e2}
    Mutable = {"review"}
INVARIANT
    TeachingHasReady
CHECK_DEADLOCK FALSE
