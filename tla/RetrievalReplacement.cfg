\* One request after another: the second one has a text to promote over the first.
SPECIFICATION SyncSpec
CONSTANTS
    Requests = {r1}
    Keys = {k1, k2}
    Parts = {s1}
    Versions = {v1, v2}
    MaxCrashes = 0
PROPERTY
    ReplacesPrior
CHECK_DEADLOCK FALSE
