\* Two requests build and promote while authors edit, withhold and restore two
\* parts, so that one synchronization follows another or races it; one process
\* dies.
SPECIFICATION SyncSpec
CONSTANTS
    Requests = {r1, r2}
    Keys = {k1, k2}
    Parts = {s1, s2}
    Versions = {v1}
    MaxCrashes = 1
INVARIANTS
    SyncTypeOK
    SearchedIsWhole
    EndTogether
    StuckByCrash
    CompleteUnlessTorn
PROPERTIES
    ImplementsIndex
    RunsEnd
CHECK_DEADLOCK FALSE
