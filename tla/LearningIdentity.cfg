\* Two versions, so that one supersedes the other; two attributes, so that one stays
\* while the other is declared anew; two pieces of evidence, so that one succeeds
\* the other or is carried over. Two clients act on what they read.
SPECIFICATION Spec
CONSTANTS
    Clients = {c1, c2}
    Versions = {v1, v2}
    Attributes = {a1, a2}
    Slots = {s1, s2}
    MaxEvidence = 2
SYMMETRY Interchangeable
INVARIANTS
    TypeOK
    CurrentIsPublished
    ReadIsTrue
    OneOpenProfile
    QuestionedIsMarked
PROPERTIES
    HistoryIsFrozen
    ImplementsHistory
    ImpactReachesProfile
    UnseenIsUndisputed
