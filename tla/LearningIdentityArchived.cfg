\* One client, one attribute and two versions: a declaration is published, the
\* profile is archived, and the declaration is withdrawn.
SPECIFICATION Spec
CONSTANTS
    Clients = {c1}
    Versions = {v1, v2}
    Attributes = {a1}
    Slots = {s1}
    MaxEvidence = 1
PROPERTY
    ArchivedTakesNoDraft
