SPECIFICATION Spec
CONSTANTS
    k1 = k1
    k2 = k2
    v1 = v1
    v2 = v2
    Gone = Gone
    Keys = {k1, k2}
    Linked = {k1, k2}
    Values = {v1, v2}
    MaxRev = 3
    MaxFailures = 1
SYMMETRY Interchangeable
INVARIANTS
    HeadCompleteUnlessRolledBack
    AckedIsDurable
    IndexMirrorsHead
    HeadAnnounced
PROPERTIES
    ChainUnbroken
    CreateLeavesOneLink
