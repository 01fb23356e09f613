SPECIFICATION Spec
CONSTANTS
    d1 = d1
    d2 = d2
    Identities = {d1, d2}
    MaxRequests = 4
SYMMETRY Interchangeable
INVARIANTS
    StatusAnnounced
PROPERTIES
    DeletionLeavesOneRow
