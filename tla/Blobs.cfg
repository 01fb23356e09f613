SPECIFICATION Spec
CONSTANTS
    r1 = r1
    r2 = r2
    k1 = k1
    k2 = k2
    b1 = b1
    b2 = b2
    Requests = {r1, r2}
    Keys = {k1, k2}
    Cids = {b1, b2}
    Values = {{b1}, {b2}}
    MaxCalls = 3
    MaxFaults = 2
    Gone = Gone
SYMMETRY Interchangeable
INVARIANTS
    IndexReadable
    
    
CHECK_DEADLOCK FALSE
