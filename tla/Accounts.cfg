SPECIFICATION AccountsSpec
CONSTANTS
    r1 = r1
    r2 = r2
    d1 = d1
    d2 = d2
    d3 = d3
    h1 = h1
    h2 = h2
    h3 = h3
    c1 = c1
    None = None
    Requests = {r1, r2}
    Dids = {d1, d2, d3}
    PlcDids = {d1, d3}
    Residents = {d1}
    Handles = {h1, h2}
    Codes = {c1}
    Uses = 1
    MaxEvents = 4
SYMMETRY Interchangeable
INVARIANTS
    
    LocalAgree
    ResolvesBack
CHECK_DEADLOCK FALSE
