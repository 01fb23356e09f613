SPECIFICATION Spec
CONSTANTS
    a1 = a1
    a2 = a2
    c1 = c1
    c2 = c2
    None = None
    Subs = {c1}
    Accounts = {a1, a2}
    MinEvents = 1
    MaxSeq = 4
    SqliteFails = TRUE
    Rebuilds = FALSE
SYMMETRY Interchangeable
INVARIANTS
    
    StreamComplete
    StreamIncreases
    
    
    FreeWaitsForThreads
PROPERTIES
    ImplementsFeed
