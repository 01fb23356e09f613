SPECIFICATION CacheSpec
CONSTANTS
    t1 = t1
    t2 = t2
    d1 = d1
    d2 = d2
    d3 = d3
    Threads = {t1, t2}
    Dids = {d1, d2, d3}
    Contexts <- SomeContexts
    MaxResident = 2
    MaxHeld = 2
    MaxPinned = 1
SYMMETRY Interchangeable
INVARIANTS
    HeldStaysOpen
    ListUnambiguous
    BudgetSettled
