SPECIFICATION Spec
CONSTANTS
    r1 = r1
    r2 = r2
    r3 = r3
    j1 = j1
    Requests = {r1, r2, r3}
    Jobs = {j1}
    PartCount = 2
    MaxVersion = 2
    MaxOpen = 1
    MaxFaults = 2
 
PROPERTIES
    TerminalStays
    FinishingEnds
CHECK_DEADLOCK FALSE
