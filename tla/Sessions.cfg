SPECIFICATION Spec
CONSTANTS
  Requests = {r1, r2, r3}
  Apps = {a1}
  MaxJti = 3
  MaxSecrets = 2
  MaxClock = 3
  MaxCalls = 4
  Life = 2
  Grace = 1
  Primary = primary
  NoRow = NoRow
  NoTxn = NoTxn
SYMMETRY Symmetry
INVARIANTS
  SessionsStayEnded
  
  
CHECK_DEADLOCK FALSE
