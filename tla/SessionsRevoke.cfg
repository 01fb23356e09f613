SPECIFICATION Spec
CONSTANTS
  Requests = {r1, r2}
  Apps = {a1}
  MaxJti = 3
  MaxSecrets = 2
  MaxClock = 2
  MaxCalls = 3
  Life = 3
  Grace = 1
  Primary = primary
  NoRow = NoRow
  NoTxn = NoTxn
SYMMETRY Symmetry
INVARIANTS
  RevocationSticks
CHECK_DEADLOCK FALSE
