SPECIFICATION Spec
CONSTANTS
  Requests = {r1, r2}
  Clients = {c1, c2}
  Keys = {k1}
  Subjects = {s1, s2, s3}
  Creds = {p1}
  MaxIds = 5
  MaxCalls = 3
  MaxClock = 1
  ShortLife = 1
  LongLife = 2
  MaxSessions = 2
  NoOne = NoOne
SYMMETRY Symmetry
INVARIANTS
  
  GrantProvenance
  RevokedGrantEnds
  DroppedIsRevoked
CHECK_DEADLOCK FALSE
