SPECIFICATION FairSpec
CONSTANTS
  Callers = {c1, c2}
  Daemons = {d1, d2, d3}
  Sandboxes = {s1, s2}
  None = None
  Loads <- TroubleLoads
CHECK_DEADLOCK FALSE
INVARIANTS SameSandbox KeyIsFound
PROPERTY Served
