SPECIFICATION FairSpec
CONSTANTS
  Callers = {c1}
  Daemons = {d1, d2}
  Sandboxes = {s1}
  None = None
  Loads <- CrashLoads
CHECK_DEADLOCK FALSE
PROPERTY StartsIfNeeded
