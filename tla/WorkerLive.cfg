SPECIFICATION FairSpec
CONSTANTS
  Sandboxes = {s1}
  Slots = {w1}
  Big = {}
  Fit = {s1}
  Units = 1
  WarmSlots = 1
  Deleters = {}
  Reaper = Reaper
  Poll = Poll
  Setter = Setter
  NoTask = NoTask
  None = None
  MaxDrains = 0
  MaxNow = 2
  MaxFaults = 0
  MaxLeaks = 1
  MaxExits = 1
  MaxTroubles = 2
  MaxCrashes = 1
CHECK_DEADLOCK FALSE
INVARIANT PromiseKept
PROPERTIES CreateAnswered ExpiredIsReaped VanishedIsNoticed
