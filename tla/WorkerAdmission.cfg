SPECIFICATION Spec
CONSTANTS
  Sandboxes = {s1, s2}
  Slots = {w1}
  Big = {s2}
  Fit = {s1, s2}
  Units = 2
  WarmSlots = 1
  Deleters = {d1}
  Reaper = Reaper
  Poll = Poll
  Setter = Setter
  NoTask = NoTask
  None = None
  MaxDrains = 1
  MaxNow = 0
  MaxFaults = 1
  MaxLeaks = 0
  MaxExits = 0
  MaxTroubles = 1
  MaxCrashes = 0
CHECK_DEADLOCK FALSE
INVARIANTS CapacityMatchesRecords WithinCapacity NoStrayContainer
PROPERTY KeepsContract
