SPECIFICATION Spec
CONSTANTS
  Sandboxes = {s1}
  Workers = {w1}
  Stoppers = {k1}
  NoWorker = NoWorker
  NoTask = NoTask
  Slots = 1
  MaxWorkers = 1
  Provisioned = {w1}
  Ends = {}
  Loads <- QuietLoads
CHECK_DEADLOCK FALSE
PROPERTY TerminalIsFinal
