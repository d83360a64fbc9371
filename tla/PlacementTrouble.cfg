SPECIFICATION Spec
CONSTANTS
  Sandboxes = {s1, s2}
  Workers = {w1, w2}
  Stoppers = {k1}
  NoWorker = NoWorker
  NoTask = NoTask
  Slots = 1
  MaxWorkers = 1
  Provisioned = {w1}
  Ends = {"EXPIRED", "STOPPED", "LOST"}
  Loads <- TroubleLoads
CHECK_DEADLOCK FALSE
SYMMETRY Symmetry
INVARIANTS TypeOK RunningWasStarted UnplacedIsDriven LoseIsLegal ReservationOwned LedgerNeverOverbooks SentOnce
PROPERTY PlacementTransitionsLegal
