SPECIFICATION FairSpec
CONSTANTS
  Workers = {w1, w2}
  Ports = {p1, p2}
  Checker = Checker
  Callers = {c1}
  Busy = {w1}
  Uses = {"delete", "refresh"}
  Nth = {1, 2}
  NoPort = NoPort
  NoTask = NoTask
  NoSsh = NoSsh
  Loads <- TroubleLoads
CHECK_DEADLOCK FALSE
INVARIANT SshOwned
PROPERTIES ChecksGoOn Reconnects GoneIsLetGo
