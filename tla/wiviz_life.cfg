\* No hosts: the daemon is started, asked, reconfigured and left alone.
SPECIFICATION FairSpec
CONSTANTS
  MaxHosts = 1
  o = o
  a = a
  b = b
  Mac = {o}
  Few = {o}
  Own = o
  Hash <- MCHash
  Pid = {1, 2, 3}
  Surroundings <- LifeSurroundings
  MaxStations = 2
  MaxAsks = 2
  NULL = NULL
INVARIANTS OneHopper
PROPERTIES Stops
CHECK_DEADLOCK FALSE
