\* A table of three slots and two or three hosts; signals arrive between the packets.
SPECIFICATION Spec
CONSTANTS
  MaxHosts = 3
  o = o
  a = a
  b = b
  Mac = {o, a, b}
  Few = {o, a}
  Own = o
  Hash <- MCHash
  Pid = {1, 2}
  Surroundings <- HostSurroundings
  MaxStations = 2
  MaxAsks = 1
  NULL = NULL
INVARIANTS Printable OneSlot
PROPERTIES NotForgotten
CHECK_DEADLOCK FALSE
