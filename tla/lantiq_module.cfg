\* The module is loaded, fails to load, is unloaded and loaded again, with calls.
SPECIFICATION FairSpec
CONSTANTS
  Port = {0, 1}
  Channels = {{0}, {0, 1, 2}}
  Chan = {c1, c2}
  Surroundings <- MCSurroundings
  MaxLoads = 2
  MaxMoves = 1
  NULL = NULL
INVARIANTS OneMonitor KnowsHook VoiceSafe
 
CHECK_DEADLOCK FALSE
