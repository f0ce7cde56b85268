\* One connection: handshake, data in both directions, end; sockets in either mode.
SPECIFICATION FairSpec
CONSTANTS
  BufSize = 2
  MaxBufSize = 2
  Record <- MCRecord
  Len2Wire = 1
  ReadLen = {2}
  WriteLen = {1, 4}
  Surroundings <- MCSurroundings
  MaxRecords = 3
  MaxWrites = 2
INVARIANTS TypeOK InBounds InOrder EofComplete WireOrder WriteHonest
PROPERTY CallReturns
CHECK_DEADLOCK FALSE
