CONSTANTS
  Pins = {p1, p2}
  EDGE_BUFFER_SIZE = 3
  MaxChanges = 4
  MaxInWindow = 2
SPECIFICATION FairSpec
INVARIANTS
  TypeOK
  PoppedIsOldest
  NothingForgotten
PROPERTIES
  ImplementsFifo
  CatchesUp
