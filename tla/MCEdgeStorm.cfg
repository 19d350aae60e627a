CONSTANTS
  Pins = {p1}
  EDGE_BUFFER_SIZE = 4
  MaxChanges = 6
  MaxInWindow = 6
SPECIFICATION FairSpec
PROPERTY
  CatchesUp
