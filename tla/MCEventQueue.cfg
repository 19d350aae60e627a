\* A ring of three slots and three distinct events; drops of more events than
\* there are included.
SPECIFICATION Spec
CONSTANTS
  Events = {e1, e2, e3}
  QUEUE_SIZE = 3
  MaxDrop = 4
INVARIANT TypeOK
PROPERTY ImplementsFifo
