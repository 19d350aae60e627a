\* The application may stop taking events at any time.
CONSTANTS
  Receivers = {r1, r2}
  Callers = {c1, c2}
  Closers = {k1}
  Watch = watch
  OUT_CAPACITY = 1
  MaxEmit = 2
  MaxEvents = 4
SPECIFICATION FairSpec
INVARIANTS
  TypeOK
  EventsInOrder
  SleepersHaveNothingToDo
  EndIsHeardLast
PROPERTIES
  CallsReturn
  ClosesReturn
  RecvReturns
\* A watcher that has stopped, and been closed, does nothing more.
CHECK_DEADLOCK FALSE
