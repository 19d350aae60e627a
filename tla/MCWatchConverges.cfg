CONSTANTS
  GPIO_COUNT = 3
  Available = {0, 1}
  DEFAULT_DEBOUNCE_MS = 0
  QUEUE_LEN = 3
  SEQ_MOD = 16
  FirstSeq = 14
  Floating = {}
  Clients = {w}
  Watch = w
  RequestIds = {1, 2}
  Overrides <- NoOverrides
  Targets <- SomeTargets
  Switches = {0}
  OtherConfigs <- TwoOthers
  SCAN_INTERVAL = 1
  SETTLE_TIMEOUT = 1
  RESTORE_INTERVAL = 2
  Scenarios <- Failures
SPECIFICATION FairSpec
PROPERTIES
  Converges
\* With the bounds used up a watcher that waits has nothing to do.
CHECK_DEADLOCK FALSE
