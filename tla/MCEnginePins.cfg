SPECIFICATION HistSpec
CONSTANTS
  GPIO_COUNT = 3
  Available = {0, 1}
  DEFAULT_DEBOUNCE_MS = 0
  US_PER_MS = 1
  QUEUE_SIZE = 1
  EVENTS_PER_REPORT = 1
  SETTLE_US = 1
  PERIODIC_INTERVAL_US = 2
  AGE_MAX = 2
  SEQ_MOD = 1
  ACTIVITY_MOD = 1
  MaxEdgeDelay = 0
  LastInput = 1
  MaxNow = 2
  Payloads <- RolePayloads
  OutputCmds <- RoleCommands
INVARIANTS
  TypeOK
  PublishedFollowsConfig
  HwFollowsConfig
  QuietMeansTold
