SPECIFICATION TimingFairSpec
CONSTANTS
  GPIO_COUNT = 1
  Available = {0}
  DEFAULT_DEBOUNCE_MS = 2
  US_PER_MS = 1
  QUEUE_SIZE = 1
  EVENTS_PER_REPORT = 1
  SETTLE_US = 1
  PERIODIC_INTERVAL_US = 2
  AGE_MAX = 2
  SEQ_MOD = 1
  ACTIVITY_MOD = 1
  MaxEdgeDelay = 1
  LastInput = 1
  MaxNow = 4
  Payloads <- TimePayloads
  OutputCmds <- NoCommands
INVARIANT DebounceFollowsConfig
PROPERTIES
  EventsAreStable
  ChangeAnnounced
  ComesToRest
