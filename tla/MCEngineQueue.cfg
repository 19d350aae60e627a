SPECIFICATION HistSpec
CONSTANTS
  GPIO_COUNT = 2
  Available = {0, 1}
  DEFAULT_DEBOUNCE_MS = 0
  US_PER_MS = 1
  QUEUE_SIZE = 3
  EVENTS_PER_REPORT = 2
  SETTLE_US = 1
  PERIODIC_INTERVAL_US = 3
  AGE_MAX = 2
  SEQ_MOD = 1
  ACTIVITY_MOD = 1
  MaxEdgeDelay = 0
  LastInput = 1
  MaxNow = 2
  Payloads <- RepullPayloads
  OutputCmds <- NoCommands
INVARIANTS
  QueueExplainsLevels
  EventsAlternate
PROPERTIES
  ReportsFollow
  OverflowAnnounced
