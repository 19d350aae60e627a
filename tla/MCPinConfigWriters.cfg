CONSTANTS
  GPIO_COUNT = 3
  Available = {0, 1}
  DEFAULT_DEBOUNCE_MS = 0
  QUEUE_LEN = 1
  SEQ_MOD = 3
  FirstSeq = 2
  Floating = {1}
  Clients = {h1, h2}
  RequestIds = {1, 2}
  Configs <- SomeConfigs
  Settings <- SomeSettings
  RawPayloads <- SomePayloads
  MaxWrites = 2
  MaxEvents = 1
SPECIFICATION Spec
SYMMETRY Symmetry
INVARIANTS
  TypeOK
  RepliesAsFirmware
  SetAnswersForItself
  MissedIsExact
\* Nothing is left to do once the bounds are used up.
CHECK_DEADLOCK FALSE
