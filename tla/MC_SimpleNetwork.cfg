SPECIFICATION MCSpec
CONSTANTS
  Delays = {1, 2}
  NumIn = 2
  NumOut = 2
  NumVnets = 2
  Traffic <- Messages
  Bandwidth = 2
  Latency <- Latencies
  MaxSize <- Limits
  PRIORITY_SWITCH_LIMIT = 1
  TransitionsPerCycle = 2
  Stallable = {0}
  MaxEvents = 3
  MaxRandom = 2
  MaxTime = 7
CHECK_DEADLOCK FALSE
INVARIANTS
  TypeOK
  InOrderOnce
  Awake
  WithinLimit
  NoPanic
