\* A session made by the peer leaves the queue undrained.
SPECIFICATION LoopSpec
CONSTANTS
  None = None
  MAX_TICKS = 18
  REKEY_AFTER_MESSAGES = 1
  REJECT_AFTER_MESSAGES = 2
  REKEY_AFTER_TIME = 2
  REJECT_AFTER_TIME = 3
  REKEY_ATTEMPT_TIME = 2
  REKEY_TIMEOUT = 1
  KEEPALIVE_TIMEOUT = 1
  REKEY_TIMEOUT_JITTER_MAX = 0
  COOKIE_LIFETIME = 2
  WINDOW_BITS = 2
  WHITENER = 4
  PersistentKeepalive = None
  Clock = {0, 2}
  LoopClock <- MCLoopClock
  MaxLate = 1
  MaxCalls = 3
  MAX_QUEUE_DEPTH = 2
  MaxPackets = 2
  WallClock = {0}
  Timestamps = {1}
  Counters = {0}
  LoadSignals = {FALSE}
  Faults = {}
  Indices = {i1, i2, i3}
  PeerIndices = {p1}
  Ephemerals = {e1}
  Remotes = {r1}
  PeerCookies = {}
INVARIANT DrainAnswered
CHECK_DEADLOCK FALSE
