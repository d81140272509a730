\* Both roles and a persistent keepalive: rotation of the session slots.
SPECIFICATION Spec
CONSTANTS
  None = None
  MAX_TICKS = 6
  REKEY_AFTER_MESSAGES = 1
  REJECT_AFTER_MESSAGES = 2
  REKEY_AFTER_TIME = 2
  REJECT_AFTER_TIME = 3
  REKEY_ATTEMPT_TIME = 3
  REKEY_TIMEOUT = 1
  KEEPALIVE_TIMEOUT = 1
  REKEY_TIMEOUT_JITTER_MAX = 0
  COOKIE_LIFETIME = 2
  WINDOW_BITS = 2
  WHITENER = 4
  PersistentKeepalive = 2
  Clock = {0, 2, 4}
  WallClock = {0}
  Timestamps = {1}
  Counters = {0}
  LoadSignals = {FALSE}
  Faults = {}
  Indices = {i1, i2, i3, i4}
  PeerIndices = {p1}
  Ephemerals = {e1}
  Remotes = {r1}
  PeerCookies = {}
SYMMETRY Symmetry
VIEW TimerView
INVARIANTS ConfirmedByPeer IndicesDistinct AttemptBounded IdleNeverBusy
PROPERTY PacedInitiations
