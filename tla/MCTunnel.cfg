\* An initiator with traffic both ways; jittered retransmissions.
SPECIFICATION Spec
CONSTANTS
  None = None
  MAX_TICKS = 13
  REKEY_AFTER_MESSAGES = 1
  REJECT_AFTER_MESSAGES = 2
  REKEY_AFTER_TIME = 2
  REJECT_AFTER_TIME = 3
  REKEY_ATTEMPT_TIME = 2
  REKEY_TIMEOUT = 1
  KEEPALIVE_TIMEOUT = 1
  REKEY_TIMEOUT_JITTER_MAX = 1
  COOKIE_LIFETIME = 2
  WINDOW_BITS = 2
  WHITENER = 4
  PersistentKeepalive = None
  Clock = {0, 1, 3, 12}
  WallClock = {0}
  Timestamps = {}
  Counters = {0}
  LoadSignals = {FALSE}
  Faults = {}
  Indices = {i1, i2, i3}
  PeerIndices = {p1}
  Ephemerals = {e1}
  Remotes = {r1}
  PeerCookies = {}
SYMMETRY Symmetry
VIEW TimerView
INVARIANTS TypeOK IdleNeverBusy NoLateWake
