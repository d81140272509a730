\* Handshakes under load: cookies, forged datagrams.
SPECIFICATION Spec
CONSTANTS
  None = None
  MAX_TICKS = 6
  REKEY_AFTER_MESSAGES = 1
  REJECT_AFTER_MESSAGES = 2
  REKEY_AFTER_TIME = 2
  REJECT_AFTER_TIME = 3
  REKEY_ATTEMPT_TIME = 2
  REKEY_TIMEOUT = 1
  KEEPALIVE_TIMEOUT = 1
  REKEY_TIMEOUT_JITTER_MAX = 0
  COOKIE_LIFETIME = 2
  WINDOW_BITS = 2
  WHITENER = 4
  PersistentKeepalive = None
  Clock = {0, 2, 4}
  WallClock = {0}
  Timestamps = {1}
  Counters = {}
  LoadSignals = {TRUE, FALSE}
  Faults = {"mac1", "noise", "peer"}
  Indices = {i1, i2}
  PeerIndices = {p1}
  Ephemerals = {e1}
  Remotes = {r1}
  PeerCookies <- MCCookies
SYMMETRY Symmetry
VIEW LoadView
INVARIANTS UnprimedSecretRefused
