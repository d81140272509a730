\* One ephemeral of side a, two of side b, and a restart of b.
SPECIFICATION Spec
CONSTANTS
  None = None
  MAX_TICKS = 6
  REKEY_AFTER_MESSAGES = 1
  REJECT_AFTER_MESSAGES = 2
  REKEY_AFTER_TIME = 2
  REJECT_AFTER_TIME = 3
  REKEY_ATTEMPT_TIME = 2
  REKEY_TIMEOUT = 1
  KEEPALIVE_TIMEOUT = 1
  REKEY_TIMEOUT_JITTER_MAX = 0
  COOKIE_LIFETIME = 2
  WINDOW_BITS = 2
  WHITENER = 4
  PersistentKeepalive = None
  ClockA = {0}
  ClockB = {0, 1}
  WallClockA = {0}
  WallClockB = {0, 4}
  IndicesA = {i1, i2}
  IndicesB = {j1, j2}
  EphemeralsA = {e1}
  EphemeralsB = {f1, f2}
  Remotes = {r1}
  MaxRestarts = 1
SYMMETRY Symmetry
VIEW PeersView
INVARIANTS NonceUnique AcceptedOnce SessionsAgree FreshInitiation
