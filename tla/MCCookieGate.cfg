\* Two remotes, three lifetimes.
SPECIFICATION Spec
CONSTANTS
  None = None
  MAX_TICKS = 6
  REKEY_AFTER_MESSAGES = 1
  REJECT_AFTER_MESSAGES = 2
  REKEY_AFTER_TIME = 1
  REJECT_AFTER_TIME = 3
  REKEY_ATTEMPT_TIME = 1
  REKEY_TIMEOUT = 1
  KEEPALIVE_TIMEOUT = 1
  REKEY_TIMEOUT_JITTER_MAX = 0
  COOKIE_LIFETIME = 2
  WINDOW_BITS = 1
  WHITENER = 1
  Remotes = {r1, r2}
  Clock <- MCClock
  NONCE_WORD = 2
  Seeds <- MCSeeds
SYMMETRY Symmetry
VIEW View
INVARIANT CookieHonoured
PROPERTY ReplyNonceFresh
