\* Three words of two bits, a window of four; counters wrap the ring twice.
SPECIFICATION Spec
CONSTANTS
  None = None
  MAX_TICKS = 1
  REKEY_AFTER_MESSAGES = 1
  REJECT_AFTER_MESSAGES = 13
  REKEY_AFTER_TIME = 1
  REJECT_AFTER_TIME = 3
  REKEY_ATTEMPT_TIME = 1
  REKEY_TIMEOUT = 1
  KEEPALIVE_TIMEOUT = 1
  REKEY_TIMEOUT_JITTER_MAX = 0
  COOKIE_LIFETIME = 1
  WINDOW_BITS = 4
  WHITENER = 1
  WORD_BITS = 2
  Counters = {0, 1, 2, 3, 4, 5, 6, 7, 8, 9, 10, 11, 12, 13, 14}
INVARIANTS TypeOK CheckAgrees
