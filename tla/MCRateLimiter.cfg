\* Three threads, two periods and a half, one forced reset.
SPECIFICATION LimiterSpec
CONSTANTS
  Threads = {t1, t2, t3}
  LIMIT = 1
  RESET_PERIOD = 2
  MaxTime = 5
  MaxCount = 2
  MaxForced = 1
SYMMETRY Symmetry
VIEW LiveLocals
INVARIANT AdmissionBounded
