SPECIFICATION DriverSpec
CONSTANTS
  DEPTH = 1
  MAX_IDLE = 2
  MAX_QUEUE_DEPTH = 2
  MAX_BURST = 2
  MaxPackets = 2
  MaxDatagrams = 2
  KnownAddress = FALSE
INVARIANT NoBusySpin
CHECK_DEADLOCK FALSE
