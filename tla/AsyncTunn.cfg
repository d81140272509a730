\* Channels of one buffer, so that senders have to wait.
SPECIFICATION DriverSpec
CONSTANTS
  DEPTH = 1
  MAX_IDLE = 2
  MAX_QUEUE_DEPTH = 2
  MAX_BURST = 2
  MaxPackets = 3
  MaxDatagrams = 3
  KnownAddress = FALSE
INVARIANT BuffersAccounted
PROPERTY BuffersReturned
CHECK_DEADLOCK FALSE
