\* The client's read task after the connection's IO was dropped.
CONSTANTS
  MaxSeqNum = 3
  MaxDups = 2
  MAX_ACK_BUFFER = 1
SPECIFICATION Spec
PROPERTY EvictOnRefusal
CHECK_DEADLOCK FALSE
