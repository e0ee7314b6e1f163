\* R's drain loop (try_empty) with a gap in R's frame-set numbers: DrainEventuallyReady.
CONSTANTS
  SStrategy = {"nack", "ack", "pack"}
  f1 = f1
  Frames <- MCFrames
  ReliableFrames <- MCFrames
  FrameSize <- MCFrameSize
  Budget = 1
  Mtu = 11
  Cap = 1
  MaxSeqNum = 2
  MAX_ACK_BUFFER = 1
  MaxUnconnected = 0
SPECIFICATION FairSpec
PROPERTY DrainEventuallyReady
