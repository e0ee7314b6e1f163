\* Liveness of R's acknowledgements, one reliable frame, two frame-set numbers.
CONSTANTS
  SStrategy = {"nack", "ack", "pack"}
  f1 = f1
  Frames <- MCFrames
  ReliableFrames <- MCFrames
  FrameSize <- MCFrameSize
  Budget = 1
  Mtu = 11
  Cap = 1
  MaxSeqNum = 2
  MAX_ACK_BUFFER = 1
  MaxUnconnected = 0
SPECIFICATION FairSpec
PROPERTY AckEventuallySent
