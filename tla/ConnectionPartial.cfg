\* S polled under a FlushStrategy that skips packets (flush_pack false).
CONSTANTS
  SStrategy = {"nack", "ack"}
  f1 = f1
  f2 = f2
  Frames <- MCFrames
  ReliableFrames <- MCReliableFrames
  FrameSize <- MCFrameSize
  Budget = 2
  Mtu = 11
  Cap = 2
  MaxSeqNum = 2
  MAX_ACK_BUFFER = 1
  MaxUnconnected = 1
SPECIFICATION Spec
INVARIANT ReadyAfterDrain
