\* S closes while R's ACK of its reliable frame-set is in flight: the ACK
\* may reach S's link after the drain absorbed the queues and before the
\* close path arms its resend timer.
CONSTANTS
  SStrategy = {"nack", "ack", "pack"}
  f1 = f1
  f2 = f2
  Frames <- MCFrames
  ReliableFrames <- MCReliableFrames
  FrameSize <- MCFrameSize
  Budget = 2
  Mtu = 11
  Cap = 2
  MaxSeqNum = 2
  MAX_ACK_BUFFER = 1
  MaxUnconnected = 1
SPECIFICATION Spec
INVARIANT NoSleepOverAck
