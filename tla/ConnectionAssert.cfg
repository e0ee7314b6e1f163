\* S closes while its online handler still queues pings on the link: a
\* ping pushed after try_empty returned Ready meets the debug_assert of
\* poll_close.
CONSTANTS
  SStrategy = {"nack", "ack", "pack"}
  f1 = f1
  f2 = f2
  Frames <- MCFrames
  ReliableFrames <- MCReliableFrames
  FrameSize <- MCFrameSize
  Budget = 2
  Mtu = 11
  Cap = 2
  MaxSeqNum = 2
  MAX_ACK_BUFFER = 1
  MaxUnconnected = 1
SPECIFICATION Spec
INVARIANT CloseAssertHolds
