\* Safety of one connection: S submits a reliable frame f1 and an
\* unreliable frame f2, may queue one ping and close; every packet may be
\* lost or reordered.
CONSTANTS
  SStrategy = {"nack", "ack", "pack"}
  f1 = f1
  f2 = f2
  Frames <- MCFrames
  ReliableFrames <- MCReliableFrames
  FrameSize <- MCFrameSize
  Budget = 2
  Mtu = 11
  Cap = 2
  MaxSeqNum = 2
  MAX_ACK_BUFFER = 1
  MaxUnconnected = 1
SPECIFICATION Spec
INVARIANT TypeOK
INVARIANT ReliableNotLost
INVARIANT GapExact
INVARIANT SingleCopy
PROPERTY ImplementsChannel
