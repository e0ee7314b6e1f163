\* Round trips of frame-sets and ACK bodies, uint24 values at 0, 1, the 8192 boundary and 2^24 - 1.
CONSTANTS
  Vals = {0, 1, 8189, 8191, 16777215}
  MaxRecords = 3
  SeqVals = {0, 16777215}
  IdxVals = {1, 70000}
  Bodies <- MCBodies
SPECIFICATION Spec
CHECK_DEADLOCK FALSE
INVARIANT RoundTrip
INVARIANT FrameSetRoundTrip
