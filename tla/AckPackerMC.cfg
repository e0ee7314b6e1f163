\* ACK heap drained packet by packet: every packet fits, nothing is lost.
CONSTANTS
  MaxSeqNum = 5
  MaxDup = 2
  MtuSet = {7, 8, 10, 11, 14, 17, 21}
SPECIFICATION Spec
INVARIANT TypeOK
INVARIANT FitsMtu
INVARIANT Lossless
\* The drain stops once the heap is empty, as process_outgoing_ack returns None.
CHECK_DEADLOCK FALSE
