\* The readers on truncated and malformed datagrams.
CONSTANTS
  Vals = {0, 1, 8189, 8191, 16777215}
  MaxRecords = 3
  SeqVals = {0, 16777215}
  IdxVals = {1, 70000}
  Bodies <- MCBodies
SPECIFICATION Spec
CHECK_DEADLOCK FALSE
INVARIANT ReadRejectsMalformed
