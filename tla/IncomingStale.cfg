\* Server dispatcher: a stale drop notice against a live successor connection.
CONSTANTS
  p1 = p1
  p2 = p2
  p3 = p3
  Peers <- MCPeers
  MaxConns = 4
SPECIFICATION Spec
INVARIANT LiveConnRouted
