\* Server dispatcher, three peers, up to five connections over its lifetime.
CONSTANTS
  p1 = p1
  p2 = p2
  p3 = p3
  Peers <- MCPeers
  MaxConns = 5
SPECIFICATION FairSpec
INVARIANT DeadRouteNoticed
PROPERTY DroppedRouteRemoved
