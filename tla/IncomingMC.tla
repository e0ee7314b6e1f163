---------------------------- MODULE IncomingMC -----------------------------
EXTENDS Incoming

CONSTANTS p1, p2, p3

MCPeers == {p1, p2, p3}
=============================================================================
