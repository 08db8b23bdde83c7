--------------------------- MODULE MCPeerConnections ---------------------------
(* PeerConnections on small instances, for TLC. *)
EXTENDS PeerConnections

CONSTANTS p1, p2, n1, n2
=============================================================================
