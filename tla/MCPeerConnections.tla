-------------------------- MODULE MCPeerConnections --------------------------
(* PeerConnections with three clients.                                      *)
EXTENDS PeerConnections

CONSTANTS c1, c2, c3, none

MCClients == {c1, c2, c3}
==============================================================================
