---------------------------- MODULE MCPeerTrust ----------------------------
(* Instances of PeerTrust for TLC.                                         *)
EXTENDS PeerTrust

CONSTANTS n1, n2, n3

\* A ring of endorsements: every node can be a root, a link or an end.
Ring == {<<n1, n2>>, <<n2, n3>>, <<n3, n1>>}
============================================================================
