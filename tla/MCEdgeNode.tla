----------------------------- MODULE MCEdgeNode -----------------------------
(* Small instances of EdgeNode.                                            *)
EXTENDS EdgeNode, TLC

CONSTANTS c1, c2

TwoClusters == {c1, c2}
OneCluster == {c1}
=============================================================================
