--------------------------- MODULE MCOcmConnection ---------------------------
(* Two callers race each other and the watchers; three connections let a    *)
(* connection be replaced while the watcher of the one before is still on.  *)
EXTENDS OcmConnection, TLC

CONSTANTS c1, c2, k1, k2, k3

MCCallers == {c1, c2}
MCConnections == {k1, k2, k3}
=============================================================================
