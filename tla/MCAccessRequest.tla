--------------------------- MODULE MCAccessRequest ---------------------------
(* Two people and one cluster; three commands leave room for two creates     *)
(* that overlap and a third command that meets what they left.               *)
EXTENDS AccessRequest, TLC

CONSTANTS p1, p2, a

MCPeople   == {p1, p2}
MCClusters == {a}
MCSymmetry == Permutations(MCPeople)
=============================================================================
