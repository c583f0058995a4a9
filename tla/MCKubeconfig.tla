---------------------------- MODULE MCKubeconfig ----------------------------
(* Two terminals that start on the default kubeconfig, and two clusters, of *)
(* which one no longer serves its monitoring UIs.  The clock has room for a *)
(* reason to expire, and the command budget for a login, an elevation or a  *)
(* monitoring proxy of each terminal to be overtaken by commands of the     *)
(* other.                                                                   *)
EXTENDS Monitoring, TLC

CONSTANTS t1, t2, a, b, r1, r2

MCTerminals == {t1, t2}
MCClusters  == {a, b}
MCReasons   == {r1}
MCDeprecated == {b}
MCSymmetry  == Permutations(MCTerminals)

OneTerminal == {t1}
TwoReasons  == {r1, r2}
=============================================================================
