------------------------------ MODULE MCConsole ------------------------------
(* Two runs of the command and two clusters, one with a monitoring plugin.  *)
(* The engine is docker, whose plugin needs no console container to start:  *)
(* podman has fewer behaviours, as any start may fail.                      *)
EXTENDS Console, TLC

CONSTANTS p1, p2, a, b

MCClusters == {a, b}
MCModern   == {a}
MCRuns     == {p1, p2}
OneRun     == {p1}
=============================================================================
