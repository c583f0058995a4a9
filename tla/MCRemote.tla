------------------------------- MODULE MCRemote -------------------------------
(* One fleet of clusters for all commands of Remote, with every case the       *)
(* look-ups distinguish.                                                       *)
EXTENDS Remote

CONSTANTS
    a, b, h, p, mc, hm, sc, hv, us, \* a cluster, a management cluster of the same
                                    \* name, a hosted cluster, one without manager
                                    \* yet, its management cluster, a hosted one
                                    \* under b, a service cluster, a hive of h's
                                    \* name, a service cluster OCM does not list
    na, np, nhm, nmc, nsc, nhv, nus,    \* their names
    stray, like,                    \* a key of no cluster, one of two
    u1, u2, i1, i2, s1, s2, space, r1, r2, v

MCFleet     == {a, b, h, p, mc, hm, sc, hv}
MCUnlisted  == {us}
MCNames     == {na, np, nhm, nmc, nsc, nhv, nus}
MCKeys      == MCFleet \cup MCNames \cup {stray, like}
MCNameOf    == [c \in MCFleet \cup MCUnlisted |->
                   CASE c \in {a, b} -> na [] c \in {h, hv} -> nhv [] c = p -> np
                     [] c = hm -> nhm [] c = mc -> nmc [] c = sc -> nsc [] c = us -> nus]
MCMatches   == [k \in MCKeys |-> IF k = like THEN {a, h}
                                 ELSE {c \in MCFleet : c = k \/ MCNameOf[c] = k}]
MCHosted    == {h, p, hm}
MCManagerOf == [c \in MCHosted |-> CASE c = h -> mc [] c = hm -> b [] c = p -> Nothing]
MCShardOf   == [c \in MCFleet |-> CASE c \in {p, hm} -> {} [] c = mc -> {sc}
                                    [] OTHER -> {hv}]
MCManagers  == {mc, b}
MCServiceOf == [m \in MCManagers |-> IF m = mc THEN sc ELSE us]
MCAsleep    == {b}
MCIncidents == {<<>>, <<a>>, <<h, h>>, <<h, a>>, <<stray>>}

MCRemediationKeys == {a, like, Nothing}
MCInstalling      == {p}

\* Two entries for one namespace, and one that is skipped; cluster-wide rules.
MCRoles        == [s \in {s1, s2} |->
                     IF s = s1 THEN <<[ns |-> space, rules |-> {r1}],
                                     [ns |-> NoNamespace, rules |-> {r2}],
                                     [ns |-> space, rules |-> {r2}]>>
                              ELSE <<>>]
MCClusterRules == [s \in {s1, s2} |-> IF s = s1 THEN {} ELSE {r2}]
MCEnvs         == [s \in {s1, s2} |-> <<[key |-> v, optional |-> IF s = s1 THEN "no" ELSE "unset"]>>]

MCUsers     == {u1, u2}
MCInstances == {i1, i2}
MCScripts   == {s1, s2}
MCParams    == {v}
MCRules     == {r1, r2}
===============================================================================
