----------------------------- MODULE ProxyChoice -----------------------------
(***************************************************************************)
(* What the choice of a proxy promises its caller, without goroutines,     *)
(* channels or counters: proxies of the list pass their test one after the *)
(* other, in any order or not at all, and the call answers once, with the  *)
(* empty URL for an empty list and otherwise with the first proxy of the   *)
(* list or with one that has passed.  No test is under way any more once   *)
(* the answer is given.                                                    *)
(***************************************************************************)
EXTENDS Naturals

CONSTANT MaxProxies   \* bound: length of the longest list of proxies

VARIABLES
    asked,   \* the length of the list
    good,    \* the proxies that have passed their test
    answer   \* {} until the call returns, then {the chosen position}

choiceVars == <<asked, good, answer>>

Init ==
    /\ asked \in 0..MaxProxies
    /\ good = {}
    /\ answer = {}

Pass(i) ==
    /\ answer = {}
    /\ i \in 1..asked
    /\ good' = good \cup {i}
    /\ UNCHANGED <<asked, answer>>

Answer(c) ==
    /\ answer = {}
    /\ IF asked = 0 THEN c = 0 ELSE c \in {1} \cup good
    /\ answer' = {c}
    /\ UNCHANGED <<asked, good>>

Next == \E i \in 0..MaxProxies : Pass(i) \/ Answer(i)

Spec == Init /\ [][Next]_choiceVars

FairSpec == Spec /\ WF_choiceVars(\E c \in 0..MaxProxies : Answer(c))
=============================================================================
