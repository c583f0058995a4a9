--------------------------- MODULE ProxySelection ---------------------------
(***************************************************************************)
(* How the CLI picks one proxy out of the list "proxy-url" or "aws-proxy"  *)
(* (pkg/cli/config/config.go, getFirstWorkingProxyURL).  One goroutine per *)
(* parseable proxy tests it and reports on an unbuffered channel; the      *)
(* caller takes the first success, gives up when every proxy failed or the *)
(* test timeout fires, and then cancels the other tests, drains the        *)
(* channel with one more goroutine, waits for the testers and closes the   *)
(* channel.  Proxies are their positions in the list; 0 is the empty URL.  *)
(***************************************************************************)
EXTENDS Naturals, FiniteSets

CONSTANT MaxProxies   \* bound: length of the longest list of proxies

ASSUME MaxProxiesAssumption == MaxProxies \in Nat

VARIABLES
    n,         \* len(s): how many proxies this call was given
    parsed,    \* the positions whose URL url.ParseRequestURI accepts
    pc,        \* where the calling goroutine is
    next,      \* the position the spawning loop is at
    tester,    \* tester[i]: where the goroutine testing proxy i is
    result,    \* result[i]: what testProxy said of proxy i
    failures,  \* the local counter failures
    chosen,    \* the local chosenURL
    ctx,       \* the context shared by the tests: live, timedOut, cancelled
    wg,        \* the counter of the WaitGroup
    closed,    \* close(ch) was called
    drainer    \* the goroutine that ignores the late results

vars == <<n, parsed, pc, next, tester, result, failures, chosen, ctx, wg,
          closed, drainer>>

Proxies == 1..MaxProxies

\* Blocked in "ch <- ...": an unbuffered channel needs a receiver.
Sending == {i \in Proxies : tester[i] = "sending"}

\* Testers that wg.Add(1) announced and whose deferred wg.Done() has not run.
Running == {i \in Proxies : tester[i] \in {"testing", "sending", "sent"}}

TypeOK ==
    /\ n \in 0..MaxProxies
    /\ parsed \subseteq 1..n
    /\ pc \in {"start", "spawn", "select", "cancel", "drain", "wait", "close",
               "returned"}
    /\ next \in 1..(MaxProxies + 1)
    /\ tester \in [Proxies -> {"none", "testing", "sending", "sent", "done"}]
    /\ result \in [Proxies -> {"none", "pass", "fail"}]
    /\ failures \in Nat
    /\ chosen \in 0..MaxProxies
    /\ ctx \in {"live", "timedOut", "cancelled"}
    /\ wg \in Nat
    /\ closed \in BOOLEAN
    /\ drainer \in {"none", "running", "ended"}

Init ==
    /\ n \in 0..MaxProxies
    /\ parsed \in SUBSET (1..n)
    /\ pc = "start"
    /\ next = 1
    /\ tester = [i \in Proxies |-> "none"]
    /\ result = [i \in Proxies |-> "none"]
    /\ failures = 0
    /\ chosen = 0
    /\ ctx = "live"
    /\ wg = 0
    /\ closed = FALSE
    /\ drainer = "none"

-----------------------------------------------------------------------------
(* The calling goroutine *)

\* No proxy: the empty URL.  A single proxy: that one, untested.  Otherwise
\* the context with its timeout is made and the tests are started.
Start ==
    /\ pc = "start"
    /\ IF n <= 1
         THEN pc' = "returned" /\ chosen' = n
         ELSE pc' = "spawn"    /\ UNCHANGED chosen
    /\ UNCHANGED <<n, parsed, next, tester, result, failures, ctx, wg, closed,
                   drainer>>

\* Mutant: the spawning loop forgets wg.Add(1).
SpawnTesterWithoutAdd ==
    /\ pc = "spawn" /\ next <= n
    /\ next' = next + 1
    /\ IF next \in parsed
         THEN tester' = [tester EXCEPT ![next] = "testing"] /\ UNCHANGED failures
         ELSE failures' = failures + 1 /\ UNCHANGED tester
    /\ UNCHANGED <<n, parsed, pc, result, chosen, ctx, wg, closed, drainer>>

\* One turn of the loop over s.  A proxy that does not parse counts as failed.
SpawnTester ==
    /\ pc = "spawn" /\ next <= n
    /\ next' = next + 1
    /\ IF next \in parsed
         THEN /\ wg' = wg + 1
              /\ tester' = [tester EXCEPT ![next] = "testing"]
              /\ UNCHANGED failures
         ELSE /\ failures' = failures + 1
              /\ UNCHANGED <<tester, wg>>
    /\ UNCHANGED <<n, parsed, pc, result, chosen, ctx, closed, drainer>>

AllSpawned ==
    /\ pc = "spawn" /\ next > n
    /\ chosen' = 1
    /\ pc' = "select"
    /\ UNCHANGED <<n, parsed, next, tester, result, failures, ctx, wg, closed,
                   drainer>>

\* Mutant: a received nil is not told from a success.
ReceiveAnyResult(i) ==
    /\ pc = "select" /\ failures < n
    /\ i \in Sending
    /\ tester' = [tester EXCEPT ![i] = "sent"]
    /\ chosen' = i
    /\ pc' = "cancel"
    /\ UNCHANGED <<n, parsed, next, result, failures, ctx, wg, closed, drainer>>

\* Mutant: the first failure leaves the loop (break instead of continue).
ReceiveFirstResult(i) ==
    /\ pc = "select" /\ failures < n
    /\ i \in Sending
    /\ tester' = [tester EXCEPT ![i] = "sent"]
    /\ pc' = "cancel"
    /\ chosen' = IF result[i] = "fail" THEN chosen ELSE i
    /\ UNCHANGED <<n, parsed, next, result, failures, ctx, wg, closed, drainer>>

\* The select receives from the channel.
ReceiveResult(i) ==
    /\ pc = "select" /\ failures < n
    /\ i \in Sending
    /\ tester' = [tester EXCEPT ![i] = "sent"]
    /\ IF result[i] = "fail"
         THEN failures' = failures + 1 /\ UNCHANGED <<chosen, pc>>
         ELSE chosen' = i /\ pc' = "cancel" /\ UNCHANGED failures
    /\ UNCHANGED <<n, parsed, next, result, ctx, wg, closed, drainer>>

\* The select sees the context done.  It may do so with a result at hand: when
\* both cases of a select are ready, Go takes either.
GiveUp ==
    /\ pc = "select" /\ failures < n
    /\ ctx # "live"
    /\ pc' = "cancel"
    /\ UNCHANGED <<n, parsed, next, tester, result, failures, chosen, ctx, wg,
                   closed, drainer>>

\* The loop condition "failures < len(s)" is false.
AllFailed ==
    /\ pc = "select" /\ failures >= n
    /\ pc' = "cancel"
    /\ UNCHANGED <<n, parsed, next, tester, result, failures, chosen, ctx, wg,
                   closed, drainer>>

Cancel ==
    /\ pc = "cancel"
    /\ ctx' = IF ctx = "live" THEN "cancelled" ELSE ctx
    /\ pc' = "drain"
    /\ UNCHANGED <<n, parsed, next, tester, result, failures, chosen, wg,
                   closed, drainer>>

\* Mutant: nobody drains the channel.
SkipDrainer ==
    /\ pc = "drain"
    /\ pc' = "wait"
    /\ UNCHANGED <<n, parsed, next, tester, result, failures, chosen, ctx, wg,
                   closed, drainer>>

StartDrainer ==
    /\ pc = "drain"
    /\ drainer' = "running"
    /\ pc' = "wait"
    /\ UNCHANGED <<n, parsed, next, tester, result, failures, chosen, ctx, wg,
                   closed>>

\* Mutant: the channel is closed without waiting for the testers.
DoNotWait ==
    /\ pc = "wait"
    /\ pc' = "close"
    /\ UNCHANGED <<n, parsed, next, tester, result, failures, chosen, ctx, wg,
                   closed, drainer>>

WaitForTesters ==
    /\ pc = "wait"
    /\ wg = 0
    /\ pc' = "close"
    /\ UNCHANGED <<n, parsed, next, tester, result, failures, chosen, ctx, wg,
                   closed, drainer>>

CloseAndReturn ==
    /\ pc = "close"
    /\ closed' = TRUE
    /\ pc' = "returned"
    /\ UNCHANGED <<n, parsed, next, tester, result, failures, chosen, ctx, wg,
                   drainer>>

Caller ==
    \/ Start \/ SpawnTester \/ AllSpawned
    \/ \E i \in Proxies : ReceiveResult(i)
    \/ GiveUp \/ AllFailed
    \/ Cancel \/ StartDrainer \/ WaitForTesters \/ CloseAndReturn

-----------------------------------------------------------------------------
(* The goroutines it starts, and the clock *)

\* testProxy returns.  The proxy may answer well or badly; once the context is
\* done the request fails, unless its answer had just come.
TestEnds(i, r) ==
    /\ tester[i] = "testing"
    /\ r \in {"pass", "fail"}
    /\ tester' = [tester EXCEPT ![i] = "sending"]
    /\ result' = [result EXCEPT ![i] = r]
    /\ UNCHANGED <<n, parsed, pc, next, failures, chosen, ctx, wg, closed,
                   drainer>>

\* The deferred wg.Done(), after the send.
TesterDone(i) ==
    /\ tester[i] = "sent"
    /\ tester' = [tester EXCEPT ![i] = "done"]
    /\ wg' = wg - 1
    /\ UNCHANGED <<n, parsed, pc, next, result, failures, chosen, ctx, closed,
                   drainer>>

\* One turn of "for lateProxy := range ch".
DrainResult(i) ==
    /\ drainer = "running"
    /\ i \in Sending
    /\ tester' = [tester EXCEPT ![i] = "sent"]
    /\ UNCHANGED <<n, parsed, pc, next, result, failures, chosen, ctx, wg,
                   closed, drainer>>

DrainerEnds ==
    /\ drainer = "running"
    /\ closed
    /\ drainer' = "ended"
    /\ UNCHANGED <<n, parsed, pc, next, tester, result, failures, chosen, ctx,
                   wg, closed>>

\* proxyTestTimeout elapses.
TimeOut ==
    /\ pc \notin {"start", "returned"}
    /\ ctx = "live"
    /\ ctx' = "timedOut"
    /\ UNCHANGED <<n, parsed, pc, next, tester, result, failures, chosen, wg,
                   closed, drainer>>

\* The call is over and has left no goroutine behind.
Finished == pc = "returned" /\ drainer # "running"

Terminated == Finished /\ UNCHANGED vars

Next ==
    \/ Caller
    \/ \E i \in Proxies : \/ \E r \in {"pass", "fail"} : TestEnds(i, r)
                          \/ TesterDone(i)
                          \/ DrainResult(i)
    \/ DrainerEnds
    \/ TimeOut
    \/ Terminated

\* The Go scheduler runs every goroutine that can run, and the timer fires.
\* A test is only known to end once its context is done: a proxy need not
\* answer by itself.
Fairness ==
    /\ WF_vars(Caller)
    /\ WF_vars(DrainerEnds)
    /\ WF_vars(TimeOut)
    /\ \A i \in Proxies :
        /\ WF_vars(ctx # "live" /\ \E r \in {"pass", "fail"} : TestEnds(i, r))
        /\ WF_vars(TesterDone(i))
        /\ WF_vars(DrainResult(i))

Spec == Init /\ [][Next]_vars

FairSpec == Spec /\ Fairness

-----------------------------------------------------------------------------
(* Properties *)

\* No tester can ever send on the closed channel, which would panic: when the
\* caller closes it, no tester is left that has not sent (config.go:380).
NoSendOnClosedChannel ==
    closed => \A i \in Proxies : tester[i] \notin {"testing", "sending"}

\* The call keeps the promise of ProxyChoice: one answer, for an empty list the
\* empty URL and else the first proxy or one whose test passed, given when no
\* test is running any more (config.go:341-382).
Choice == INSTANCE ProxyChoice WITH
              asked  <- n,
              good   <- {i \in Proxies : result[i] = "pass"},
              answer <- IF pc = "returned" THEN {chosen} ELSE {}

ImplementsProxyChoice == Choice!FairSpec

\* The caller leaves its loop only for a reason: it took a proxy that passed,
\* the timeout fired, or no proxy of the list is any good.  In particular it
\* never falls back to the first proxy while a test that could still succeed
\* in time is running.
FallsBackOnlyWhenNoneIsLeft ==
    [][(pc = "select" /\ pc' = "cancel") =>
          \/ result[chosen'] = "pass" /\ tester[chosen'] = "sending"
          \/ ctx = "timedOut"
          \/ \A i \in parsed : result[i] = "fail"]_vars

\* Every call returns, and the goroutines it started all end.
EveryCallFinishes == <>[]Finished
=============================================================================
