------------------------ MODULE ProxySelectionProofs ------------------------
(***************************************************************************)
(* Theorems about ProxySelection, for lists of any length: type            *)
(* correctness, no send on the closed channel, no early fallback, and that *)
(* every behaviour is one the abstract ProxyChoice allows.  All follow     *)
(* from the inductive invariant IInv.                                      *)
(***************************************************************************)
EXTENDS ProxySelection, FiniteSetTheorems, TLAPS

\* The positions whose failure the caller has counted: those that do not parse
\* and those whose failed result was received.
Counted == {i \in 1..(next - 1) :
              \/ i \notin parsed
              \/ tester[i] \in {"sent", "done"} /\ result[i] = "fail"}

\* The loop over s starts a tester for each parseable position before next.
SpawnInv ==
    /\ next <= n + 1
    /\ pc = "start" => next = 1
    /\ pc \notin {"start", "returned"} => n > 1
    /\ pc \notin {"start", "spawn"} => next = n + 1 \/ n <= 1
    /\ n <= 1 => next = 1
    /\ \A i \in Proxies : tester[i] # "none" => i \in parsed /\ i < next

\* The WaitGroup counts the testers that are not done, and the caller passes
\* it only when there is none.
WaitGroupInv ==
    /\ wg = Cardinality(Running)
    /\ pc \in {"close", "returned"} => Running = {}
    /\ closed => pc = "returned"

\* A tester has a result from the moment it sends.  Until the caller leaves its
\* loop it has received only failures, and counted each of them once.
ResultInv ==
    /\ \A i \in Proxies : result[i] = "none" <=> tester[i] \in {"none", "testing"}
    /\ pc \in {"start", "spawn", "select"} =>
         /\ failures = Cardinality(Counted)
         /\ \A i \in Proxies : tester[i] \in {"sent", "done"} => result[i] = "fail"

\* Who may have cancelled the context, received from the channel and chosen.
CallerInv ==
    /\ ctx = "cancelled" => pc \in {"drain", "wait", "close", "returned"}
    /\ drainer # "none" => pc \in {"wait", "close", "returned"}
    /\ pc \in {"start", "spawn"} => chosen = 0
    /\ pc = "select" => chosen = 1
    /\ pc \in {"cancel", "drain", "wait", "close"} =>
         \/ chosen = 1
         \/ chosen \in Proxies /\ result[chosen] = "pass"

IInv == TypeOK /\ SpawnInv /\ WaitGroupInv /\ ResultInv /\ CallerInv

-----------------------------------------------------------------------------
(* The counters *)

\* The sets the counters stand for are finite.
LEMMA CountersFinite ==
    ASSUME TypeOK
    PROVE  /\ IsFiniteSet(Running) /\ Cardinality(Running) \in Nat
           /\ IsFiniteSet(Counted) /\ Cardinality(Counted) \in Nat
<1>1. /\ IsFiniteSet(Proxies) /\ IsFiniteSet(1..(next - 1))
      /\ IsFiniteSet(1..n) /\ Cardinality(1..n) = n
  <2>1. MaxProxies \in Int /\ next - 1 \in Int /\ n \in Nat
    BY MaxProxiesAssumption DEF TypeOK
  <2> QED BY <2>1, FS_Interval DEF Proxies
<1>2. Running \subseteq Proxies /\ Counted \subseteq 1..(next - 1)
  BY DEF Running, Counted
<1>3. IsFiniteSet(Running) /\ IsFiniteSet(Counted)
  BY <1>1, <1>2, FS_Subset
<1> QED BY <1>3, FS_CardinalityType

\* When the caller has counted as many failures as there are proxies, every
\* parseable proxy has failed.
LEMMA AllCounted ==
    ASSUME IInv, pc = "select", failures >= n
    PROVE  \A i \in parsed : result[i] = "fail"
<1>1. n \in Nat /\ next = n + 1 /\ failures = Cardinality(Counted)
  BY DEF IInv, TypeOK, SpawnInv, ResultInv
<1>2. Counted \subseteq 1..n
  BY <1>1 DEF Counted
<1>3. IsFiniteSet(1..n) /\ Cardinality(1..n) = n
  BY <1>1, FS_Interval
<1>4. Cardinality(Counted) \in Nat /\ Cardinality(Counted) <= n
  BY <1>2, <1>3, FS_Subset, CountersFinite DEF IInv
<1>5. Cardinality(Counted) = n
  BY <1>1, <1>4
<1>6. Counted = 1..n
  BY <1>2, <1>3, <1>5, FS_Subset
<1> QED BY <1>6 DEF IInv, TypeOK, Counted

-----------------------------------------------------------------------------
(* The inductive invariant *)

\* It holds at the start.
LEMMA InitIInv == Init => IInv
<1> SUFFICES ASSUME Init PROVE IInv
  OBVIOUS
<1>1. TypeOK
  <2>1. n \in 0..MaxProxies /\ n \in Nat /\ MaxProxies \in Nat
    BY MaxProxiesAssumption DEF Init
  <2>2. 1 \in 1..(MaxProxies + 1) /\ 0 \in 0..MaxProxies
    BY <2>1
  <2> QED BY <2>1, <2>2 DEF Init, TypeOK
<1>2. Running = {} /\ Counted = {}
  BY DEF Init, Running, Counted
<1>3. WaitGroupInv /\ ResultInv
  BY <1>2, FS_EmptySet DEF Init, WaitGroupInv, ResultInv, Proxies
<1>4. SpawnInv /\ CallerInv
  BY DEF Init, SpawnInv, CallerInv, Proxies
<1> QED BY <1>1, <1>3, <1>4 DEF IInv

\* Every step of the caller, of a tester, of the drainer and of the clock keeps
\* it.
LEMMA NextIInv == IInv /\ [Next]_vars => IInv'
<1> SUFFICES ASSUME IInv, [Next]_vars PROVE IInv'
  OBVIOUS
<1> USE MaxProxiesAssumption DEF IInv, TypeOK, Proxies
<1>1. CASE Start
  BY <1>1 DEF Start, SpawnInv, WaitGroupInv, ResultInv, CallerInv,
                Running, Sending, Counted
<1>2. CASE SpawnTester
  <2>1. TypeOK' /\ SpawnInv' /\ CallerInv'
    BY <1>2 DEF SpawnTester, SpawnInv, CallerInv
  <2>2. CASE next \in parsed
    <3>1. next \in Proxies /\ next \notin Running
      BY <1>2 DEF SpawnTester, SpawnInv, Running
    <3>2. Running' = Running \cup {next} /\ Counted' = Counted
      BY <1>2, <2>2, <3>1 DEF SpawnTester, SpawnInv, Running, Counted
    <3>3. WaitGroupInv'
      BY <1>2, <2>2, <3>1, <3>2, CountersFinite, FS_AddElement
      DEF SpawnTester, WaitGroupInv
    <3>4. ResultInv'
      BY <1>2, <2>2, <3>1, <3>2 DEF SpawnTester, SpawnInv, ResultInv
    <3> QED BY <2>1, <3>3, <3>4
  <2>3. CASE next \notin parsed
    <3>1. next \notin Counted
      BY DEF Counted
    <3>2. Running' = Running /\ Counted' = Counted \cup {next}
      BY <1>2, <2>3 DEF SpawnTester, Running, Counted
    <3>3. Cardinality(Counted') = Cardinality(Counted) + 1
      BY <3>1, <3>2, CountersFinite, FS_AddElement
    <3>4. WaitGroupInv' /\ ResultInv'
      BY <1>2, <2>3, <3>2, <3>3 DEF SpawnTester, WaitGroupInv, ResultInv
    <3> QED BY <2>1, <3>4
  <2> QED BY <2>2, <2>3
<1>3. CASE AllSpawned
  BY <1>3 DEF AllSpawned, SpawnInv, WaitGroupInv, ResultInv, CallerInv,
                Running, Sending, Counted
<1>4. ASSUME NEW i \in Proxies, ReceiveResult(i) PROVE IInv'
  <2>1. TypeOK' /\ SpawnInv' /\ CallerInv'
    BY <1>4 DEF ReceiveResult, Sending, SpawnInv, ResultInv, CallerInv
  <2>2. Running' = Running
    BY <1>4 DEF ReceiveResult, Sending, Running
  <2>3. WaitGroupInv'
    BY <1>4, <2>2 DEF ReceiveResult, WaitGroupInv
  <2>4. ResultInv'
    <3>1. CASE result[i] = "fail"
      <4>1. i \in 1..(next - 1) /\ i \in parsed /\ i \notin Counted
        BY <1>4 DEF ReceiveResult, Sending, SpawnInv, Counted
      <4>2. Counted' = Counted \cup {i}
        BY <1>4, <3>1, <4>1 DEF ReceiveResult, Sending, Counted
      <4>3. Cardinality(Counted') = Cardinality(Counted) + 1
        BY <4>1, <4>2, CountersFinite, FS_AddElement
      <4> QED BY <1>4, <3>1, <4>3 DEF ReceiveResult, Sending, ResultInv
    <3>2. CASE result[i] # "fail"
      BY <1>4, <3>2 DEF ReceiveResult, Sending, ResultInv
    <3> QED BY <3>1, <3>2
  <2> QED BY <2>1, <2>3, <2>4
<1>5. CASE GiveUp
  BY <1>5 DEF GiveUp, SpawnInv, WaitGroupInv, ResultInv, CallerInv,
                Running, Sending, Counted
<1>6. CASE AllFailed
  BY <1>6 DEF AllFailed, SpawnInv, WaitGroupInv, ResultInv, CallerInv,
                Running, Sending, Counted
<1>7. CASE Cancel
  BY <1>7 DEF Cancel, SpawnInv, WaitGroupInv, ResultInv, CallerInv,
                Running, Sending, Counted
<1>8. CASE StartDrainer
  BY <1>8 DEF StartDrainer, SpawnInv, WaitGroupInv, ResultInv, CallerInv,
                Running, Sending, Counted
<1>9. CASE WaitForTesters
  <2>1. TypeOK' /\ SpawnInv' /\ ResultInv' /\ CallerInv'
    BY <1>9 DEF WaitForTesters, SpawnInv, ResultInv, CallerInv
  <2>2. Running = {}
    BY <1>9, CountersFinite, FS_EmptySet DEF WaitForTesters, WaitGroupInv
  <2>3. WaitGroupInv'
    BY <1>9, <2>2 DEF WaitForTesters, WaitGroupInv, Running
  <2> QED BY <2>1, <2>3
<1>10. CASE CloseAndReturn
  BY <1>10 DEF CloseAndReturn, SpawnInv, WaitGroupInv, ResultInv, CallerInv,
                Running, Sending, Counted
<1>11. ASSUME NEW i \in Proxies, NEW r \in {"pass", "fail"}, TestEnds(i, r)
        PROVE  IInv'
  <2>1. TypeOK' /\ SpawnInv' /\ CallerInv'
    BY <1>11 DEF TestEnds, SpawnInv, ResultInv, CallerInv
  <2>2. Running' = Running /\ Counted' = Counted
    BY <1>11 DEF TestEnds, Running, Counted
  <2>3. WaitGroupInv'
    BY <1>11, <2>2 DEF TestEnds, WaitGroupInv
  <2>4. ResultInv'
    BY <1>11, <2>2 DEF TestEnds, ResultInv
  <2> QED BY <2>1, <2>3, <2>4
<1>12. ASSUME NEW i \in Proxies, TesterDone(i) PROVE IInv'
  <2>1. Running' = Running \ {i} /\ i \in Running /\ Counted' = Counted
    BY <1>12 DEF TesterDone, Running, Counted
  <2>2. wg' = Cardinality(Running') /\ wg' \in Nat
    <3>1. wg' = Cardinality(Running')
      BY <1>12, <2>1, CountersFinite, FS_RemoveElement
      DEF TesterDone, WaitGroupInv
    <3>2. IsFiniteSet(Running')
      BY <2>1, CountersFinite, FS_RemoveElement
    <3> QED BY <3>1, <3>2, FS_CardinalityType
  <2>3. TypeOK'
    BY <1>12, <2>2 DEF TesterDone
  <2>4. WaitGroupInv'
    BY <1>12, <2>1, <2>2 DEF TesterDone, WaitGroupInv
  <2>5. SpawnInv' /\ ResultInv' /\ CallerInv'
    BY <1>12, <2>1 DEF TesterDone, SpawnInv, ResultInv, CallerInv
  <2> QED BY <2>3, <2>4, <2>5
<1>13. ASSUME NEW i \in Proxies, DrainResult(i) PROVE IInv'
  BY <1>13 DEF DrainResult, SpawnInv, WaitGroupInv, ResultInv, CallerInv,
                Running, Sending, Counted
<1>14. CASE DrainerEnds
  BY <1>14 DEF DrainerEnds, SpawnInv, WaitGroupInv, ResultInv, CallerInv,
                Running, Sending, Counted
<1>15. CASE TimeOut
  BY <1>15 DEF TimeOut, SpawnInv, WaitGroupInv, ResultInv, CallerInv,
                Running, Sending, Counted
<1>16. CASE UNCHANGED vars
  BY <1>16 DEF vars, SpawnInv, WaitGroupInv, ResultInv, CallerInv,
                Running, Counted
<1> QED BY <1>1, <1>2, <1>3, <1>4, <1>5, <1>6, <1>7, <1>8, <1>9, <1>10,
           <1>11, <1>12, <1>13, <1>14, <1>15, <1>16
       DEF Next, Caller, Terminated
\* The invariant holds in every reachable state.
LEMMA Invariance == Spec => []IInv
<1> QED BY InitIInv, NextIInv, PTL DEF Spec

-----------------------------------------------------------------------------
(* The theorems *)

\* Type correctness, for lists of any length.
THEOREM TypeCorrect == Spec => []TypeOK
<1>1. IInv => TypeOK
  BY DEF IInv
<1> QED BY <1>1, Invariance, PTL

\* No tester can send on the closed channel (config.go:380): when the caller
\* passes the WaitGroup its counter is 0, so no tester has still to send.
THEOREM ChannelSafe == Spec => []NoSendOnClosedChannel
<1>1. IInv => NoSendOnClosedChannel
  BY DEF IInv, WaitGroupInv, Running, NoSendOnClosedChannel
<1> QED BY <1>1, Invariance, PTL

\* The caller does not fall back to the first proxy while one could still pass
\* in time (config.go:343-363).
THEOREM NoEarlyFallback == Spec => FallsBackOnlyWhenNoneIsLeft
<1> DEFINE Reason == \/ result[chosen'] = "pass" /\ tester[chosen'] = "sending"
                     \/ ctx = "timedOut"
                     \/ \A i \in parsed : result[i] = "fail"
<1>1. IInv /\ [Next]_vars =>
        [(pc = "select" /\ pc' = "cancel") => Reason]_vars
  <2> SUFFICES ASSUME IInv, Next, pc = "select", pc' = "cancel"
               PROVE  Reason
    OBVIOUS
  <2>1. ASSUME NEW i \in Proxies, ReceiveResult(i) PROVE Reason
    <3>1. result[i] # "fail" /\ chosen' = i /\ tester[i] = "sending"
      BY <2>1 DEF ReceiveResult, Sending
    <3>2. result[i] = "pass"
      BY <3>1 DEF IInv, TypeOK, ResultInv
    <3> QED BY <3>1, <3>2
  <2>2. CASE GiveUp
    BY <2>2 DEF GiveUp, IInv, TypeOK, CallerInv
  <2>3. CASE AllFailed
    BY <2>3, AllCounted DEF AllFailed
  <2> QED BY <2>1, <2>2, <2>3
        DEF Next, Caller, Start, SpawnTester, AllSpawned, Cancel, StartDrainer,
            WaitForTesters, CloseAndReturn, TestEnds, TesterDone, DrainResult,
            DrainerEnds, TimeOut, Terminated, vars
<1> QED BY <1>1, Invariance, PTL DEF Spec, FallsBackOnlyWhenNoneIsLeft

\* The proxies that have passed, and the answer, as ProxyChoice sees them.
Good   == {i \in Proxies : result[i] = "pass"}
Answer == IF pc = "returned" THEN {chosen} ELSE {}

\* Every call is one that ProxyChoice allows (config.go:293-385): one answer,
\* the first proxy of the list or one that passed, and no test after it.
THEOREM Refinement == Spec => Choice!Spec
<1> USE DEF Choice!Init, Choice!Next, Choice!Pass, Choice!Answer,
            Choice!choiceVars
<1>1. Init => Choice!Init
  BY DEF Init, Proxies
<1>2. IInv /\ [Next]_vars => [Choice!Next]_(Choice!choiceVars)
  <2> SUFFICES ASSUME IInv, [Next]_vars
               PROVE  Choice!Next \/ UNCHANGED <<n, Good, Answer>>
    BY DEF Good, Answer
  <2> USE DEF IInv, TypeOK
  <2>1. CASE Start
    <3>1. CASE n <= 1
      <4>1. n \in 0..MaxProxies /\ n' = n /\ Good' = Good
        BY <2>1 DEF Start, Good
      <4>2. Answer = {} /\ Answer' = {n} /\ (n = 0 \/ n = 1)
        BY <2>1, <3>1, MaxProxiesAssumption DEF Start, Answer
      <4>3. Choice!Answer(n)
        BY <4>1, <4>2 DEF Good, Answer
      <4> QED BY <4>1, <4>3
    <3>2. CASE ~(n <= 1)
      BY <2>1, <3>2 DEF Start, Good, Answer
    <3> QED BY <3>1, <3>2
  <2>2. CASE CloseAndReturn
    <3>1. n' = n /\ Good' = Good /\ Answer = {} /\ Answer' = {chosen} /\ n > 1
      BY <2>2 DEF CloseAndReturn, Good, Answer, SpawnInv
    <3>2. chosen \in {1} \cup Good
      BY <2>2 DEF CloseAndReturn, CallerInv, Good
    <3>3. Choice!Answer(chosen)
      BY <3>1, <3>2, MaxProxiesAssumption DEF Good, Answer
    <3> QED BY <3>3
  <2>3. ASSUME NEW i \in Proxies, NEW r \in {"pass", "fail"}, TestEnds(i, r)
        PROVE  Choice!Next \/ UNCHANGED <<n, Good, Answer>>
    <3>1. pc # "returned" /\ i \in 1..n /\ result[i] = "none"
      BY <2>3, MaxProxiesAssumption
      DEF TestEnds, WaitGroupInv, SpawnInv, ResultInv, Running, Proxies
    <3>2. n' = n /\ Answer = {} /\ Answer' = {}
      BY <2>3, <3>1 DEF TestEnds, Answer
    <3>3. CASE r = "pass"
      <4>1. Good' = Good \cup {i}
        BY <2>3, <3>3 DEF TestEnds, Good
      <4>2. Choice!Pass(i)
        BY <3>1, <3>2, <4>1 DEF Good, Answer
      <4>3. i \in 0..MaxProxies
        BY MaxProxiesAssumption DEF Proxies
      <4> QED BY <4>2, <4>3
    <3>4. CASE r = "fail"
      <4>1. Good' = Good
        BY <2>3, <3>1, <3>4 DEF TestEnds, Good
      <4> QED BY <3>2, <4>1
    <3> QED BY <3>3, <3>4
  <2>4. ASSUME NEW i \in Proxies, ReceiveResult(i)
        PROVE  UNCHANGED <<n, Good, Answer>>
    BY <2>4 DEF ReceiveResult, Good, Answer
  <2>5. ASSUME NEW i \in Proxies, TesterDone(i) \/ DrainResult(i)
        PROVE  UNCHANGED <<n, Good, Answer>>
    BY <2>5 DEF TesterDone, DrainResult, Good, Answer
  <2>6. CASE SpawnTester \/ AllSpawned \/ GiveUp \/ AllFailed \/ Cancel
    BY <2>6 DEF SpawnTester, AllSpawned, GiveUp, AllFailed, Cancel, Good, Answer
  <2>7. CASE StartDrainer \/ WaitForTesters \/ DrainerEnds \/ TimeOut
    BY <2>7 DEF StartDrainer, WaitForTesters, DrainerEnds, TimeOut, Good, Answer
  <2>8. CASE UNCHANGED vars
    BY <2>8 DEF vars, Good, Answer
  <2> QED BY <2>1, <2>2, <2>3, <2>4, <2>5, <2>6, <2>7, <2>8
        DEF Next, Caller, Terminated
<1> QED BY <1>1, <1>2, Invariance, PTL DEF Spec, Choice!Spec
-----------------------------------------------------------------------------
(* Progress, for lists of any length.  That a goroutine which can go on does   *)
(* is the scheduler's part, and is assumed in Fairness.                        *)

\* A test that is under way can still report: its result is received by the
\* caller, or by the drainer when the caller has left its loop (config.go:374-380).
ResultsAreReceived ==
    \A i \in Proxies : tester[i] \in {"testing", "sending"} =>
        pc \in {"spawn", "select", "cancel", "drain"} \/ drainer = "running"

CallerCanGoOn ==
    \/ pc \in {"start", "spawn", "cancel", "drain", "close"}
    \/ pc = "select" /\ (failures >= n \/ ctx # "live" \/ Sending # {})
    \/ pc = "wait" /\ wg = 0

TesterCanGoOn(i) ==
    \/ tester[i] = "testing" /\ ctx # "live"
    \/ tester[i] = "sending" /\ drainer = "running"
    \/ tester[i] = "sent"

DrainerCanGoOn == drainer = "running" /\ (closed \/ Sending # {})

TimerCanFire == pc \notin {"start", "returned"} /\ ctx = "live"

\* Until the call is over and all its goroutines have ended, one of them can go
\* on by itself, or the timer has yet to fire.  That a proxy answers is not
\* counted on (config.go:341-382).
NobodyWaitsForEver ==
    Finished \/ CallerCanGoOn \/ DrainerCanGoOn \/ TimerCanFire
             \/ \E i \in Proxies : TesterCanGoOn(i)

\* A bound on the steps that are left of a call, all goroutines together: the
\* caller's, three of each tester, one of which is its being received from, two of
\* the drainer and one of the timer.
Unsent   == {i \in Proxies : tester[i] \in {"testing", "sending"}}
Untested == {i \in Proxies : tester[i] = "testing"}

CallerSteps(p) ==
    CASE p = "start" -> 7  [] p = "spawn" -> 6 [] p = "select" -> 5
      [] p = "cancel" -> 4 [] p = "drain" -> 3 [] p = "wait" -> 2
      [] p = "close" -> 1  [] p = "returned" -> 0

DrainerSteps(d) == IF d = "none" THEN 2 ELSE IF d = "running" THEN 1 ELSE 0

TimerSteps(c) == IF c = "live" THEN 1 ELSE 0

StepsLeft ==
    4 * (n + 1 - next) + Cardinality(Running) + Cardinality(Unsent)
        + Cardinality(Untested) + CallerSteps(pc) + DrainerSteps(drainer)
        + TimerSteps(ctx)

\* Every step brings the call nearer to its end: none goes round in circles.
EveryStepIsProgress == [][StepsLeft' < StepsLeft]_vars

\* The drainer is there from the moment the caller waits, for as long as the
\* channel is open.
DrainInv ==
    /\ pc \in {"wait", "close", "returned"} /\ n > 1 => drainer # "none"
    /\ drainer # "none" => n > 1
    /\ drainer = "ended" => closed
    /\ pc = "returned" /\ n > 1 => closed

LEMMA DrainInvariance == Spec => []DrainInv
<1>1. Init => DrainInv
  BY DEF Init, DrainInv
<1>2. IInv /\ DrainInv /\ [Next]_vars => DrainInv'
  <2> SUFFICES ASSUME IInv, DrainInv, [Next]_vars PROVE DrainInv'
    OBVIOUS
  <2> USE DEF DrainInv
  <2>1. CASE Start
    BY <2>1, MaxProxiesAssumption DEF Start, IInv, TypeOK
  <2>2. CASE SpawnTester \/ AllSpawned
    BY <2>2 DEF SpawnTester, AllSpawned
  <2>3. ASSUME NEW i \in Proxies, ReceiveResult(i) PROVE DrainInv'
    BY <2>3 DEF ReceiveResult
  <2>4. CASE GiveUp \/ AllFailed \/ Cancel
    BY <2>4 DEF GiveUp, AllFailed, Cancel
  <2>5. CASE StartDrainer \/ WaitForTesters \/ CloseAndReturn
    BY <2>5 DEF StartDrainer, WaitForTesters, CloseAndReturn, IInv, SpawnInv
  <2>6. ASSUME NEW i \in Proxies, NEW r \in {"pass", "fail"}, TestEnds(i, r)
        PROVE  DrainInv'
    BY <2>6 DEF TestEnds
  <2>7. ASSUME NEW i \in Proxies, TesterDone(i) \/ DrainResult(i) PROVE DrainInv'
    BY <2>7 DEF TesterDone, DrainResult
  <2>8. CASE DrainerEnds \/ TimeOut
    BY <2>8 DEF DrainerEnds, TimeOut
  <2>9. CASE UNCHANGED vars
    BY <2>9 DEF vars
  <2> QED BY <2>1, <2>2, <2>3, <2>4, <2>5, <2>6, <2>7, <2>8, <2>9
          DEF Next, Caller, Terminated
<1> QED BY <1>1, <1>2, Invariance, PTL DEF Spec

\* A tester that has not sent yet will be received from.
LEMMA Received == IInv /\ DrainInv => ResultsAreReceived
<1> SUFFICES ASSUME IInv, DrainInv, NEW i \in Proxies,
                    tester[i] \in {"testing", "sending"},
                    pc \notin {"spawn", "select", "cancel", "drain"}
             PROVE  drainer = "running"
  BY DEF ResultsAreReceived
<1>1. i \in Running /\ i < next
  BY DEF Running, IInv, SpawnInv
<1>2. pc = "wait"
  BY <1>1 DEF IInv, TypeOK, SpawnInv, WaitGroupInv, Proxies
<1> QED BY <1>2 DEF IInv, TypeOK, SpawnInv, WaitGroupInv, DrainInv

\* No tester is left blocked on the channel, however late it is.
THEOREM LateResultsAreReceived == Spec => []ResultsAreReceived
<1> QED BY Received, Invariance, DrainInvariance, PTL

\* The call never comes to a point where everybody waits for somebody else.
THEOREM NoDeadlock == Spec => []NobodyWaitsForEver
<1>1. IInv /\ DrainInv => NobodyWaitsForEver
  <2> SUFFICES ASSUME IInv, DrainInv, ~Finished, ~CallerCanGoOn, ~TimerCanFire
               PROVE  DrainerCanGoOn \/ \E i \in Proxies : TesterCanGoOn(i)
    BY DEF NobodyWaitsForEver
  <2>1. CASE pc = "select"
    BY <2>1 DEF CallerCanGoOn, TimerCanFire
  <2>2. CASE pc = "wait"
    <3>1. wg # 0 /\ ctx # "live"
      BY <2>2 DEF CallerCanGoOn, TimerCanFire
    <3>2. PICK i \in Proxies : tester[i] \in {"testing", "sending", "sent"}
      <4>1. Running # {}
        BY <3>1, FS_EmptySet DEF IInv, WaitGroupInv
      <4> QED BY <4>1 DEF Running
    <3>3. tester[i] = "sending" => drainer = "running"
      BY <2>2, Received DEF ResultsAreReceived
    <3> QED BY <3>1, <3>2, <3>3 DEF TesterCanGoOn
  <2>3. CASE pc = "returned"
    <3>1. drainer = "running"
      BY <2>3 DEF Finished
    <3>2. closed
      BY <2>3, <3>1 DEF DrainInv
    <3> QED BY <3>1, <3>2 DEF DrainerCanGoOn
  <2> QED BY <2>1, <2>2, <2>3 DEF CallerCanGoOn, IInv, TypeOK
<1> QED BY <1>1, Invariance, DrainInvariance, PTL

\* The sets whose sizes make up StepsLeft are finite, and so it is a number.
StepsCounted ==
    /\ IsFiniteSet(Running) /\ Cardinality(Running) \in Nat
    /\ IsFiniteSet(Unsent) /\ Cardinality(Unsent) \in Nat
    /\ IsFiniteSet(Untested) /\ Cardinality(Untested) \in Nat
    /\ CallerSteps(pc) \in 0..7 /\ DrainerSteps(drainer) \in 0..2
    /\ TimerSteps(ctx) \in 0..1
    /\ n \in Nat /\ next \in Nat /\ n + 1 - next \in Nat

LEMMA StepsAreCounted == IInv => StepsCounted
<1> SUFFICES ASSUME IInv PROVE StepsCounted
  OBVIOUS
<1>1. IsFiniteSet(Running)
  BY CountersFinite DEF IInv
<1>2. Unsent \subseteq Running /\ Untested \subseteq Running
  BY DEF Unsent, Untested, Running
<1>3. CallerSteps(pc) \in 0..7
  BY DEF IInv, TypeOK, CallerSteps
<1>4. n \in Nat /\ next \in Nat /\ n + 1 - next \in Nat
  BY MaxProxiesAssumption DEF IInv, TypeOK, SpawnInv
<1> QED BY <1>1, <1>2, <1>3, <1>4, FS_Subset, FS_CardinalityType
        DEF StepsCounted, DrainerSteps, TimerSteps

\* A tester that goes on leaves one of the three sets and enters none.
LEMMA TesterProgress ==
    ASSUME IInv, StepsCounted, NEW i \in Proxies, NEW s,
           tester' = [tester EXCEPT ![i] = s],
           \/ tester[i] = "testing" /\ s = "sending"
           \/ tester[i] = "sending" /\ s = "sent"
           \/ tester[i] = "sent" /\ s = "done"
    PROVE  Cardinality(Running') + Cardinality(Unsent') + Cardinality(Untested')
             = Cardinality(Running) + Cardinality(Unsent) + Cardinality(Untested) - 1
<1> USE DEF StepsCounted
<1>1. tester'[i] = s /\ \A j \in Proxies \ {i} : tester'[j] = tester[j]
  BY DEF IInv, TypeOK
<1>2. CASE tester[i] = "testing"
  <2>1. /\ i \in Untested /\ Untested' = Untested \ {i}
        /\ Unsent' = Unsent /\ Running' = Running
    BY <1>1, <1>2 DEF Untested, Unsent, Running
  <2>2. Cardinality(Untested') = Cardinality(Untested) - 1
    BY <2>1, FS_RemoveElement
  <2> QED BY <2>1, <2>2
<1>3. CASE tester[i] = "sending"
  <2>1. /\ i \in Unsent /\ Unsent' = Unsent \ {i}
        /\ Untested' = Untested /\ Running' = Running
    BY <1>1, <1>3 DEF Untested, Unsent, Running
  <2>2. Cardinality(Unsent') = Cardinality(Unsent) - 1
    BY <2>1, FS_RemoveElement
  <2> QED BY <2>1, <2>2
<1>4. CASE tester[i] = "sent"
  <2>1. /\ i \in Running /\ Running' = Running \ {i}
        /\ Untested' = Untested /\ Unsent' = Unsent
    BY <1>1, <1>4 DEF Untested, Unsent, Running
  <2>2. Cardinality(Running') = Cardinality(Running) - 1
    BY <2>1, FS_RemoveElement
  <2> QED BY <2>1, <2>2
<1> QED BY <1>2, <1>3, <1>4

\* The spawning loop spends four steps on a proxy, three of them its tester's.
LEMMA SpawnProgress ==
    ASSUME IInv, StepsCounted, SpawnTester
    PROVE  StepsLeft' < StepsLeft
<1>1. /\ next' = next + 1 /\ n' = n
      /\ CallerSteps(pc') = CallerSteps(pc)
      /\ DrainerSteps(drainer') = DrainerSteps(drainer)
      /\ TimerSteps(ctx') = TimerSteps(ctx)
  BY DEF SpawnTester, CallerSteps, DrainerSteps, TimerSteps
<1>2. n \in Nat /\ next \in Nat
  BY DEF StepsCounted
<1>3. CASE next \in parsed
  <2>1. next \in Proxies /\ tester[next] = "none"
    BY <1>3, MaxProxiesAssumption DEF SpawnTester, IInv, TypeOK, SpawnInv, Proxies
  <2>2. tester'[next] = "testing" /\ \A j \in Proxies \ {next} : tester'[j] = tester[j]
    BY <1>3, <2>1 DEF SpawnTester, IInv, TypeOK
  <2>3. /\ next \notin Running /\ Running' = Running \cup {next}
        /\ next \notin Unsent /\ Unsent' = Unsent \cup {next}
        /\ next \notin Untested /\ Untested' = Untested \cup {next}
    BY <2>1, <2>2 DEF Running, Unsent, Untested
  <2>4. /\ Cardinality(Running') = Cardinality(Running) + 1
        /\ Cardinality(Unsent') = Cardinality(Unsent) + 1
        /\ Cardinality(Untested') = Cardinality(Untested) + 1
    BY <2>3, FS_AddElement DEF StepsCounted
  <2> QED BY <1>1, <1>2, <2>4 DEF StepsLeft, StepsCounted
<1>4. CASE next \notin parsed
  <2>1. Running' = Running /\ Unsent' = Unsent /\ Untested' = Untested
    BY <1>4 DEF SpawnTester, Running, Unsent, Untested
  <2> QED BY <1>1, <1>2, <2>1 DEF StepsLeft, StepsCounted
<1> QED BY <1>3, <1>4

\* The steps of which no tester takes part bring caller, drainer or timer on.
LEMMA OtherProgress ==
    ASSUME StepsCounted, StepsCounted', UNCHANGED <<n, next, tester>>,
           CallerSteps(pc') + DrainerSteps(drainer') + TimerSteps(ctx')
             < CallerSteps(pc) + DrainerSteps(drainer) + TimerSteps(ctx)
    PROVE  StepsLeft' < StepsLeft
<1>1. Running' = Running /\ Unsent' = Unsent /\ Untested' = Untested
  BY DEF Running, Unsent, Untested
<1>2. Cardinality(Running') = Cardinality(Running)
      /\ Cardinality(Unsent') = Cardinality(Unsent)
      /\ Cardinality(Untested') = Cardinality(Untested)
  BY <1>1
<1>3. 4 * (n' + 1 - next') = 4 * (n + 1 - next)
  OBVIOUS
<1> QED BY <1>2, <1>3 DEF StepsLeft, StepsCounted

\* A call of n proxies is over after at most 4 n + 10 steps of all its goroutines
\* together: StepsLeft starts there, never leaves the natural numbers, and falls
\* with every step.
THEOREM EveryCallIsBounded ==
    Spec => /\ StepsLeft = 4 * n + 10
            /\ [](StepsLeft \in Nat)
            /\ EveryStepIsProgress
<1>1. Init => StepsLeft = 4 * n + 10
  <2> SUFFICES ASSUME Init PROVE StepsLeft = 4 * n + 10
    OBVIOUS
  <2>1. Running = {} /\ Unsent = {} /\ Untested = {}
    BY DEF Init, Running, Unsent, Untested
  <2>2. /\ CallerSteps(pc) = 7 /\ DrainerSteps(drainer) = 2 /\ TimerSteps(ctx) = 1
        /\ next = 1
    BY DEF Init, CallerSteps, DrainerSteps, TimerSteps
  <2>3. n \in Nat
    BY DEF Init
  <2> QED BY <2>1, <2>2, <2>3, FS_EmptySet DEF StepsLeft
<1>2. IInv => StepsLeft \in Nat
  BY StepsAreCounted DEF StepsLeft, StepsCounted
<1>3. IInv /\ StepsCounted /\ StepsCounted' /\ [Next]_vars => [StepsLeft' < StepsLeft]_vars
  <2> SUFFICES ASSUME IInv, StepsCounted, StepsCounted', Next, ~UNCHANGED vars
               PROVE  StepsLeft' < StepsLeft
    OBVIOUS
  <2>0. /\ CallerSteps(pc) \in 0..7 /\ DrainerSteps(drainer) \in 0..2
        /\ CallerSteps(pc') \in 0..7 /\ DrainerSteps(drainer') \in 0..2
        /\ TimerSteps(ctx) \in 0..1 /\ TimerSteps(ctx') \in 0..1
    BY DEF StepsCounted
  <2>1. CASE Start \/ AllSpawned \/ GiveUp \/ AllFailed
    <3>1. /\ CallerSteps(pc') < CallerSteps(pc)
          /\ DrainerSteps(drainer') = DrainerSteps(drainer)
          /\ TimerSteps(ctx') = TimerSteps(ctx) /\ UNCHANGED <<n, next, tester>>
      BY <2>1 DEF Start, AllSpawned, GiveUp, AllFailed, CallerSteps, DrainerSteps,
                  TimerSteps
    <3>2. CallerSteps(pc') + DrainerSteps(drainer') + TimerSteps(ctx')
            < CallerSteps(pc) + DrainerSteps(drainer) + TimerSteps(ctx)
      BY <2>0, <3>1
    <3> QED BY <3>1, <3>2, OtherProgress
  <2>2. CASE Cancel \/ StartDrainer \/ WaitForTesters \/ CloseAndReturn
    <3>1. /\ CallerSteps(pc') < CallerSteps(pc)
          /\ DrainerSteps(drainer') <= DrainerSteps(drainer)
          /\ TimerSteps(ctx') <= TimerSteps(ctx) /\ UNCHANGED <<n, next, tester>>
      BY <2>2 DEF Cancel, StartDrainer, WaitForTesters, CloseAndReturn, CallerSteps,
                  DrainerSteps, TimerSteps, IInv, TypeOK, CallerInv
    <3>2. CallerSteps(pc') + DrainerSteps(drainer') + TimerSteps(ctx')
            < CallerSteps(pc) + DrainerSteps(drainer) + TimerSteps(ctx)
      BY <2>0, <3>1
    <3> QED BY <3>1, <3>2, OtherProgress
  <2>3. CASE DrainerEnds \/ TimeOut
    <3>1. CallerSteps(pc') = CallerSteps(pc) /\ UNCHANGED <<n, next, tester>>
      BY <2>3 DEF DrainerEnds, TimeOut
    <3>2. CASE DrainerEnds
      BY <3>1, <3>2, <2>0, OtherProgress DEF DrainerEnds, DrainerSteps
    <3>3. CASE TimeOut
      BY <3>1, <3>3, <2>0, OtherProgress DEF TimeOut, TimerSteps
    <3> QED BY <2>3, <3>2, <3>3
  <2>4. CASE SpawnTester
    BY <2>4, SpawnProgress
  <2>5. ASSUME NEW i \in Proxies,
               \/ ReceiveResult(i) \/ TesterDone(i) \/ DrainResult(i)
               \/ \E r \in {"pass", "fail"} : TestEnds(i, r)
        PROVE  StepsLeft' < StepsLeft
    <3>1. PICK s : /\ tester' = [tester EXCEPT ![i] = s]
                   /\ \/ tester[i] = "testing" /\ s = "sending"
                      \/ tester[i] = "sending" /\ s = "sent"
                      \/ tester[i] = "sent" /\ s = "done"
      BY <2>5 DEF ReceiveResult, TesterDone, DrainResult, TestEnds, Sending
    <3>2. /\ DrainerSteps(drainer') = DrainerSteps(drainer)
          /\ TimerSteps(ctx') = TimerSteps(ctx)
          /\ CallerSteps(pc') <= CallerSteps(pc) /\ n' = n /\ next' = next
      BY <2>5 DEF ReceiveResult, TesterDone, DrainResult, TestEnds, CallerSteps,
                  DrainerSteps, TimerSteps, IInv, TypeOK
    <3>3. Cardinality(Running') + Cardinality(Unsent') + Cardinality(Untested')
            = Cardinality(Running) + Cardinality(Unsent) + Cardinality(Untested) - 1
      BY <3>1, TesterProgress
    <3>4. 4 * (n' + 1 - next') = 4 * (n + 1 - next)
      BY <3>2
    <3> QED BY <2>0, <3>2, <3>3, <3>4 DEF StepsLeft, StepsCounted
  <2> QED BY <2>1, <2>2, <2>3, <2>4, <2>5 DEF Next, Caller, Terminated
<1>4. Spec => Init
  BY DEF Spec
<1> QED BY <1>1, <1>2, <1>3, <1>4, Invariance, StepsAreCounted, PTL
        DEF Spec, EveryStepIsProgress
=============================================================================
