------------------------ MODULE OcmConnectionProofs ------------------------
(***************************************************************************)
(* Theorems about OcmConnection, for any number of callers and of          *)
(* connections: type correctness, at most one open connection, that        *)
(* SetupOCMConnection hands out open connections only, that it keeps the   *)
(* promise of ConnectionLease, and what makes every connection close in    *)
(* the end: a watcher nobody can hold up for long.                         *)
(***************************************************************************)
EXTENDS OcmConnection, TLAPS

\* The mutex is held by whoever is in a critical section.
MutexInv ==
    /\ \A c \in Callers :
         caller[c] \in {"check", "create", "watch", "unlock"} <=> mutex = c
    /\ \A k \in Connections :
         watcher[k] \in {"check", "clear", "unlock"} <=> mutex = k

\* Only the cached connection is open, and it is, unless its watcher has closed
\* it and is about to clear the cache, with the mutex held.
CacheInv ==
    /\ open \subseteq {cached}
    /\ cached # None => cached \in open \/ watcher[cached] = "clear"
    /\ \A k \in Connections : watcher[k] = "clear" => cached = k /\ k \notin open

\* What a caller in its critical section knows of the cache.
HandedInv ==
    \A c \in Callers :
        /\ caller[c] \in {"locking", "check", "create"} => handed[c] = None
        /\ caller[c] = "create" => cached = None
        /\ caller[c] = "watch" => handed[c] # None
        /\ caller[c] \in {"watch", "unlock"} =>
              handed[c] = None \/ (handed[c] = cached /\ handed[c] \in open)

\* A watcher is started once, by who made its connection, and the connection is
\* closed when it is through.
WatchInv ==
    /\ \A k \in Connections : watcher[k] # "none" => k \in made
    /\ \A k \in Connections : watcher[k] \in {"clear", "unlock", "done"} => k \notin open
    /\ \A c \in Callers : caller[c] = "watch" => watcher[handed[c]] = "none"
    /\ \A k \in open : watcher[k] = "none" =>
          \E c \in Callers : caller[c] = "watch" /\ handed[c] = k

IInv == TypeOK /\ MutexInv /\ CacheInv /\ HandedInv /\ WatchInv

-----------------------------------------------------------------------------
(* The inductive invariant *)

\* It holds at the start.
LEMMA InitIInv == Init => IInv
<1> QED BY IdentityAssumption
        DEF Init, IInv, TypeOK, CallerStates, WatcherStates, MutexInv, CacheInv,
            HandedInv, WatchInv

\* Every step of a caller and of a watcher keeps it.
LEMMA NextIInv == IInv /\ [Next]_vars => IInv'
<1> SUFFICES ASSUME IInv, [Next]_vars PROVE IInv'
  OBVIOUS
<1> USE IdentityAssumption DEF IInv, TypeOK, CallerStates, WatcherStates
<1>1. ASSUME NEW c \in Callers, Call(c) PROVE IInv'
  BY <1>1 DEF Call, MutexInv, CacheInv, HandedInv, WatchInv
<1>2. ASSUME NEW c \in Callers, CallerLocks(c) PROVE IInv'
  BY <1>2 DEF CallerLocks, MutexInv, CacheInv, HandedInv, WatchInv
<1>3. ASSUME NEW c \in Callers, ReuseCached(c) PROVE IInv'
  BY <1>3 DEF ReuseCached, MutexInv, CacheInv, HandedInv, WatchInv
<1>4. ASSUME NEW c \in Callers, NothingCached(c) PROVE IInv'
  BY <1>4 DEF NothingCached, MutexInv, CacheInv, HandedInv, WatchInv
<1>5. ASSUME NEW c \in Callers, CreateConnection(c) PROVE IInv'
  BY <1>5 DEF CreateConnection, MutexInv, CacheInv, HandedInv, WatchInv
<1>6. ASSUME NEW c \in Callers, CreateFails(c) PROVE IInv'
  BY <1>6 DEF CreateFails, MutexInv, CacheInv, HandedInv, WatchInv
<1>7. ASSUME NEW c \in Callers, StartWatcher(c) PROVE IInv'
  BY <1>7 DEF StartWatcher, MutexInv, CacheInv, HandedInv, WatchInv
<1>8. ASSUME NEW c \in Callers, CallerUnlocks(c) PROVE IInv'
  BY <1>8 DEF CallerUnlocks, MutexInv, CacheInv, HandedInv, WatchInv
<1>9. ASSUME NEW c \in Callers, StopUsing(c) PROVE IInv'
  BY <1>9 DEF StopUsing, MutexInv, CacheInv, HandedInv, WatchInv
<1>10. ASSUME NEW k \in Connections, TimeoutFires(k) PROVE IInv'
  BY <1>10 DEF TimeoutFires, MutexInv, CacheInv, HandedInv, WatchInv
<1>11. ASSUME NEW k \in Connections, WatcherLocks(k) PROVE IInv'
  BY <1>11 DEF WatcherLocks, MutexInv, CacheInv, HandedInv, WatchInv
<1>12. ASSUME NEW k \in Connections, WatcherCloses(k) PROVE IInv'
  BY <1>12 DEF WatcherCloses, MutexInv, CacheInv, HandedInv, WatchInv
<1>13. ASSUME NEW k \in Connections, WatcherClears(k) PROVE IInv'
  BY <1>13 DEF WatcherClears, MutexInv, CacheInv, HandedInv, WatchInv
<1>14. ASSUME NEW k \in Connections, WatcherUnlocks(k) PROVE IInv'
  BY <1>14 DEF WatcherUnlocks, MutexInv, CacheInv, HandedInv, WatchInv
<1>15. CASE UNCHANGED vars
  BY <1>15 DEF vars, MutexInv, CacheInv, HandedInv, WatchInv
<1> QED BY <1>1, <1>2, <1>3, <1>4, <1>5, <1>6, <1>7, <1>8, <1>9, <1>10,
           <1>11, <1>12, <1>13, <1>14, <1>15
        DEF Next, CallerSteps, WatcherSteps

\* The invariant holds in every reachable state.
LEMMA Invariance == Spec => []IInv
<1> QED BY InitIInv, NextIInv, PTL DEF Spec

-----------------------------------------------------------------------------
(* The theorems *)

\* Type correctness; in particular the cache never holds a connection that was
\* not made.
THEOREM TypeCorrect == Spec => []TypeOK
<1>1. IInv => TypeOK
  BY DEF IInv
<1> QED BY <1>1, Invariance, PTL

\* The process never has two open connections (ocm.go:110-128).
THEOREM OneOpenConnection == Spec => []AtMostOneOpen
<1>1. IInv => AtMostOneOpen
  BY DEF IInv, CacheInv, AtMostOneOpen
<1> QED BY <1>1, Invariance, PTL

-----------------------------------------------------------------------------
(* The promise of ConnectionLease.  A caller's loan is what it was handed, from *)
(* the return of SetupOCMConnection to the end of its requests.                 *)

Loan == [c \in Callers |-> IF caller[c] = "using" THEN handed[c] ELSE None]

\* What a step of one caller that is not its loan's leaves of all loans.
LEMMA LoansStay ==
    ASSUME IInv, NEW c \in Callers, NEW s \in CallerStates \ {"using"},
           caller[c] # "using", caller' = [caller EXCEPT ![c] = s],
           \A d \in Callers \ {c} : handed'[d] = handed[d]
    PROVE  Loan' = Loan
<1> SUFFICES ASSUME NEW d \in Callers
             PROVE  (IF caller'[d] = "using" THEN handed'[d] ELSE None)
                      = (IF caller[d] = "using" THEN handed[d] ELSE None)
  BY DEF Loan
<1>1. CASE d = c
  BY <1>1 DEF IInv, TypeOK, CallerStates
<1>2. CASE d # c
  BY <1>2 DEF IInv, TypeOK, CallerStates
<1> QED BY <1>1, <1>2

\* Connections are made one at a time, and lent only while they are open; callers
\* and watchers together do nothing ConnectionLease does not allow.
THEOREM KeepsThePromise == Spec => ImplementsLease
<1>1. Init => Lease!Init
  BY DEF Init, Lease!Init
<1>2. IInv /\ [Next]_vars => [Lease!Next]_(Lease!vars)
  <2> SUFFICES ASSUME IInv, [Next]_vars
               PROVE  Lease!Next \/ UNCHANGED <<open, made, Loan>>
    BY DEF Lease!vars, Loan
  <2> USE DEF CallerStates
  <2>1. ASSUME NEW c \in Callers, Call(c) \/ CallerLocks(c) \/ NothingCached(c)
        PROVE  UNCHANGED <<open, made, Loan>>
    <3>1. UNCHANGED <<open, made>> /\ \A d \in Callers \ {c} : handed'[d] = handed[d]
      BY <2>1 DEF Call, CallerLocks, NothingCached, IInv, TypeOK
    <3>2. caller[c] # "using" /\ \E s \in CallerStates \ {"using"} :
             caller' = [caller EXCEPT ![c] = s]
      BY <2>1 DEF Call, CallerLocks, NothingCached
    <3> QED BY <3>1, <3>2, LoansStay
  <2>2. ASSUME NEW c \in Callers, ReuseCached(c) \/ CreateFails(c) \/ StartWatcher(c)
        PROVE  UNCHANGED <<open, made, Loan>>
    <3>1. UNCHANGED <<open, made>> /\ \A d \in Callers \ {c} : handed'[d] = handed[d]
      BY <2>2 DEF ReuseCached, CreateFails, StartWatcher, IInv, TypeOK
    <3>2. caller[c] # "using" /\ \E s \in CallerStates \ {"using"} :
             caller' = [caller EXCEPT ![c] = s]
      BY <2>2 DEF ReuseCached, CreateFails, StartWatcher
    <3> QED BY <3>1, <3>2, LoansStay
  <2>3. ASSUME NEW c \in Callers, CreateConnection(c) PROVE Lease!Next
    <3>1. open = {}
      BY <2>3, IdentityAssumption DEF CreateConnection, IInv, TypeOK, CacheInv, HandedInv
    <3>2. PICK k \in Connections \ made :
             made' = made \cup {k} /\ open' = open \cup {k}
               /\ handed' = [handed EXCEPT ![c] = k]
      BY <2>3 DEF CreateConnection
    <3>3. caller[c] # "using" /\ caller' = [caller EXCEPT ![c] = "watch"]
      BY <2>3 DEF CreateConnection
    <3>4. Loan' = Loan
      BY <3>2, <3>3, LoansStay DEF IInv, TypeOK
    <3>5. Lease!Connect(k)
      BY <3>1, <3>2, <3>4 DEF Lease!Connect, Loan
    <3> QED BY <3>5 DEF Lease!Next
  <2>4. ASSUME NEW c \in Callers, CallerUnlocks(c)
        PROVE  Lease!Next \/ UNCHANGED <<open, made, Loan>>
    <3>1. CASE handed[c] = None
      <4>1. caller[c] # "using" /\ caller' = [caller EXCEPT ![c] = "idle"]
            /\ UNCHANGED <<open, made, handed>>
        BY <2>4, <3>1 DEF CallerUnlocks
      <4> QED BY <4>1, LoansStay
    <3>2. CASE handed[c] # None
      <4>1. PICK k \in Connections : k = handed[c] /\ k \in open
        BY <2>4, <3>2 DEF CallerUnlocks, IInv, TypeOK, HandedInv
      <4>2. /\ caller[c] = "unlock" /\ caller' = [caller EXCEPT ![c] = "using"]
            /\ UNCHANGED <<open, made, handed>>
        BY <2>4, <3>2 DEF CallerUnlocks
      <4>3. Loan[c] = None /\ Loan' = [Loan EXCEPT ![c] = k]
        BY <4>1, <4>2 DEF Loan, IInv, TypeOK
      <4>4. Lease!Lend(c, k)
        BY <4>1, <4>2, <4>3 DEF Lease!Lend, Loan
      <4> QED BY <4>4 DEF Lease!Next
    <3> QED BY <3>1, <3>2
  <2>5. ASSUME NEW c \in Callers, StopUsing(c)
        PROVE  Lease!Next \/ UNCHANGED <<open, made, Loan>>
    <3>1. Loan[c] = handed[c] /\ Loan' = [Loan EXCEPT ![c] = None]
      BY <2>5 DEF StopUsing, Loan, IInv, TypeOK
    <3>2. CASE handed[c] = None
      BY <2>5, <3>1, <3>2 DEF StopUsing, Loan
    <3>3. CASE handed[c] # None
      <4>1. Lease!GiveBack(c)
        BY <2>5, <3>1, <3>3 DEF StopUsing, Lease!GiveBack, Loan
      <4> QED BY <4>1 DEF Lease!Next
    <3> QED BY <3>2, <3>3
  <2>6. ASSUME NEW k \in Connections, WatcherCloses(k)
        PROVE  Lease!Next \/ UNCHANGED <<open, made, Loan>>
    <3>1. made' = made /\ Loan' = Loan
      BY <2>6 DEF WatcherCloses, Loan
    <3>2. CASE k \in open /\ cached = k
      <4>1. Lease!Expire(k)
        BY <2>6, <3>1, <3>2 DEF WatcherCloses, Lease!Expire, Loan
      <4> QED BY <4>1 DEF Lease!Next
    <3>3. CASE ~(k \in open /\ cached = k)
      BY <2>6, <3>1, <3>3 DEF WatcherCloses
    <3> QED BY <3>2, <3>3
  <2>7. ASSUME NEW k \in Connections,
               TimeoutFires(k) \/ WatcherLocks(k) \/ WatcherClears(k) \/ WatcherUnlocks(k)
        PROVE  UNCHANGED <<open, made, Loan>>
    BY <2>7 DEF TimeoutFires, WatcherLocks, WatcherClears, WatcherUnlocks, Loan
  <2>8. CASE UNCHANGED vars
    BY <2>8 DEF vars, Loan
  <2> QED BY <2>1, <2>2, <2>3, <2>4, <2>5, <2>6, <2>7, <2>8
          DEF Next, CallerSteps, WatcherSteps
<1> QED BY <1>1, <1>2, Invariance, PTL DEF Spec, ImplementsLease, Lease!Spec
-----------------------------------------------------------------------------
(* Why every connection is closed in the end.  That a goroutine which can go on *)
(* does, and gets the mutex it waits for, is the part of Fairness.              *)

\* An open connection has a watcher that has not looked at the cache yet, or its
\* maker is about to start it, with the mutex in its hands (ocm.go:131-134).
OpenIsWatched ==
    \A k \in open :
        \/ watcher[k] \in {"waiting", "locking", "check"}
        \/ \E c \in Callers : caller[c] = "watch" /\ handed[c] = k /\ mutex = c

\* How many steps a watcher, or a caller that holds the mutex, has left.
WatcherStepsLeft(w) ==
    CASE w = "none" -> 6 [] w = "waiting" -> 5 [] w = "locking" -> 4
      [] w = "check" -> 3 [] w = "clear" -> 2 [] w = "unlock" -> 1 [] w = "done" -> 0

CallerStepsLeft(s) ==
    CASE s = "check" -> 4 [] s = "create" -> 3 [] s = "watch" -> 2 [] s = "unlock" -> 1
      [] OTHER -> 0

\* No step takes a watcher back, its own or anybody else's.
WatchersOnlyAdvance ==
    [][\A k \in Connections :
         watcher'[k] # watcher[k] =>
             WatcherStepsLeft(watcher'[k]) < WatcherStepsLeft(watcher[k])]_vars

\* Who holds the mutex can go on without waiting for anybody: neither in the
\* section of SetupOCMConnection nor in that of the watcher is there a lock, a
\* channel or a timer; that OCM may fail to answer ends it too (ocm.go:125-129).
HolderCanGoOn ==
    mutex # None =>
        \/ \E c \in Callers :
             /\ mutex = c
             /\ \/ caller[c] \in {"check", "create", "unlock"}
                \/ caller[c] = "watch" /\ handed[c] \in Connections
        \/ \E k \in Connections : mutex = k /\ watcher[k] \in {"check", "clear", "unlock"}

\* And it gives the mutex back after at most four steps of its own, whatever the
\* others do meanwhile: nobody takes the mutex from it, nobody sends it back.
HoldersOnlyAdvance ==
    [][\A x \in Callers \cup Connections : (mutex = x /\ mutex' # None) =>
         /\ mutex' = x
         /\ x \in Callers =>
               \/ caller'[x] = caller[x]
               \/ CallerStepsLeft(caller'[x]) < CallerStepsLeft(caller[x])
         /\ x \in Connections =>
               \/ watcher'[x] = watcher[x]
               \/ WatcherStepsLeft(watcher'[x]) < WatcherStepsLeft(watcher[x])]_vars

\* A connection is open only while somebody is there to close it.
THEOREM NoConnectionIsForgotten == Spec => []OpenIsWatched
<1>1. IInv => OpenIsWatched
  <2> SUFFICES ASSUME IInv, NEW k \in open
               PROVE  \/ watcher[k] \in {"waiting", "locking", "check"}
                      \/ \E c \in Callers : caller[c] = "watch" /\ handed[c] = k /\ mutex = c
    BY DEF OpenIsWatched
  <2>1. k \in Connections /\ watcher[k] \notin {"clear", "unlock", "done"}
    BY DEF IInv, TypeOK, WatchInv
  <2>2. CASE watcher[k] = "none"
    BY <2>2 DEF IInv, WatchInv, MutexInv
  <2> QED BY <2>1, <2>2 DEF IInv, TypeOK, WatcherStates
<1> QED BY <1>1, Invariance, PTL

\* Its watcher comes nearer to closing it with every step it takes.
THEOREM WatchersGetThere == Spec => WatchersOnlyAdvance
<1>1. IInv /\ [Next]_vars =>
        [\A k \in Connections :
           watcher'[k] # watcher[k] =>
             WatcherStepsLeft(watcher'[k]) < WatcherStepsLeft(watcher[k])]_vars
  <2> SUFFICES ASSUME IInv, Next, NEW k \in Connections, watcher'[k] # watcher[k]
               PROVE  WatcherStepsLeft(watcher'[k]) < WatcherStepsLeft(watcher[k])
    OBVIOUS
  <2>1. ASSUME NEW c \in Callers, StartWatcher(c)
        PROVE  watcher[k] = "none" /\ watcher'[k] = "waiting"
    BY <2>1 DEF StartWatcher, IInv, TypeOK, WatchInv, HandedInv
  <2>2. ASSUME NEW c \in Callers,
               \/ Call(c) \/ CallerLocks(c) \/ ReuseCached(c) \/ NothingCached(c)
               \/ CreateConnection(c) \/ CreateFails(c) \/ CallerUnlocks(c)
               \/ StopUsing(c)
        PROVE  FALSE
    BY <2>2 DEF Call, CallerLocks, ReuseCached, NothingCached, CreateConnection,
                CreateFails, CallerUnlocks, StopUsing
  <2>3. ASSUME NEW j \in Connections,
               \/ TimeoutFires(j) \/ WatcherLocks(j) \/ WatcherCloses(j)
               \/ WatcherClears(j) \/ WatcherUnlocks(j)
        PROVE  \/ watcher[k] = "waiting" /\ watcher'[k] = "locking"
               \/ watcher[k] = "locking" /\ watcher'[k] = "check"
               \/ watcher[k] = "check" /\ watcher'[k] \in {"clear", "unlock"}
               \/ watcher[k] = "clear" /\ watcher'[k] = "unlock"
               \/ watcher[k] = "unlock" /\ watcher'[k] = "done"
    BY <2>3 DEF TimeoutFires, WatcherLocks, WatcherCloses, WatcherClears,
                WatcherUnlocks, IInv, TypeOK
  <2> QED BY <2>1, <2>2, <2>3 DEF Next, CallerSteps, WatcherSteps, WatcherStepsLeft
<1> QED BY <1>1, Invariance, PTL DEF Spec, WatchersOnlyAdvance

\* Nobody who holds the mutex waits for anybody else.
THEOREM HoldersGoOn == Spec => []HolderCanGoOn
<1>1. IInv => HolderCanGoOn
  BY IdentityAssumption DEF IInv, TypeOK, MutexInv, HandedInv, HolderCanGoOn
<1> QED BY <1>1, Invariance, PTL

\* The mutex comes back to the others.
THEOREM MutexComesBack == Spec => HoldersOnlyAdvance
<1>1. IInv /\ [Next]_vars =>
        [\A x \in Callers \cup Connections : (mutex = x /\ mutex' # None) =>
           /\ mutex' = x
           /\ x \in Callers =>
                 \/ caller'[x] = caller[x]
                 \/ CallerStepsLeft(caller'[x]) < CallerStepsLeft(caller[x])
           /\ x \in Connections =>
                 \/ watcher'[x] = watcher[x]
                 \/ WatcherStepsLeft(watcher'[x]) < WatcherStepsLeft(watcher[x])]_vars
  <2> SUFFICES ASSUME IInv, Next, NEW x \in Callers \cup Connections,
                      mutex = x, mutex' # None
               PROVE  /\ mutex' = x
                      /\ x \in Callers =>
                            \/ caller'[x] = caller[x]
                            \/ CallerStepsLeft(caller'[x]) < CallerStepsLeft(caller[x])
                      /\ x \in Connections =>
                            \/ watcher'[x] = watcher[x]
                            \/ WatcherStepsLeft(watcher'[x]) < WatcherStepsLeft(watcher[x])
    OBVIOUS
  <2> USE IdentityAssumption DEF IInv, TypeOK, MutexInv
  <2>1. mutex # None /\ mutex' = mutex
    BY DEF Next, Call, CallerLocks, CallerSteps, ReuseCached, NothingCached,
           CreateConnection, CreateFails, StartWatcher, CallerUnlocks, StopUsing,
           TimeoutFires, WatcherLocks, WatcherSteps, WatcherCloses, WatcherClears,
           WatcherUnlocks
  <2>2. ASSUME x \in Callers, caller'[x] # caller[x]
        PROVE  CallerStepsLeft(caller'[x]) < CallerStepsLeft(caller[x])
    <3>1. \/ caller[x] = "check" /\ caller'[x] \in {"unlock", "create"}
          \/ caller[x] = "create" /\ caller'[x] \in {"watch", "unlock"}
          \/ caller[x] = "watch" /\ caller'[x] = "unlock"
      BY <2>1, <2>2
      DEF Next, Call, CallerLocks, CallerSteps, ReuseCached, NothingCached,
          CreateConnection, CreateFails, StartWatcher, CallerUnlocks, StopUsing,
          TimeoutFires, WatcherLocks, WatcherSteps, WatcherCloses, WatcherClears,
          WatcherUnlocks
    <3> QED BY <3>1 DEF CallerStepsLeft
  <2>3. ASSUME x \in Connections, watcher'[x] # watcher[x]
        PROVE  WatcherStepsLeft(watcher'[x]) < WatcherStepsLeft(watcher[x])
    <3>1. \/ watcher[x] = "check" /\ watcher'[x] \in {"clear", "unlock"}
          \/ watcher[x] = "clear" /\ watcher'[x] = "unlock"
      BY <2>1, <2>3
      DEF Next, Call, CallerLocks, CallerSteps, ReuseCached, NothingCached,
          CreateConnection, CreateFails, StartWatcher, CallerUnlocks, StopUsing,
          TimeoutFires, WatcherLocks, WatcherSteps, WatcherCloses, WatcherClears,
          WatcherUnlocks, WatchInv, HandedInv
    <3> QED BY <3>1 DEF WatcherStepsLeft
  <2> QED BY <2>1, <2>2, <2>3
<1> QED BY <1>1, Invariance, PTL DEF Spec, HoldersOnlyAdvance
=============================================================================
