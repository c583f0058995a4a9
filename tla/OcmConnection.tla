---------------------------- MODULE OcmConnection ----------------------------
(***************************************************************************)
(* The OCM connection the whole process shares (pkg/ocm/ocm.go).           *)
(* SetupOCMConnection hands out the cached connection or makes a new one,  *)
(* under a mutex; each new connection gets a watcher goroutine that closes *)
(* it when its timeout fires.  Callers use what they were handed outside   *)
(* the mutex, for as long as they like.                                    *)
(***************************************************************************)
EXTENDS Naturals, FiniteSets

CONSTANTS
    Callers,       \* goroutines that call the OCM interface
    Connections,   \* identities of connections; bound: no more are ever made
    None           \* nil

ASSUME IdentityAssumption == /\ None \notin Callers \cup Connections
                             /\ Callers \cap Connections = {}

VARIABLES
    caller,    \* caller[c]: where c is in SetupOCMConnection or in its use
    handed,    \* handed[c]: the connection SetupOCMConnection returned to c
    made,      \* the connections created so far
    open,      \* those not closed yet
    cached,    \* o.ocmConnection
    mutex,     \* who holds o.ocmConnectionMutex
    watcher    \* watcher[k]: where the timeout watcher of connection k is

vars == <<caller, handed, made, open, cached, mutex, watcher>>

CallerStates ==
    {"idle", "locking", "check", "create", "watch", "unlock", "using"}

WatcherStates ==
    {"none", "waiting", "locking", "check", "clear", "unlock", "done"}

TypeOK ==
    /\ caller \in [Callers -> CallerStates]
    /\ handed \in [Callers -> Connections \cup {None}]
    /\ made \subseteq Connections
    /\ open \subseteq made
    /\ cached \in made \cup {None}
    /\ mutex \in Callers \cup Connections \cup {None}
    /\ watcher \in [Connections -> WatcherStates]

Init ==
    /\ caller = [c \in Callers |-> "idle"]
    /\ handed = [c \in Callers |-> None]
    /\ made = {}
    /\ open = {}
    /\ cached = None
    /\ mutex = None
    /\ watcher = [k \in Connections |-> "none"]

-----------------------------------------------------------------------------
(* SetupOCMConnection *)

Call(c) ==
    /\ caller[c] = "idle"
    /\ caller' = [caller EXCEPT ![c] = "locking"]
    /\ handed' = [handed EXCEPT ![c] = None]
    /\ UNCHANGED <<made, open, cached, mutex, watcher>>

\* Mutant: the setup does not take the mutex.
CallerEnters(c) ==
    /\ caller[c] = "locking"
    /\ caller' = [caller EXCEPT ![c] = "check"]
    /\ UNCHANGED <<handed, made, open, cached, mutex, watcher>>

CallerLocks(c) ==
    /\ caller[c] = "locking"
    /\ mutex = None
    /\ mutex' = c
    /\ caller' = [caller EXCEPT ![c] = "check"]
    /\ UNCHANGED <<handed, made, open, cached, watcher>>

ReuseCached(c) ==
    /\ caller[c] = "check"
    /\ cached # None
    /\ handed' = [handed EXCEPT ![c] = cached]
    /\ caller' = [caller EXCEPT ![c] = "unlock"]
    /\ UNCHANGED <<made, open, cached, mutex, watcher>>

NothingCached(c) ==
    /\ caller[c] = "check"
    /\ cached = None
    /\ caller' = [caller EXCEPT ![c] = "create"]
    /\ UNCHANGED <<handed, made, open, cached, mutex, watcher>>

\* createConnection builds a connection and caches it.
CreateConnection(c) ==
    /\ caller[c] = "create"
    /\ \E k \in Connections \ made :
        /\ made' = made \cup {k}
        /\ open' = open \cup {k}
        /\ cached' = k
        /\ handed' = [handed EXCEPT ![c] = k]
    /\ caller' = [caller EXCEPT ![c] = "watch"]
    /\ UNCHANGED <<mutex, watcher>>

\* Mutant: what createConnection left of a connection is cached all the same.
CacheFailed(c) ==
    /\ caller[c] = "create"
    /\ cached' \in Connections \ made
    /\ caller' = [caller EXCEPT ![c] = "unlock"]
    /\ UNCHANGED <<handed, made, open, mutex, watcher>>

\* createConnection fails: not logged in, or OCM cannot be reached.
CreateFails(c) ==
    /\ caller[c] = "create"
    /\ caller' = [caller EXCEPT ![c] = "unlock"]
    /\ UNCHANGED <<handed, made, open, cached, mutex, watcher>>

\* Mutant: no goroutine is started to close the new connection.
SkipWatcher(c) ==
    /\ caller[c] = "watch"
    /\ caller' = [caller EXCEPT ![c] = "unlock"]
    /\ UNCHANGED <<handed, made, open, cached, mutex, watcher>>

StartWatcher(c) ==
    /\ caller[c] = "watch"
    /\ watcher' = [watcher EXCEPT ![handed[c]] = "waiting"]
    /\ caller' = [caller EXCEPT ![c] = "unlock"]
    /\ UNCHANGED <<handed, made, open, cached, mutex>>

\* The deferred Unlock; without a connection the call has returned an error.
CallerUnlocks(c) ==
    /\ caller[c] = "unlock"
    /\ mutex' = None
    /\ caller' = [caller EXCEPT ![c] = IF handed[c] = None THEN "idle"
                                                           ELSE "using"]
    /\ UNCHANGED <<handed, made, open, cached, watcher>>

\* The caller's requests are over, whether or not the connection is still open.
StopUsing(c) ==
    /\ caller[c] = "using"
    /\ caller' = [caller EXCEPT ![c] = "idle"]
    /\ UNCHANGED <<handed, made, open, cached, mutex, watcher>>

-----------------------------------------------------------------------------
(* initiateCloseConnection *)

\* The context's timeout fires.
TimeoutFires(k) ==
    /\ watcher[k] = "waiting"
    /\ watcher' = [watcher EXCEPT ![k] = "locking"]
    /\ UNCHANGED <<caller, handed, made, open, cached, mutex>>

WatcherLocks(k) ==
    /\ watcher[k] = "locking"
    /\ mutex = None
    /\ mutex' = k
    /\ watcher' = [watcher EXCEPT ![k] = "check"]
    /\ UNCHANGED <<caller, handed, made, open, cached>>

\* It closes the cached connection if that is the one it watches.
WatcherCloses(k) ==
    /\ watcher[k] = "check"
    /\ IF cached = k
         THEN /\ open' = open \ {cached}
              /\ watcher' = [watcher EXCEPT ![k] = "clear"]
         ELSE /\ watcher' = [watcher EXCEPT ![k] = "unlock"]
              /\ UNCHANGED open
    /\ UNCHANGED <<caller, handed, made, cached, mutex>>

WatcherClears(k) ==
    /\ watcher[k] = "clear"
    /\ cached' = None
    /\ watcher' = [watcher EXCEPT ![k] = "unlock"]
    /\ UNCHANGED <<caller, handed, made, open, mutex>>

WatcherUnlocks(k) ==
    /\ watcher[k] = "unlock"
    /\ mutex' = None
    /\ watcher' = [watcher EXCEPT ![k] = "done"]
    /\ UNCHANGED <<caller, handed, made, open, cached>>

-----------------------------------------------------------------------------

\* The steps a caller inside SetupOCMConnection takes by itself.
CallerSteps(c) ==
    \/ ReuseCached(c) \/ NothingCached(c)
    \/ CreateConnection(c) \/ CreateFails(c)
    \/ StartWatcher(c) \/ CallerUnlocks(c)

WatcherSteps(k) == WatcherCloses(k) \/ WatcherClears(k) \/ WatcherUnlocks(k)

Next ==
    \/ \E c \in Callers : \/ Call(c) \/ CallerLocks(c)
                          \/ CallerSteps(c)
                          \/ StopUsing(c)
    \/ \E k \in Connections : \/ TimeoutFires(k) \/ WatcherLocks(k)
                              \/ WatcherSteps(k)

Spec == Init /\ [][Next]_vars

\* Goroutines that can run do, timers fire, and sync.Mutex starves nobody: after
\* a millisecond it hands the lock over in order.  Nobody has to call at all.
Fairness ==
    /\ \A c \in Callers : SF_vars(CallerLocks(c)) /\ WF_vars(CallerSteps(c))
    /\ \A k \in Connections : /\ WF_vars(TimeoutFires(k))
                              /\ SF_vars(WatcherLocks(k))
                              /\ WF_vars(WatcherSteps(k))

FairSpec == Spec /\ Fairness

-----------------------------------------------------------------------------
(* Properties *)

\* The process never has two open connections: a caller that finds none cached
\* creates one, and no other caller does so at the same time (ocm.go:110-128).
AtMostOneOpen == \A j, k \in open : j = k

\* The cache, its mutex and the watchers keep the promise of ConnectionLease: a
\* connection is made when no other is open, and lent while it is open; one that
\* was closed never comes back, though its user may hold it longer
\* (ocm.go:92-137).
Lease == INSTANCE ConnectionLease WITH
             Users   <- Callers,
             Items   <- Connections,
             Nothing <- None,
             live    <- open,
             spent   <- made,
             loan    <- [c \in Callers |->
                            IF caller[c] = "using" THEN handed[c] ELSE None]

ImplementsLease == Lease!Spec

\* A connection nobody closes explicitly is closed all the same, whatever the
\* callers do: its watcher always gets to close it (ocm.go:104-108).
EveryConnectionIsClosed ==
    \A k \in Connections : (k \in open) ~> (k \notin open)
=============================================================================
