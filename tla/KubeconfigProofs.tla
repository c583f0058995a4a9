-------------------------- MODULE KubeconfigProofs --------------------------
(***************************************************************************)
(* Theorems about Kubeconfig and the monitoring proxies of Monitoring that *)
(* run among its commands, for any number of terminals, clusters, reasons, *)
(* commands and ticks: type correctness and the safety properties their    *)
(* run checks on a small instance.  A command works on a copy of its file, *)
(* so the inductive invariant says of the copies in memory what it says of *)
(* the files.                                                              *)
(***************************************************************************)
EXTENDS Monitoring, TLAPS

\* The current context is there, and nobody is impersonated.
Sound(rc) ==
    /\ rc.current # None => rc.current \in rc.ctxs
    /\ rc.impersonating = {}

\* Context x's stored reasons were put to use when they were stamped, or later.
Recorded(rc, x) ==
    \A r \in rc.elev[x].reasons : rc.elev[x].at <= lastUsed[x][r]

\* Commands whose configuration in memory may still be written to a file.
Writing(c) == c.pc \in {"compute", "prompt", "saveReason", "save", "write"}

\* What a command has in memory; the reasons just chosen, for the current
\* context, are recorded only when they are written.
CommandOK(c) ==
    /\ Writing(c) =>
         /\ Sound(c.rc)
         /\ \A x \in Contexts :
              (c.pc = "saveReason" /\ x = c.rc.current) \/ Recorded(c.rc, x)
    /\ c.pc \in {"compute", "prompt", "saveReason", "impersonate"} =>
         c.rc.current \in c.rc.ctxs
    /\ c.op = "login" => /\ Writing(c)
                         /\ c.target \in Clusters /\ c.rc.current = c.target
    /\ c.multi => c.op = "login"
    /\ c.pc = "write" => c.multi

\* What a command may write to the default file has the foreign context if and
\* only if the file has it.
ForeignOK(f, c) ==
    (Writing(c) /\ f = Default) =>
        /\ Foreign \in c.rc.ctxs <=> Foreign \in disk[Default].ctxs
        /\ Foreign \in c.rc.ctxs => "other" \in c.rc.users

DiskInv ==
    \A f \in Files : /\ Sound(disk[f])
                     /\ \A x \in Contexts : Recorded(disk[f], x)

MemoryInv == \A t \in Terminals : CommandOK(cmd[t])

ForeignInv ==
    /\ Foreign \in disk[Default].ctxs => "other" \in disk[Default].users
    /\ \A t \in Terminals : ForeignOK(env[t], cmd[t])

IInv == TypeOK /\ DiskInv /\ MemoryInv /\ ForeignInv

-----------------------------------------------------------------------------
(* What the commands do to a configuration *)

\* A missing file is in order: there is nothing in it.
LEMMA EmptyConfigFacts ==
    /\ EmptyConfig \in Config /\ EmptyConfig.ctxs = {}
    /\ Sound(EmptyConfig) /\ \A x \in Contexts : Recorded(EmptyConfig, x)
<1>1. NoElevation \in Elevation /\ NoElevation.reasons = {}
  BY KubeconfigAssumption DEF NoElevation, Elevation
<1> QED BY <1>1 DEF EmptyConfig, Config, Sound, Recorded

\* So is a file that has another tool's context only.
LEMMA ForeignConfigFacts ==
    /\ ForeignConfig \in Config /\ ForeignConfig.users = {"other"}
    /\ Sound(ForeignConfig) /\ \A x \in Contexts : Recorded(ForeignConfig, x)
<1>1. NoElevation \in Elevation /\ NoElevation.reasons = {}
  BY KubeconfigAssumption DEF NoElevation, Elevation
<1>2. ForeignConfig \in Config
  BY <1>1 DEF ForeignConfig, EmptyConfig, Config, Contexts, Users
<1>3. /\ ForeignConfig.ctxs = {Foreign} /\ ForeignConfig.users = {"other"}
      /\ ForeignConfig.current = Foreign /\ ForeignConfig.impersonating = {}
      /\ \A x \in Contexts : ForeignConfig.elev[x].reasons = {}
  BY <1>1 DEF ForeignConfig, EmptyConfig
<1> QED BY <1>2, <1>3 DEF Sound, Recorded

\* Login's new context is the current one and has no reasons.
LEMMA PutClusterFacts ==
    ASSUME NEW rc \in Config, NEW c \in Clusters
    PROVE  LET new == PutCluster(rc, c) IN
           /\ new \in Config
           /\ new.ctxs = rc.ctxs \cup {c} /\ new.users = rc.users \cup {"sre"}
           /\ new.current = c /\ new.elev[c].reasons = {}
           /\ \A x \in Contexts \ {c} : new.elev[x] = rc.elev[x]
           /\ new.impersonating \subseteq rc.impersonating
<1>1. NoElevation \in Elevation /\ NoElevation.reasons = {}
  BY KubeconfigAssumption DEF NoElevation, Elevation
<1> QED BY <1>1 DEF PutCluster, Config, Contexts, Users

\* Logout's leaves every other context and its reasons.
LEMMA DropCurrentFacts ==
    ASSUME NEW rc \in Config, rc.current \in Clusters
    PROVE  LET new == DropCurrent(rc) IN
           /\ new \in Config
           /\ new.ctxs = rc.ctxs \ {rc.current} /\ new.users = rc.users \ {"sre"}
           /\ new.current = None /\ new.elev[rc.current].reasons = {}
           /\ \A x \in Contexts \ {rc.current} : new.elev[x] = rc.elev[x]
           /\ new.impersonating \subseteq rc.impersonating
<1>1. NoElevation \in Elevation /\ NoElevation.reasons = {}
  BY KubeconfigAssumption DEF NoElevation, Elevation
<1>2. UserOf(rc.current) = "sre"
  BY KubeconfigAssumption DEF UserOf
<1> QED BY <1>1, <1>2 DEF DropCurrent, Config, Contexts, Users

\* Storing reasons changes nothing but those of the current context.
LEMMA StoreReasonsFacts ==
    ASSUME NEW rc \in Config, rc.current \in Contexts,
           NEW reasons \in SUBSET Reasons, now \in 0..MaxTime
    PROVE  LET new == StoreReasons(rc, reasons) IN
           /\ new \in Config
           /\ new.ctxs = rc.ctxs /\ new.users = rc.users
           /\ new.current = rc.current /\ new.impersonating = rc.impersonating
           /\ new.elev[rc.current].reasons = reasons
           /\ \A x \in Contexts \ {rc.current} : new.elev[x] = rc.elev[x]
<1>1. [reasons |-> reasons, at |-> now] \in Elevation
  BY DEF Elevation
<1> QED BY <1>1 DEF StoreReasons, Config, Contexts

-----------------------------------------------------------------------------
(* The inductive invariant *)

\* A terminal with nothing to write is in order.
LEMMA IdleOK == Idle \in Command /\ CommandOK(Idle) /\ ~Writing(Idle)
<1> QED BY EmptyConfigFacts DEF Idle, Command, CommandOK, Writing

\* It holds at the start.
LEMMA InitIInv == Init => IInv
<1> SUFFICES ASSUME Init PROVE IInv
  OBVIOUS
<1>1. TypeOK
  BY EmptyConfigFacts, ForeignConfigFacts, IdleOK, KubeconfigAssumption
  DEF Init, TypeOK, Files
<1>2. \A f \in Files : disk[f] \in {EmptyConfig, ForeignConfig}
  BY DEF Init
<1>3. DiskInv
  BY <1>2, EmptyConfigFacts, ForeignConfigFacts DEF DiskInv
<1>4. MemoryInv
  BY IdleOK DEF Init, MemoryInv
<1>5. ForeignInv
  BY <1>2, IdleOK, EmptyConfigFacts, ForeignConfigFacts
  DEF Init, ForeignInv, ForeignOK, Files
<1> QED BY <1>1, <1>3, <1>4, <1>5 DEF IInv

\* A step that only changes what terminal t's command has in memory.
LEMMA CommandStep ==
    ASSUME IInv, NEW t \in Terminals, NEW c \in Command,
           cmd' = [cmd EXCEPT ![t] = c], left' \in 0..MaxCommands,
           UNCHANGED <<disk, env, now, lastUsed>>,
           CommandOK(c), ForeignOK(env[t], c)
    PROVE  IInv'
<1>1. TypeOK'
  BY DEF IInv, TypeOK
<1>2. \A u \in Terminals : cmd'[u] = c \/ cmd'[u] = cmd[u]
  BY DEF IInv, TypeOK
<1>3. DiskInv'
  BY DEF IInv, DiskInv, Recorded
<1>4. MemoryInv'
  BY <1>2 DEF IInv, TypeOK, MemoryInv, CommandOK, Recorded
<1>5. ForeignInv'
  BY DEF IInv, TypeOK, ForeignInv, ForeignOK
<1> QED BY <1>1, <1>3, <1>4, <1>5 DEF IInv

\* What a command reads from its file is in order.
LEMMA ReadOK ==
    ASSUME IInv, NEW t \in Terminals
    PROVE  LET rc == disk[env[t]] IN
           /\ rc \in Config /\ Sound(rc)
           /\ \A x \in Contexts : Recorded(rc, x)
           /\ env[t] = Default =>
                /\ Foreign \in rc.ctxs <=> Foreign \in disk[Default].ctxs
                /\ Foreign \in rc.ctxs => "other" \in rc.users
<1> QED BY DEF IInv, TypeOK, DiskInv, ForeignInv

\* A login reads its file and puts the cluster in memory; nothing is written yet.
LEMMA LoginStep ==
    ASSUME IInv, NEW t \in Terminals, NEW c \in Clusters, NEW multi \in BOOLEAN,
           NEW reason \in Reasons \cup {None}, Login(t, c, multi, reason)
    PROVE  IInv'
<1> DEFINE rc  == disk[env[t]]
           new == PutCluster(rc, c)
           cm  == [op |-> "login",
                   pc |-> IF reason = None THEN "save" ELSE "compute",
                   rc |-> new, given |-> reason, target |-> c,
                   multi |-> multi, runs |-> FALSE]
<1>1. /\ rc \in Config /\ Sound(rc)
      /\ \A x \in Contexts : Recorded(rc, x)
      /\ env[t] = Default =>
           /\ Foreign \in rc.ctxs <=> Foreign \in disk[Default].ctxs
           /\ Foreign \in rc.ctxs => "other" \in rc.users
  BY ReadOK
<1>2. /\ new \in Config
      /\ new.ctxs = rc.ctxs \cup {c} /\ new.users = rc.users \cup {"sre"}
      /\ new.current = c /\ new.elev[c].reasons = {}
      /\ \A x \in Contexts \ {c} : new.elev[x] = rc.elev[x]
      /\ new.impersonating \subseteq rc.impersonating
  BY <1>1, PutClusterFacts
<1>3. Sound(new) /\ \A x \in Contexts : Recorded(new, x)
  <2> HIDE DEF rc, new
  <2> QED BY <1>1, <1>2 DEF Sound, Recorded
<1>4. /\ cm \in Command /\ cm.pc \in {"save", "compute"} /\ cm.op = "login"
      /\ cm.rc = new /\ cm.target = c /\ cm.multi \in BOOLEAN
  <2> HIDE DEF new
  <2> QED BY <1>2 DEF Command
<1>5. CommandOK(cm)
  <2> HIDE DEF rc, new, cm
  <2> QED BY <1>2, <1>3, <1>4 DEF CommandOK, Writing
<1>6. ForeignOK(env[t], cm)
  <2> HIDE DEF rc, new, cm
  <2> QED BY <1>1, <1>2, <1>4, KubeconfigAssumption DEF ForeignOK
<1>7. /\ cmd' = [cmd EXCEPT ![t] = cm] /\ left' \in 0..MaxCommands
      /\ UNCHANGED <<disk, env, now, lastUsed>>
  <2>1. Starts(t, cm)
    BY DEF Login
  <2> HIDE DEF cm
  <2> QED BY <2>1, KubeconfigAssumption DEF Starts, IInv, TypeOK
<1> HIDE DEF cm
<1> QED BY <1>4, <1>5, <1>6, <1>7, CommandStep

\* A logout reads its file and drops the current context in memory.
LEMMA LogoutStep ==
    ASSUME IInv, NEW t \in Terminals, Logout(t)
    PROVE  IInv'
<1> DEFINE rc  == disk[env[t]]
           new == DropCurrent(rc)
           cm  == [Idle EXCEPT !.op = "logout", !.pc = "save", !.rc = new]
<1>1. /\ rc \in Config /\ Sound(rc)
      /\ \A x \in Contexts : Recorded(rc, x)
      /\ env[t] = Default =>
           /\ Foreign \in rc.ctxs <=> Foreign \in disk[Default].ctxs
           /\ Foreign \in rc.ctxs => "other" \in rc.users
  BY ReadOK
<1>2. rc.current \in Clusters
  <2>1. rc.current \in rc.ctxs /\ rc.current # Foreign
    BY DEF Logout
  <2> HIDE DEF rc
  <2> QED BY <1>1, <2>1 DEF Config, Contexts
<1>3. /\ new \in Config
      /\ new.ctxs = rc.ctxs \ {rc.current} /\ new.users = rc.users \ {"sre"}
      /\ new.current = None /\ new.elev[rc.current].reasons = {}
      /\ \A x \in Contexts \ {rc.current} : new.elev[x] = rc.elev[x]
      /\ new.impersonating \subseteq rc.impersonating
  BY <1>1, <1>2, DropCurrentFacts
<1>4. Sound(new) /\ \A x \in Contexts : Recorded(new, x)
  <2> HIDE DEF rc, new
  <2> QED BY <1>1, <1>3 DEF Sound, Recorded
<1>5. /\ cm \in Command /\ cm.pc = "save" /\ cm.op = "logout"
      /\ cm.rc = new /\ cm.multi = FALSE
  <2> HIDE DEF new
  <2> QED BY <1>3, IdleOK DEF Command, Idle
<1>6. CommandOK(cm)
  <2> HIDE DEF rc, new, cm
  <2> QED BY <1>4, <1>5 DEF CommandOK, Writing
<1>7. ForeignOK(env[t], cm)
  <2> HIDE DEF rc, new, cm
  <2> QED BY <1>1, <1>2, <1>3, <1>5, KubeconfigAssumption DEF ForeignOK
<1>8. /\ cmd' = [cmd EXCEPT ![t] = cm] /\ left' \in 0..MaxCommands
      /\ UNCHANGED <<disk, env, now, lastUsed>>
  <2>1. Starts(t, cm)
    BY DEF Logout
  <2> HIDE DEF cm
  <2> QED BY <2>1, KubeconfigAssumption DEF Starts, IInv, TypeOK
<1> HIDE DEF cm
<1> QED BY <1>5, <1>6, <1>7, <1>8, CommandStep

\* A named cluster's own file is never the default one.
LEMMA LogoutClusterStep ==
    ASSUME IInv, NEW t \in Terminals, NEW c \in Clusters, LogoutCluster(t, c)
    PROVE  IInv'
<1>1. /\ disk' = [disk EXCEPT ![c] = EmptyConfig] /\ left' \in 0..MaxCommands
      /\ UNCHANGED <<env, cmd, now, lastUsed>> /\ c \in Files /\ c # Default
      /\ Default \in Files
  BY KubeconfigAssumption DEF LogoutCluster, IInv, TypeOK, Files
<1>2. TypeOK'
  BY <1>1, EmptyConfigFacts DEF IInv, TypeOK
<1>3. \A f \in Files : disk'[f] = EmptyConfig \/ disk'[f] = disk[f]
  BY <1>1 DEF IInv, TypeOK
<1>4. DiskInv'
  BY <1>1, <1>3, EmptyConfigFacts DEF IInv, DiskInv, Recorded
<1>5. MemoryInv'
  BY <1>1 DEF IInv, MemoryInv, CommandOK, Recorded
<1>6. ForeignInv'
  <2>1. disk'[Default] = disk[Default]
    BY <1>1 DEF IInv, TypeOK
  <2> QED BY <1>1, <2>1 DEF IInv, ForeignInv, ForeignOK
<1> QED BY <1>2, <1>4, <1>5, <1>6 DEF IInv

\* An elevation reads its file, which has a current context.
LEMMA ElevateStep ==
    ASSUME IInv, NEW t \in Terminals, NEW reason \in Reasons \cup {None},
           NEW runs \in BOOLEAN, Elevate(t, reason, runs)
    PROVE  IInv'
<1> DEFINE rc == disk[env[t]]
           cm == [Idle EXCEPT !.op = "elevate", !.pc = "compute", !.rc = rc,
                              !.given = reason, !.runs = runs]
<1>1. /\ rc \in Config /\ Sound(rc)
      /\ \A x \in Contexts : Recorded(rc, x)
      /\ env[t] = Default =>
           /\ Foreign \in rc.ctxs <=> Foreign \in disk[Default].ctxs
           /\ Foreign \in rc.ctxs => "other" \in rc.users
  BY ReadOK
<1>2. rc.current \in rc.ctxs /\ Starts(t, cm)
  BY DEF Elevate
<1>3. /\ cm \in Command /\ cm.pc = "compute" /\ cm.op = "elevate"
      /\ cm.rc = rc /\ cm.multi = FALSE
  <2> HIDE DEF rc
  <2> QED BY <1>1, IdleOK DEF Command, Idle
<1>4. CommandOK(cm) /\ ForeignOK(env[t], cm)
  <2> HIDE DEF rc, cm
  <2> QED BY <1>1, <1>2, <1>3 DEF CommandOK, ForeignOK, Writing
<1>5. /\ cmd' = [cmd EXCEPT ![t] = cm] /\ left' \in 0..MaxCommands
      /\ UNCHANGED <<disk, env, now, lastUsed>>
  <2> HIDE DEF cm
  <2> QED BY <1>2, KubeconfigAssumption DEF Starts, IInv, TypeOK
<1> HIDE DEF cm
<1> QED BY <1>3, <1>4, <1>5, CommandStep

\* Stamping the current context of a command that chose its reasons.
LEMMA StampStep ==
    ASSUME IInv, NEW t \in Terminals, cmd[t].pc \in {"compute", "prompt"},
           NEW reasons \in SUBSET Reasons, NEW given \in Reasons \cup {None},
           UNCHANGED <<disk, env, now, lastUsed, left>>,
           cmd' = [cmd EXCEPT ![t] =
                     [cmd[t] EXCEPT !.pc = "saveReason", !.given = given,
                                    !.rc = StoreReasons(cmd[t].rc, reasons)]]
    PROVE  IInv'
<1> DEFINE rc  == cmd[t].rc
           new == StoreReasons(rc, reasons)
           cm  == [cmd[t] EXCEPT !.pc = "saveReason", !.given = given,
                                 !.rc = new]
<1>1. cmd[t] \in Command /\ rc \in Config /\ now \in 0..MaxTime
  BY DEF IInv, TypeOK, Command
<1>2. /\ Sound(rc) /\ rc.current \in rc.ctxs /\ rc.current \in Contexts
      /\ \A x \in Contexts : Recorded(rc, x)
      /\ cmd[t].op = "login" => /\ cmd[t].target \in Clusters
                                /\ rc.current = cmd[t].target
      /\ cmd[t].multi => cmd[t].op = "login"
  BY <1>1 DEF IInv, MemoryInv, CommandOK, Writing, Config
<1>3. /\ new \in Config
      /\ new.ctxs = rc.ctxs /\ new.users = rc.users
      /\ new.current = rc.current /\ new.impersonating = rc.impersonating
      /\ \A x \in Contexts \ {rc.current} : new.elev[x] = rc.elev[x]
  BY <1>1, <1>2, StoreReasonsFacts
<1>4. Sound(new) /\ \A x \in Contexts \ {new.current} : Recorded(new, x)
  <2> HIDE DEF rc, new
  <2> QED BY <1>2, <1>3 DEF Sound, Recorded
<1>5. /\ cm \in Command /\ cm.pc = "saveReason" /\ cm.op = cmd[t].op
      /\ cm.rc = new /\ cm.target = cmd[t].target /\ cm.multi = cmd[t].multi
  <2> HIDE DEF rc, new
  <2> QED BY <1>1, <1>3 DEF Command
<1>6. CommandOK(cm)
  <2> HIDE DEF rc, new, cm
  <2> QED BY <1>2, <1>3, <1>4, <1>5 DEF CommandOK, Writing
<1>7. ForeignOK(env[t], cm)
  <2>1. ForeignOK(env[t], cmd[t]) /\ Writing(cmd[t]) /\ Writing(cm)
    BY <1>5 DEF IInv, ForeignInv, Writing
  <2> HIDE DEF new, cm
  <2> QED BY <1>3, <1>5, <2>1 DEF ForeignOK
<1>8. cmd' = [cmd EXCEPT ![t] = cm] /\ left' \in 0..MaxCommands
  BY DEF IInv, TypeOK
<1> HIDE DEF cm
<1> QED BY <1>5, <1>6, <1>7, <1>8, CommandStep

\* The stored and the given reasons are put together and stamped in memory.
LEMMA ComputeReasonsStep ==
    ASSUME IInv, NEW t \in Terminals, ComputeReasons(t)
    PROVE  IInv'
<1> DEFINE rc      == cmd[t].rc
           reasons == StoredReasons(rc) \cup Given(cmd[t].given)
<1>1. cmd[t] \in Command /\ cmd[t].pc = "compute"
  BY DEF ComputeReasons, IInv, TypeOK
<1>2. CASE reasons = {}
  <2> DEFINE cm == [cmd[t] EXCEPT !.pc = "prompt"]
  <2>1. /\ cm \in Command /\ cm.pc = "prompt" /\ cm.op = cmd[t].op
        /\ cm.rc = cmd[t].rc /\ cm.target = cmd[t].target
        /\ cm.multi = cmd[t].multi
    BY <1>1 DEF Command
  <2>2. CommandOK(cm) /\ ForeignOK(env[t], cm)
    <3> HIDE DEF cm
    <3> QED BY <1>1, <2>1
         DEF IInv, MemoryInv, ForeignInv, CommandOK, ForeignOK, Writing
  <2>3. /\ cmd' = [cmd EXCEPT ![t] = cm] /\ left' \in 0..MaxCommands
        /\ UNCHANGED <<disk, env, now, lastUsed>>
    BY <1>2 DEF ComputeReasons, IInv, TypeOK
  <2> HIDE DEF cm
  <2> QED BY <2>1, <2>2, <2>3, CommandStep
<1>3. CASE reasons # {}
  <2>1. reasons \in SUBSET Reasons /\ cmd[t].given \in Reasons \cup {None}
    <3>1. rc \in Config /\ cmd[t].given \in Reasons \cup {None}
      BY <1>1 DEF Command
    <3>2. rc.current \in Contexts
      BY <1>1, <3>1 DEF IInv, MemoryInv, CommandOK, Config
    <3>3. StoredReasons(rc) \subseteq Reasons
      <4> HIDE DEF rc
      <4> QED BY <3>1, <3>2 DEF StoredReasons, Config, Elevation
    <3> QED BY <3>1, <3>3 DEF Given
  <2>2. /\ cmd' = [cmd EXCEPT ![t] =
                     [cmd[t] EXCEPT !.pc = "saveReason",
                                    !.given = cmd[t].given,
                                    !.rc = StoreReasons(rc, reasons)]]
        /\ UNCHANGED <<disk, env, now, lastUsed, left>>
    BY <1>1, <1>3 DEF ComputeReasons, Command
  <2> HIDE DEF reasons
  <2> QED BY <1>1, <2>1, <2>2, StampStep
<1> QED BY <1>2, <1>3

\* The same with the one reason the user typed.
LEMMA AnswerPromptStep ==
    ASSUME IInv, NEW t \in Terminals, NEW reason \in Reasons,
           AnswerPrompt(t, reason)
    PROVE  IInv'
<1>1. /\ cmd' = [cmd EXCEPT ![t] =
                   [cmd[t] EXCEPT !.pc = "saveReason", !.given = reason,
                                  !.rc = StoreReasons(cmd[t].rc, {reason})]]
      /\ UNCHANGED <<disk, env, now, lastUsed, left>>
      /\ cmd[t].pc = "prompt"
  BY DEF AnswerPrompt
<1> QED BY <1>1, StampStep

\* What was recorded stays so when contexts are used later than before.
LEMMA StaysRecorded ==
    ASSUME NEW rc \in Config, NEW x \in Contexts, NEW used, NEW later,
           used \in [Contexts -> [Reasons -> 0..MaxTime]],
           later \in [Contexts -> [Reasons -> 0..MaxTime]],
           \A r \in Reasons : used[x][r] <= later[x][r],
           \A r \in rc.elev[x].reasons : rc.elev[x].at <= used[x][r]
    PROVE  \A r \in rc.elev[x].reasons : rc.elev[x].at <= later[x][r]
<1>1. MaxTime \in Nat
  BY KubeconfigAssumption
<1>2. rc.elev[x].reasons \subseteq Reasons /\ rc.elev[x].at \in 0..MaxTime
  BY DEF Config, Elevation
<1> QED BY <1>1, <1>2

\* A command writes what it has in memory to file f, and goes on as c.
LEMMA WriteStep ==
    ASSUME IInv, NEW t \in Terminals, NEW f \in Files, NEW c \in Command,
           Writing(cmd[t]), f = Default => env[t] = Default,
           disk' = [disk EXCEPT ![f] = cmd[t].rc],
           cmd' = [cmd EXCEPT ![t] = c],
           env' \in [Terminals -> Files],
           \A u \in Terminals \ {t} : env'[u] = env[u],
           now' = now, left' = left,
           lastUsed' \in [Contexts -> [Reasons -> 0..MaxTime]],
           \A x \in Contexts, r \in Reasons : lastUsed[x][r] <= lastUsed'[x][r],
           \A x \in Contexts : \A r \in cmd[t].rc.elev[x].reasons :
              cmd[t].rc.elev[x].at <= lastUsed'[x][r],
           Writing(c) => c.rc = cmd[t].rc /\ env'[t] = env[t],
           c.pc \notin {"saveReason", "write"},
           c.pc \in {"compute", "prompt", "impersonate"} =>
              c.rc.current \in c.rc.ctxs,
           c.op = "login" => /\ Writing(c)
                             /\ c.target \in Clusters
                             /\ c.rc.current = c.target,
           c.multi => c.op = "login"
    PROVE  IInv'
<1> DEFINE rc == cmd[t].rc
<1>1. /\ rc \in Config /\ Sound(rc) /\ ForeignOK(env[t], cmd[t])
      /\ lastUsed \in [Contexts -> [Reasons -> 0..MaxTime]]
  BY DEF IInv, TypeOK, Command, MemoryInv, CommandOK, ForeignInv
<1>2. TypeOK'
  BY <1>1 DEF IInv, TypeOK
<1>3. \A g \in Files : disk'[g] = IF g = f THEN rc ELSE disk[g]
  BY DEF IInv, TypeOK
<1>4. \A u \in Terminals : cmd'[u] = IF u = t THEN c ELSE cmd[u]
  BY DEF IInv, TypeOK
<1>5. DiskInv'
  <2>1. ASSUME NEW g \in Files, NEW x \in Contexts, g # f
        PROVE  Recorded(disk[g], x)'
    <3>1. disk'[g] = disk[g] /\ disk[g] \in Config
      BY <1>3, <2>1 DEF IInv, TypeOK
    <3>2. \A r \in disk[g].elev[x].reasons :
             disk[g].elev[x].at <= lastUsed[x][r]
      BY DEF IInv, DiskInv, Recorded
    <3>3. \A r \in disk[g].elev[x].reasons :
             disk[g].elev[x].at <= lastUsed'[x][r]
      BY <1>1, <3>1, <3>2, StaysRecorded
    <3> QED BY <3>1, <3>3 DEF Recorded
  <2>2. ASSUME NEW g \in Files PROVE Sound(disk[g])'
    BY <1>1, <1>3 DEF IInv, DiskInv, Sound
  <2>3. ASSUME NEW x \in Contexts PROVE Recorded(disk[f], x)'
    BY <1>3 DEF Recorded
  <2> QED BY <2>1, <2>2, <2>3 DEF DiskInv
<1>6. MemoryInv'
  <2>1. CommandOK(cmd[t])'
    BY <1>1, <1>4 DEF CommandOK, Writing, Recorded, Sound
  <2>2. ASSUME NEW u \in Terminals, u # t PROVE CommandOK(cmd[u])'
    <3>1. cmd'[u] = cmd[u] /\ cmd[u].rc \in Config /\ CommandOK(cmd[u])
      BY <1>4, <2>2 DEF IInv, TypeOK, Command, MemoryInv
    <3>2. ASSUME NEW x \in Contexts, Recorded(cmd[u].rc, x)
          PROVE  Recorded(cmd[u].rc, x)'
      <4>1. \A r \in cmd[u].rc.elev[x].reasons :
               cmd[u].rc.elev[x].at <= lastUsed'[x][r]
        BY <1>1, <3>1, <3>2, StaysRecorded DEF Recorded
      <4> QED BY <3>1, <4>1 DEF Recorded
    <3> QED BY <3>1, <3>2 DEF CommandOK, Writing, Sound
  <2> QED BY <2>1, <2>2 DEF MemoryInv
<1>7. ForeignInv'
  <2>1. Default \in Files
    BY DEF Files
  <2>2. (Foreign \in disk'[Default].ctxs) <=> (Foreign \in disk[Default].ctxs)
    BY <1>1, <1>3, <2>1 DEF ForeignOK
  <2>3. Foreign \in disk'[Default].ctxs => "other" \in disk'[Default].users
    BY <1>1, <1>3, <2>1, <2>2 DEF ForeignOK, IInv, ForeignInv
  <2>4. ASSUME NEW u \in Terminals PROVE ForeignOK(env[u], cmd[u])'
    <3>1. CASE u = t
      BY <1>1, <1>4, <2>2, <3>1 DEF ForeignOK, Writing
    <3>2. CASE u # t
      BY <1>4, <2>2, <3>2 DEF IInv, ForeignInv, ForeignOK, Writing
    <3> QED BY <3>1, <3>2
  <2> QED BY <2>3, <2>4 DEF ForeignInv
<1> QED BY <1>2, <1>5, <1>6, <1>7 DEF IInv

\* Writing the stamped reasons records their use.
LEMMA SaveReasonsStep ==
    ASSUME IInv, NEW t \in Terminals, SaveReasons(t)
    PROVE  IInv'
<1> DEFINE rc == cmd[t].rc
           c  == IF cmd[t].op = "login" THEN [cmd[t] EXCEPT !.pc = "save"]
                 ELSE IF cmd[t].runs THEN [cmd[t] EXCEPT !.pc = "impersonate"]
                 ELSE Idle
<1>1. /\ cmd[t] \in Command /\ cmd[t].pc = "saveReason" /\ CommandOK(cmd[t])
      /\ rc \in Config /\ rc.current \in rc.ctxs /\ rc.current \in Contexts
      /\ lastUsed \in [Contexts -> [Reasons -> 0..MaxTime]]
      /\ env[t] \in Files /\ MaxTime \in Nat
  BY KubeconfigAssumption
  DEF SaveReasons, IInv, TypeOK, Command, Config, MemoryInv, CommandOK
<1>2. /\ rc.elev[rc.current].reasons \subseteq Reasons
      /\ rc.elev[rc.current].at \in 0..MaxTime
  <2> HIDE DEF rc
  <2> QED BY <1>1 DEF Config, Elevation
<1>3. /\ disk' = [disk EXCEPT ![env[t]] = rc] /\ env' = env
      /\ now' = now /\ left' = left
      /\ lastUsed' = [lastUsed EXCEPT ![rc.current] =
            [r \in Reasons |-> IF r \in rc.elev[rc.current].reasons
                                 THEN Later(lastUsed[rc.current][r],
                                            rc.elev[rc.current].at)
                                 ELSE lastUsed[rc.current][r]]]
  BY DEF SaveReasons
<1>4. /\ lastUsed' \in [Contexts -> [Reasons -> 0..MaxTime]]
      /\ \A x \in Contexts, r \in Reasons : lastUsed[x][r] <= lastUsed'[x][r]
      /\ \A r \in rc.elev[rc.current].reasons :
            rc.elev[rc.current].at <= lastUsed'[rc.current][r]
  <2> HIDE DEF rc
  <2> QED BY <1>1, <1>2, <1>3 DEF Later
<1>5. \A x \in Contexts : \A r \in rc.elev[x].reasons :
         rc.elev[x].at <= lastUsed'[x][r]
  <2>1. \A x \in Contexts \ {rc.current} : Recorded(rc, x)
    BY <1>1 DEF CommandOK, Writing
  <2> HIDE DEF rc
  <2>2. ASSUME NEW x \in Contexts \ {rc.current}
        PROVE  \A r \in rc.elev[x].reasons : rc.elev[x].at <= lastUsed'[x][r]
    BY <1>1, <1>4, <2>1, StaysRecorded DEF Recorded
  <2> QED BY <1>4, <2>2
<1>6. cmd' = [cmd EXCEPT ![t] = c]
  <2>1. CASE cmd[t].op = "login"
    BY <2>1 DEF SaveReasons
  <2>2. CASE cmd[t].op # "login" /\ cmd[t].runs
    BY <2>2 DEF SaveReasons
  <2>3. CASE cmd[t].op # "login" /\ ~cmd[t].runs
    BY <2>3 DEF SaveReasons
  <2> QED BY <1>1, <2>1, <2>2, <2>3 DEF Command
<1>7. /\ c \in Command
      /\ Writing(c) => c.rc = rc
      /\ c.pc \notin {"saveReason", "write"}
      /\ c.pc \in {"compute", "prompt", "impersonate"} =>
           c.rc.current \in c.rc.ctxs
      /\ c.op = "login" => /\ Writing(c)
                           /\ c.target \in Clusters
                           /\ c.rc.current = c.target
      /\ c.multi => c.op = "login"
  <2>1. CASE cmd[t].op = "login"
    <3>1. c = [cmd[t] EXCEPT !.pc = "save"]
      BY <2>1
    <3> QED BY <1>1, <2>1, <3>1 DEF Command, CommandOK, Writing
  <2>2. CASE cmd[t].op # "login" /\ cmd[t].runs
    <3>1. c = [cmd[t] EXCEPT !.pc = "impersonate"]
      BY <2>2
    <3> QED BY <1>1, <2>2, <3>1 DEF Command, CommandOK, Writing
  <2>3. CASE cmd[t].op # "login" /\ ~cmd[t].runs
    <3>1. c = Idle
      BY <2>3
    <3> QED BY <3>1, IdleOK DEF Idle, Writing
  <2> QED BY <1>1, <2>1, <2>2, <2>3 DEF Command
<1>8. Writing(cmd[t]) /\ (env[t] = Default => env[t] = Default)
  BY <1>1 DEF Writing
<1> HIDE DEF c
<1> QED BY <1>1, <1>3, <1>4, <1>5, <1>6, <1>7, <1>8, WriteStep DEF IInv, TypeOK

\* A login --multi empties the cluster's own file, which is not the default one,
\* and has what it read in memory still.
LEMMA CreateFileStep ==
    ASSUME IInv, NEW t \in Terminals, CreateFile(t)
    PROVE  IInv'
<1> DEFINE c == cmd[t].target
           cm == [cmd[t] EXCEPT !.pc = "write"]
<1>1. cmd[t] \in Command /\ CommandOK(cmd[t]) /\ cmd[t].pc = "save" /\ cmd[t].multi
  BY DEF CreateFile, IInv, TypeOK, MemoryInv
<1>2. /\ cm \in Command /\ cm.pc = "write" /\ cm.op = cmd[t].op /\ cm.rc = cmd[t].rc
      /\ cm.target = c /\ cm.multi = cmd[t].multi
  BY <1>1 DEF Command
<1>3. c \in Clusters /\ CommandOK(cm)
  <2> HIDE DEF cm
  <2> QED BY <1>1, <1>2 DEF CommandOK, Writing
<1>4. /\ disk' = [disk EXCEPT ![c] = EmptyConfig] /\ cmd' = [cmd EXCEPT ![t] = cm]
      /\ UNCHANGED <<env, now, lastUsed, left>>
      /\ c \in Files /\ c # Default /\ Default \in Files
  BY <1>3, KubeconfigAssumption DEF CreateFile, Files
<1> HIDE DEF c, cm
<1>5. TypeOK'
  BY <1>2, <1>4, EmptyConfigFacts DEF IInv, TypeOK
<1>6. /\ \A f \in Files : disk'[f] = EmptyConfig \/ disk'[f] = disk[f]
      /\ disk'[Default] = disk[Default]
      /\ \A u \in Terminals : cmd'[u] = IF u = t THEN cm ELSE cmd[u]
  BY <1>4 DEF IInv, TypeOK
<1>7. DiskInv'
  BY <1>4, <1>6, EmptyConfigFacts DEF IInv, DiskInv, Recorded
<1>8. MemoryInv'
  BY <1>3, <1>4, <1>6 DEF IInv, MemoryInv, CommandOK, Recorded
<1>9. ForeignInv'
  <2>1. ForeignOK(env[t], cm)
    BY <1>1, <1>2 DEF IInv, ForeignInv, ForeignOK, Writing
  <2> QED BY <1>4, <1>6, <2>1 DEF IInv, ForeignInv, ForeignOK
<1> QED BY <1>5, <1>7, <1>8, <1>9 DEF IInv

\* A login or logout writes its file, a login --multi the cluster's own.
LEMMA SaveKubeConfigStep ==
    ASSUME IInv, NEW t \in Terminals, SaveKubeConfig(t)
    PROVE  IInv'
<1> DEFINE f == IF cmd[t].multi THEN cmd[t].target ELSE env[t]
<1>1. /\ cmd[t] \in Command /\ cmd[t].pc \in {"save", "write"} /\ CommandOK(cmd[t])
      /\ cmd[t].rc \in Config
      /\ lastUsed \in [Contexts -> [Reasons -> 0..MaxTime]]
      /\ env \in [Terminals -> Files] /\ MaxTime \in Nat
  BY KubeconfigAssumption
  DEF SaveKubeConfig, IInv, TypeOK, Command, MemoryInv
<1>2. cmd[t].multi => cmd[t].target \in Clusters
  BY <1>1 DEF CommandOK
<1>3. f \in Files /\ (f = Default => env[t] = Default)
  BY <1>1, <1>2, KubeconfigAssumption DEF Files
<1>4. /\ disk' = [disk EXCEPT ![f] = cmd[t].rc]
      /\ env' \in [Terminals -> Files]
      /\ \A u \in Terminals \ {t} : env'[u] = env[u]
      /\ cmd' = [cmd EXCEPT ![t] = Idle]
      /\ now' = now /\ left' = left /\ lastUsed' = lastUsed
  BY <1>1, <1>2 DEF SaveKubeConfig, Files
<1>5. \A x \in Contexts : \A r \in cmd[t].rc.elev[x].reasons :
         cmd[t].rc.elev[x].at <= lastUsed'[x][r]
  BY <1>1, <1>4 DEF CommandOK, Writing, Recorded
<1>6. \A x \in Contexts, r \in Reasons : lastUsed[x][r] <= lastUsed'[x][r]
  BY <1>1, <1>4
<1>7. /\ Writing(cmd[t]) /\ Idle \in Command /\ ~Writing(Idle)
      /\ Idle.pc = "idle" /\ Idle.op = "none" /\ Idle.multi = FALSE
  BY <1>1, IdleOK DEF Writing, Idle
<1> HIDE DEF f
<1> QED BY <1>1, <1>3, <1>4, <1>5, <1>6, <1>7, WriteStep

\* From here on the configuration in memory impersonates, and is never written.
LEMMA ImpersonateStep ==
    ASSUME IInv, NEW t \in Terminals, Impersonate(t)
    PROVE  IInv'
<1> DEFINE rc == cmd[t].rc
           imp == rc.impersonating \cup {UserOf(rc.current)}
           cm  == [cmd[t] EXCEPT !.pc = "running",
                                 !.rc = [rc EXCEPT !.impersonating = imp]]
<1>1. cmd[t] \in Command /\ cmd[t].pc = "impersonate" /\ CommandOK(cmd[t])
      /\ rc \in Config
  BY DEF Impersonate, IInv, TypeOK, Command, MemoryInv
<1>2. [rc EXCEPT !.impersonating = imp] \in Config
  <2>1. imp \in SUBSET Users
    BY <1>1 DEF Config, UserOf, Users
  <2> HIDE DEF imp
  <2> QED BY <1>1, <2>1 DEF Config
<1>3. cm \in Command /\ cm.pc = "running" /\ cm.op = cmd[t].op
      /\ cm.multi = cmd[t].multi
  <2> HIDE DEF imp
  <2> QED BY <1>1, <1>2 DEF Command
<1>4. CommandOK(cm) /\ ForeignOK(env[t], cm)
  <2> HIDE DEF cm
  <2> QED BY <1>1, <1>3 DEF CommandOK, ForeignOK, Writing
<1>5. /\ cmd' = [cmd EXCEPT ![t] = cm] /\ left' \in 0..MaxCommands
      /\ UNCHANGED <<disk, env, now, lastUsed>>
  BY DEF Impersonate, IInv, TypeOK
<1> HIDE DEF cm
<1> QED BY <1>3, <1>4, <1>5, CommandStep

\* A command that ends, fails or is interrupted has nothing to write any more.
LEMMA EndStep ==
    ASSUME IInv, NEW t \in Terminals, OcEnds(t) \/ Abort(t)
    PROVE  IInv'
<1>1. /\ cmd' = [cmd EXCEPT ![t] = Idle] /\ left' \in 0..MaxCommands
      /\ UNCHANGED <<disk, env, now, lastUsed>>
  BY DEF OcEnds, Abort, IInv, TypeOK
<1> QED BY <1>1, IdleOK, CommandStep DEF ForeignOK

\* Every step of a command and of the clock keeps the invariant.
LEMMA NextIInv == IInv /\ [Next]_vars => IInv'
<1> SUFFICES ASSUME IInv, [Next]_vars PROVE IInv'
  OBVIOUS
<1>1. CASE Tick
  BY <1>1, KubeconfigAssumption
  DEF Tick, IInv, TypeOK, DiskInv, MemoryInv, ForeignInv, CommandOK, ForeignOK,
      Recorded
<1>2. CASE UNCHANGED vars
  BY <1>2
  DEF vars, IInv, TypeOK, DiskInv, MemoryInv, ForeignInv, CommandOK, ForeignOK,
      Recorded
<1> QED BY <1>1, <1>2, LoginStep, LogoutStep, LogoutClusterStep, ElevateStep,
           ComputeReasonsStep, AnswerPromptStep, SaveReasonsStep,
           CreateFileStep, SaveKubeConfigStep, ImpersonateStep, EndStep DEF Next

\* To the commands a monitoring proxy is nothing but a command less to run.
LEMMA MonitoringSteps ==
    ASSUME [MonitoringNext]_monitoringVars
    PROVE  \/ [Next]_vars
           \/ /\ UNCHANGED <<disk, env, cmd, now, lastUsed>>
              /\ left > 0 /\ left' = left - 1
<1>1. ASSUME NEW t \in Terminals,
             FindURL(t) \/ ValidateVersion(t) \/ ServeURL(t) \/ TestAndListen(t)
                \/ MonitoringEnds(t)
      PROVE  UNCHANGED vars
  BY <1>1 DEF FindURL, ValidateVersion, ServeURL, TestAndListen, MonitoringEnds, Reads, Skips
<1>2. CASE KubeconfigStep
  BY <1>2 DEF KubeconfigStep
<1>3. ASSUME NEW t \in Terminals, StartMonitoring(t)
      PROVE  /\ UNCHANGED <<disk, env, cmd, now, lastUsed>>
             /\ left > 0 /\ left' = left - 1
  BY <1>3 DEF StartMonitoring
<1>4. CASE UNCHANGED monitoringVars
  BY <1>4 DEF monitoringVars
<1> QED BY <1>1, <1>2, <1>3, <1>4 DEF MonitoringNext

\* The invariant holds in every reachable state.
LEMMA Invariance == MonitoringSpec => []IInv
<1>1. MonitoringInit => IInv
  BY InitIInv DEF MonitoringInit
<1>2. ASSUME IInv, [MonitoringNext]_monitoringVars PROVE IInv'
  <2>1. CASE [Next]_vars
    BY <1>2, <2>1, NextIInv
  <2>2. CASE /\ UNCHANGED <<disk, env, cmd, now, lastUsed>>
             /\ left > 0 /\ left' = left - 1
    <3>1. TypeOK'
      BY <1>2, <2>2, KubeconfigAssumption DEF IInv, TypeOK
    <3> QED BY <1>2, <2>2, <3>1
            DEF IInv, DiskInv, MemoryInv, ForeignInv, CommandOK, ForeignOK, Recorded
  <2> QED BY <1>2, <2>1, <2>2, MonitoringSteps
<1> QED BY <1>1, <1>2, PTL DEF MonitoringSpec

-----------------------------------------------------------------------------
(* The theorems *)

\* Type correctness, for every number of terminals, commands and ticks.
THEOREM TypeCorrect == MonitoringSpec => []TypeOK
<1>1. IInv => TypeOK
  BY DEF IInv
<1> QED BY <1>1, Invariance, PTL

\* However commands interleave, a file's current context is one it has
\* (logout.go:83-91, login.go:412-415).
THEOREM CurrentContextIsThere == MonitoringSpec => []CurrentContextExists
<1>1. IInv => CurrentContextExists
  BY DEF IInv, DiskInv, Sound, CurrentContextExists
<1> QED BY <1>1, Invariance, PTL

\* No file another command reads impersonates anybody (elevate.go:39-77).
THEOREM ImpersonationIsPrivate == MonitoringSpec => []NoImpersonationOnDisk
<1>1. IInv => NoImpersonationOnDisk
  BY DEF IInv, DiskInv, Sound, NoImpersonationOnDisk
<1> QED BY <1>1, Invariance, PTL

\* The four operations that write a kubeconfig file.
LEMMA Writers ==
    ASSUME Next
    PROVE  \/ disk' = disk
           \/ \E t \in Terminals : \/ SaveReasons(t) \/ CreateFile(t) \/ SaveKubeConfig(t)
                                  \/ \E c \in Clusters : LogoutCluster(t, c)
<1> QED BY DEF Next, Login, Logout, LogoutCluster, Elevate, Starts,
               ComputeReasons, AnswerPrompt, Impersonate, OcEnds, Abort, Tick

\* No sequence or interleaving of commands loses another tool's context or user
\* (logout.go:64-76).
THEOREM ForeignSurvives == MonitoringSpec => ForeignContextSurvives
<1>1. IInv /\ IInv' /\ [Next]_vars =>
        [(Foreign \in disk[Default].ctxs) =>
            /\ Foreign \in disk'[Default].ctxs
            /\ "other" \in disk'[Default].users]_vars
  <2> SUFFICES ASSUME IInv, IInv', Next, Foreign \in disk[Default].ctxs
               PROVE  Foreign \in disk'[Default].ctxs
    BY DEF IInv, ForeignInv
  <2>1. Default \in Files /\ disk \in [Files -> Config]
        /\ \A t \in Terminals : ForeignOK(env[t], cmd[t]) /\ CommandOK(cmd[t])
    BY DEF Files, IInv, TypeOK, ForeignInv, MemoryInv
  <2>2. CASE disk' = disk
    BY <2>2
  <2>3. ASSUME NEW t \in Terminals, SaveReasons(t)
        PROVE  Foreign \in disk'[Default].ctxs
    BY <2>1, <2>3 DEF SaveReasons, ForeignOK, Writing
  <2>4. ASSUME NEW t \in Terminals, SaveKubeConfig(t)
        PROVE  Foreign \in disk'[Default].ctxs
    BY <2>1, <2>4, KubeconfigAssumption
    DEF SaveKubeConfig, ForeignOK, CommandOK, Writing
  <2>5. ASSUME NEW t \in Terminals, NEW c \in Clusters, LogoutCluster(t, c)
        PROVE  Foreign \in disk'[Default].ctxs
    BY <2>1, <2>5, KubeconfigAssumption DEF LogoutCluster
  <2>6. ASSUME NEW t \in Terminals, CreateFile(t)
        PROVE  Foreign \in disk'[Default].ctxs
    BY <2>1, <2>6, KubeconfigAssumption DEF CreateFile, CommandOK
  <2> QED BY <2>2, <2>3, <2>4, <2>5, <2>6, Writers
<1>2. IInv /\ IInv' /\ [MonitoringNext]_monitoringVars =>
        [(Foreign \in disk[Default].ctxs) =>
            /\ Foreign \in disk'[Default].ctxs
            /\ "other" \in disk'[Default].users]_vars
  BY <1>1, MonitoringSteps DEF IInv, ForeignInv
<1> QED BY <1>2, Invariance, PTL DEF MonitoringSpec, ForeignContextSurvives

\* A terminal on a cluster's own kubeconfig is not switched to another cluster
\* by other terminals (login.go:412-428, kubeConfig.go:59-153).
THEOREM MultiIsolated == MonitoringSpec => MultiTerminalsAreIsolated
<1> DEFINE Isolated(t, u) ==
       LET c == env[t] IN
       (/\ env[u] # c /\ cmd'[u] # cmd[u]
        /\ c \in Clusters /\ disk[c].current = c)
           => disk'[c] = EmptyConfig \/ disk'[c].current = c
<1>1. IInv /\ [Next]_vars =>
        [\A t, u \in Terminals : Isolated(t, u)]_vars
  <2> SUFFICES ASSUME IInv, Next, NEW t \in Terminals, NEW u \in Terminals
               PROVE  Isolated(t, u)
    OBVIOUS
  <2>1. /\ disk \in [Files -> Config] /\ cmd \in [Terminals -> Command]
        /\ env \in [Terminals -> Files] /\ Clusters \subseteq Files
        /\ \A v \in Terminals : CommandOK(cmd[v])
    BY DEF IInv, TypeOK, MemoryInv, Files
  <2>2. CASE disk' = disk
    BY <2>2
  <2>3. ASSUME NEW v \in Terminals, SaveReasons(v) PROVE Isolated(t, u)
    <3>1. cmd'[u] # cmd[u] => u = v
      BY <2>1, <2>3 DEF SaveReasons
    <3>2. disk' = [disk EXCEPT ![env[v]] = cmd[v].rc]
      BY <2>3 DEF SaveReasons
    <3> QED BY <2>1, <3>1, <3>2
  <2>4. ASSUME NEW v \in Terminals, SaveKubeConfig(v) PROVE Isolated(t, u)
    <3>1. cmd'[u] # cmd[u] => u = v
      BY <2>1, <2>4 DEF SaveKubeConfig
    <3>2. CASE cmd[v].multi
      <4>1. /\ disk' = [disk EXCEPT ![cmd[v].target] = cmd[v].rc]
            /\ cmd[v].rc.current = cmd[v].target
        BY <2>1, <2>4, <3>2 DEF SaveKubeConfig, CommandOK
      <4> QED BY <2>1, <3>1, <4>1
    <3>3. CASE ~cmd[v].multi
      <4>1. disk' = [disk EXCEPT ![env[v]] = cmd[v].rc]
        BY <2>4, <3>3 DEF SaveKubeConfig
      <4> QED BY <2>1, <3>1, <4>1
    <3> QED BY <2>1, <3>2, <3>3 DEF Command
  <2>5. ASSUME NEW v \in Terminals, NEW c \in Clusters, LogoutCluster(v, c)
        PROVE  Isolated(t, u)
    BY <2>5 DEF LogoutCluster
  <2>6. ASSUME NEW v \in Terminals, CreateFile(v) PROVE Isolated(t, u)
    BY <2>1, <2>6 DEF CreateFile
  <2> QED BY <2>2, <2>3, <2>4, <2>5, <2>6, Writers
<1>2. IInv /\ [MonitoringNext]_monitoringVars =>
        [\A t, u \in Terminals : Isolated(t, u)]_vars
  BY <1>1, MonitoringSteps
<1> QED BY <1>2, Invariance, PTL DEF MonitoringSpec, MultiTerminalsAreIsolated

\* Every reason an elevation is run with was given now or last used for that
\* context within the retention time (kubeConfig.go:177-259).
THEOREM LiveReasons == MonitoringSpec => ElevatesOnlyWithLiveReasons
<1> DEFINE Live(t) ==
       (cmd[t].pc \in {"compute", "prompt"} /\ cmd'[t].pc = "saveReason") =>
          LET x == cmd[t].rc.current
              reasons == cmd'[t].rc.elev[x].reasons IN
          /\ reasons # {}
          /\ \A r \in reasons : \/ r = cmd'[t].given
                                 \/ now - lastUsed[x][r] <= Retention
<1>1. IInv /\ [Next]_vars => [\A t \in Terminals : Live(t)]_vars
  <2> SUFFICES ASSUME IInv, Next, NEW t \in Terminals,
                      cmd[t].pc \in {"compute", "prompt"},
                      cmd'[t].pc = "saveReason"
               PROVE  Live(t)
    OBVIOUS
  <2> DEFINE rc == cmd[t].rc
  <2>1. /\ cmd \in [Terminals -> Command] /\ cmd[t] \in Command
        /\ rc \in Config /\ rc.current \in Contexts /\ now \in 0..MaxTime
        /\ lastUsed \in [Contexts -> [Reasons -> 0..MaxTime]]
        /\ \A x \in Contexts : Recorded(rc, x)
    BY DEF IInv, TypeOK, Command, Config, MemoryInv, CommandOK, Writing
  <2>2. CASE ComputeReasons(t)
    <3> DEFINE reasons == StoredReasons(rc) \cup Given(cmd[t].given)
               new     == StoreReasons(rc, reasons)
    <3>1. reasons # {} /\ cmd'[t].rc = new /\ cmd'[t].given = cmd[t].given
      BY <2>1, <2>2 DEF ComputeReasons, Command
    <3>2. rc.elev[rc.current] \in Elevation
      BY <2>1 DEF Config
    <3>3. StoredReasons(rc) \subseteq Reasons
      BY <3>2 DEF StoredReasons, Elevation
    <3>4. reasons \in SUBSET Reasons
      BY <2>1, <3>3 DEF Given, Command
    <3>5. new.elev[rc.current].reasons = reasons
      <4> HIDE DEF rc, reasons
      <4> QED BY <2>1, <3>4, StoreReasonsFacts
    <3>6. ASSUME NEW r \in StoredReasons(rc)
          PROVE  now - lastUsed[rc.current][r] <= Retention
      <4>1. r \in rc.elev[rc.current].reasons
            /\ now - rc.elev[rc.current].at <= Retention
        BY <3>6 DEF StoredReasons
      <4>2. rc.elev[rc.current].at <= lastUsed[rc.current][r]
        BY <2>1, <4>1 DEF Recorded
      <4>3. r \in Reasons /\ rc.elev[rc.current].at \in 0..MaxTime
        BY <3>2, <4>1 DEF Elevation
      <4> HIDE DEF rc
      <4> QED BY <2>1, <4>1, <4>2, <4>3, KubeconfigAssumption
    <3> QED BY <3>1, <3>5, <3>6 DEF Given
  <2>3. ASSUME NEW reason \in Reasons, AnswerPrompt(t, reason) PROVE Live(t)
    <3>1. cmd'[t].rc = StoreReasons(rc, {reason}) /\ cmd'[t].given = reason
      BY <2>1, <2>3 DEF AnswerPrompt
    <3>2. StoreReasons(rc, {reason}).elev[rc.current].reasons = {reason}
      <4> HIDE DEF rc
      <4> QED BY <2>1, {reason} \in SUBSET Reasons, StoreReasonsFacts
    <3> QED BY <3>1, <3>2
  <2>4. ComputeReasons(t) \/ \E reason \in Reasons : AnswerPrompt(t, reason)
    <3>1. cmd'[t] # cmd[t] /\ cmd'[t] # Idle
      BY DEF Idle
    <3>2. ASSUME NEW u \in Terminals, NEW c, Starts(u, c) PROVE FALSE
      BY <2>1, <3>1, <3>2 DEF Starts
    <3>3. ASSUME NEW u \in Terminals, SaveReasons(u) PROVE FALSE
      BY <2>1, <3>1, <3>3 DEF SaveReasons
    <3>4. ASSUME NEW u \in Terminals,
                 SaveKubeConfig(u) \/ OcEnds(u) \/ Abort(u)
          PROVE  FALSE
      BY <2>1, <3>1, <3>4 DEF SaveKubeConfig, OcEnds, Abort
    <3>5. ASSUME NEW u \in Terminals, Impersonate(u) PROVE FALSE
      BY <2>1, <3>1, <3>5 DEF Impersonate
    <3>6. ASSUME NEW u \in Terminals, ComputeReasons(u) PROVE u = t
      BY <2>1, <3>1, <3>6 DEF ComputeReasons
    <3>7. ASSUME NEW u \in Terminals, NEW r \in Reasons, AnswerPrompt(u, r)
          PROVE  u = t
      BY <2>1, <3>1, <3>7 DEF AnswerPrompt
    <3>9. ASSUME NEW u \in Terminals, CreateFile(u) PROVE FALSE
      BY <2>1, <3>1, <3>9 DEF CreateFile
    <3>8. ~Tick /\ \A u \in Terminals, c \in Clusters : ~LogoutCluster(u, c)
      BY <3>1 DEF Tick, LogoutCluster
    <3> QED BY <3>2, <3>3, <3>4, <3>5, <3>6, <3>7, <3>8, <3>9
         DEF Next, Login, Logout, Elevate
  <2> QED BY <2>2, <2>3, <2>4
<1>2. IInv /\ [MonitoringNext]_monitoringVars =>
        [\A t \in Terminals : Live(t)]_vars
  BY <1>1, MonitoringSteps
<1> QED BY <1>2, Invariance, PTL DEF MonitoringSpec, ElevatesOnlyWithLiveReasons

-----------------------------------------------------------------------------
(* One terminal: what the refuted properties come down to *)

\* Every context of a configuration has its user; so has the other tool's.
KeepsUsers(rc) == \A x \in rc.ctxs : UserOf(x) \in rc.users
KeepsOther(rc) == Foreign \in rc.ctxs => "other" \in rc.users

\* No command deletes the other tool's user, and a login adds backplane's.
WithUsers(c) ==
    Writing(c) => KeepsOther(c.rc) /\ (c.op = "login" => KeepsUsers(c.rc))

UsersInv ==
    /\ \A f \in Files : KeepsOther(disk[f])
    /\ \A t \in Terminals : WithUsers(cmd[t])

\* What a command has in memory is its file, but for what it changed: the context
\* it is about, and for elevate only the reasons of that one, among which are all
\* those that still live, also after the user was asked for another.  A login
\* --multi may have emptied that file already.
Fresh(file, c) ==
    Writing(c) =>
      /\ c.op # "none"
      /\ c.op = "logout" => c.pc = "save" /\ c.rc.current = None
      /\ c.pc # "write" =>
           \A x \in c.rc.ctxs \ {c.rc.current} : c.rc.elev[x] = file.elev[x]
      /\ c.op = "elevate" =>
           LET stored == file.elev[c.rc.current]
               held   == c.rc.elev[c.rc.current]
               live   == now - stored.at <= Retention IN
           /\ c.pc \notin {"save", "write"}
           /\ c.rc.ctxs = file.ctxs /\ c.rc.users = file.users
           /\ c.pc \in {"compute", "prompt"} => held = stored
           /\ c.pc = "prompt" /\ live => stored.reasons = {}
           /\ c.pc = "saveReason" /\ live => stored.reasons \subseteq held.reasons

FreshInv == \A t \in Terminals : Fresh(disk[env[t]], cmd[t])

\* Context x's reasons in file f that still live are lost only with x, or to a
\* login to that very cluster, or to a login --multi, which replaces another file.
KeepsReasons(f, x) ==
    LET e == disk[f].elev[x] IN
    (/\ now - e.at <= Retention /\ x \in disk'[f].ctxs
     /\ \A u \in Terminals : cmd[u].op = "login" => ~cmd[u].multi /\ cmd[u].target # x)
        => e.reasons \subseteq disk'[f].elev[x].reasons

OnlyLoginDropsReasons ==
    [][\A f \in Files, x \in Contexts : KeepsReasons(f, x)]_vars

\* A file's contexts lose a user only to the logout of a terminal on that file.
TakenByLogout(f) ==
    KeepsUsers(disk[f]) /\ ~KeepsUsers(disk'[f])
        => \E u \in Terminals : cmd[u].op = "logout" /\ env[u] = f

OnlyLogoutTakesUsers == [][\A f \in Files : TakenByLogout(f)]_vars

\* Every terminal may write what it holds.
LEMMA UserFacts ==
    ASSUME NEW rc \in Config, KeepsOther(rc)
    PROVE  /\ \A x \in rc.ctxs : UserOf(x) \in rc.users \cup {"sre"}
           /\ "sre" \in rc.users => KeepsUsers(rc)
<1> QED BY DEF KeepsOther, KeepsUsers, UserOf

\* A step that only changes what terminal t's command has in memory.
LEMMA Remembered ==
    ASSUME IInv, UsersInv, NEW t \in Terminals, NEW c \in Command,
           cmd' = [cmd EXCEPT ![t] = c], UNCHANGED <<disk, env, now>>,
           WithUsers(c), Fresh(disk[env[t]], c)
    PROVE  UsersInv' /\ Fresh(disk[env[t]], cmd[t])'
<1>1. /\ cmd'[t] = c /\ disk'[env'[t]] = disk[env[t]]
      /\ \A u \in Terminals : cmd'[u] = c \/ cmd'[u] = cmd[u]
  BY DEF IInv, TypeOK
<1>2. UsersInv'
  BY <1>1 DEF UsersInv, WithUsers, Writing, KeepsOther, KeepsUsers
<1>3. Fresh(disk[env[t]], cmd[t])'
  BY <1>1 DEF Fresh, Writing
<1> QED BY <1>2, <1>3

\* A step that writes it to file f, after which only a login is not at its end.
LEMMA Written ==
    ASSUME IInv, UsersInv, NEW t \in Terminals, NEW c \in Command, NEW f \in Files,
           Writing(cmd[t]), disk' = [disk EXCEPT ![f] = cmd[t].rc],
           cmd' = [cmd EXCEPT ![t] = c],
           Writing(c) => /\ c.op = "login" /\ cmd[t].op = "login"
                         /\ c.rc = cmd[t].rc /\ f = env[t] /\ env' = env
    PROVE  UsersInv' /\ Fresh(disk[env[t]], cmd[t])'
<1>1. /\ cmd'[t] = c /\ disk'[f] = cmd[t].rc
      /\ \A u \in Terminals : cmd'[u] = c \/ cmd'[u] = cmd[u]
      /\ \A g \in Files : disk'[g] = cmd[t].rc \/ disk'[g] = disk[g]
  BY DEF IInv, TypeOK
<1>2. UsersInv'
  BY <1>1 DEF UsersInv, WithUsers, Writing, KeepsOther, KeepsUsers
<1>3. Fresh(disk[env[t]], cmd[t])'
  BY <1>1 DEF Fresh, Writing
<1> QED BY <1>2, <1>3

\* A command that begins has read its file, and has changed what it is about.
LEMMA BegunFresh ==
    ASSUME IInv, UsersInv, NEW t \in Terminals,
           \/ \E c \in Clusters, multi \in BOOLEAN, r \in Reasons \cup {None} :
                 Login(t, c, multi, r)
           \/ Logout(t)
           \/ \E r \in Reasons \cup {None}, runs \in BOOLEAN : Elevate(t, r, runs)
    PROVE  UsersInv' /\ Fresh(disk[env[t]], cmd[t])'
<1> DEFINE rc == disk[env[t]]
<1>1. rc \in Config /\ KeepsOther(rc)
  BY ReadOK DEF IInv, TypeOK, UsersInv
<1>2. ASSUME NEW c \in Clusters, NEW multi \in BOOLEAN,
             NEW r \in Reasons \cup {None}, Login(t, c, multi, r)
      PROVE  UsersInv' /\ Fresh(disk[env[t]], cmd[t])'
  <2> DEFINE new == PutCluster(rc, c)
             cm  == [op |-> "login", pc |-> IF r = None THEN "save" ELSE "compute",
                     rc |-> new, given |-> r, target |-> c,
                     multi |-> multi, runs |-> FALSE]
  <2>1. /\ new \in Config
        /\ new.ctxs = rc.ctxs \cup {c} /\ new.users = rc.users \cup {"sre"}
        /\ new.current = c
        /\ \A x \in Contexts \ {c} : new.elev[x] = rc.elev[x]
    BY <1>1, PutClusterFacts
  <2>2. /\ cm \in Command /\ cm.op = "login" /\ cm.rc = new
    <3> HIDE DEF new
    <3> QED BY <2>1 DEF Command
  <2>3. KeepsOther(new) /\ KeepsUsers(new)
    <3>1. KeepsOther(new)
      <4> HIDE DEF rc, new
      <4> QED BY <1>1, <2>1, KubeconfigAssumption DEF KeepsOther
    <3> HIDE DEF rc, new
    <3> QED BY <2>1, <3>1, UserFacts
  <2>4. Fresh(rc, cm)
    <3> HIDE DEF rc, new, cm
    <3> QED BY <2>1, <2>2 DEF Fresh, Config
  <2>5. cmd' = [cmd EXCEPT ![t] = cm] /\ UNCHANGED <<disk, env, now>>
    BY <1>2 DEF Login, Starts
  <2> HIDE DEF new, cm
  <2> QED BY <2>2, <2>3, <2>4, <2>5, Remembered DEF WithUsers
<1>3. CASE Logout(t)
  <2> DEFINE new == DropCurrent(rc)
             cm  == [Idle EXCEPT !.op = "logout", !.pc = "save", !.rc = new]
  <2>1. rc.current \in Clusters
    <3>1. rc.current \in rc.ctxs /\ rc.current # Foreign
      BY <1>3 DEF Logout
    <3> HIDE DEF rc
    <3> QED BY <1>1, <3>1 DEF Config, Contexts
  <2>2. /\ new \in Config
        /\ new.ctxs = rc.ctxs \ {rc.current} /\ new.users = rc.users \ {"sre"}
        /\ new.current = None
        /\ \A x \in Contexts \ {rc.current} : new.elev[x] = rc.elev[x]
    BY <1>1, <2>1, DropCurrentFacts
  <2>3. /\ cm \in Command /\ cm.op = "logout" /\ cm.pc = "save" /\ cm.rc = new
    <3> HIDE DEF new
    <3> QED BY <2>2, IdleOK DEF Command, Idle
  <2>4. KeepsOther(new)
    <3> HIDE DEF rc, new
    <3> QED BY <1>1, <2>2 DEF KeepsOther
  <2>5. Fresh(rc, cm)
    <3> HIDE DEF rc, new, cm
    <3> QED BY <1>1, <2>2, <2>3 DEF Fresh, Config
  <2>6. cmd' = [cmd EXCEPT ![t] = cm] /\ UNCHANGED <<disk, env, now>>
    BY <1>3 DEF Logout, Starts
  <2> HIDE DEF new, cm
  <2> QED BY <2>3, <2>4, <2>5, <2>6, Remembered DEF WithUsers
<1>4. ASSUME NEW r \in Reasons \cup {None}, NEW runs \in BOOLEAN, Elevate(t, r, runs)
      PROVE  UsersInv' /\ Fresh(disk[env[t]], cmd[t])'
  <2> DEFINE cm == [Idle EXCEPT !.op = "elevate", !.pc = "compute", !.rc = rc,
                                !.given = r, !.runs = runs]
  <2>1. cm \in Command /\ cm.op = "elevate" /\ cm.pc = "compute" /\ cm.rc = rc
    <3> HIDE DEF rc
    <3> QED BY <1>1, IdleOK DEF Command, Idle
  <2>2. Fresh(rc, cm) /\ WithUsers(cm)
    <3> HIDE DEF rc, cm
    <3> QED BY <1>1, <2>1 DEF Fresh, WithUsers
  <2>3. cmd' = [cmd EXCEPT ![t] = cm] /\ UNCHANGED <<disk, env, now>>
    BY <1>4 DEF Elevate, Starts
  <2> HIDE DEF cm
  <2> QED BY <2>1, <2>2, <2>3, Remembered
<1> QED BY <1>2, <1>3, <1>4

\* An elevation's reasons come on top of the stored ones that live.
LEMMA StampFresh ==
    ASSUME IInv, UsersInv, NEW t \in Terminals, Fresh(disk[env[t]], cmd[t]),
           cmd[t].pc \in {"compute", "prompt"},
           NEW reasons \in SUBSET Reasons, NEW given \in Reasons \cup {None},
           LET stored == disk[env[t]].elev[cmd[t].rc.current] IN
              (cmd[t].op = "elevate" /\ now - stored.at <= Retention)
                 => stored.reasons \subseteq reasons,
           UNCHANGED <<disk, env, now>>,
           cmd' = [cmd EXCEPT ![t] =
                     [cmd[t] EXCEPT !.pc = "saveReason", !.given = given,
                                    !.rc = StoreReasons(cmd[t].rc, reasons)]]
    PROVE  UsersInv' /\ Fresh(disk[env[t]], cmd[t])'
<1> DEFINE rc  == cmd[t].rc
           new == StoreReasons(rc, reasons)
           cm  == [cmd[t] EXCEPT !.pc = "saveReason", !.given = given, !.rc = new]
<1>1. cmd[t] \in Command /\ rc \in Config /\ now \in 0..MaxTime
  BY DEF IInv, TypeOK, Command
<1>2. rc.current \in rc.ctxs /\ rc.current \in Contexts /\ WithUsers(cmd[t])
  BY <1>1 DEF IInv, MemoryInv, CommandOK, Config, UsersInv
<1>3. /\ new \in Config
      /\ new.ctxs = rc.ctxs /\ new.users = rc.users /\ new.current = rc.current
      /\ new.elev[rc.current].reasons = reasons
      /\ \A x \in Contexts \ {rc.current} : new.elev[x] = rc.elev[x]
  BY <1>1, <1>2, StoreReasonsFacts
<1>4. cm \in Command /\ cm.pc = "saveReason" /\ cm.op = cmd[t].op /\ cm.rc = new
  <2> HIDE DEF rc, new
  <2> QED BY <1>1, <1>3 DEF Command
<1>5. WithUsers(cm)
  <2> HIDE DEF new, cm
  <2> QED BY <1>2, <1>3, <1>4 DEF WithUsers, Writing, KeepsOther, KeepsUsers
<1>6. Fresh(disk[env[t]], cm)
  <2>1. Writing(cmd[t]) /\ rc.ctxs \subseteq Contexts
    BY <1>1 DEF Writing, Config
  <2> HIDE DEF new, cm
  <2> QED BY <1>2, <1>3, <1>4, <2>1 DEF Fresh
<1>7. cmd' = [cmd EXCEPT ![t] = cm]
  OBVIOUS
<1> HIDE DEF cm
<1> QED BY <1>4, <1>5, <1>6, <1>7, Remembered

\* So with the reasons it was given, and with the one the user types.
LEMMA ReasonsFresh ==
    ASSUME IInv, UsersInv, NEW t \in Terminals, Fresh(disk[env[t]], cmd[t]),
           ComputeReasons(t) \/ \E r \in Reasons : AnswerPrompt(t, r)
    PROVE  UsersInv' /\ Fresh(disk[env[t]], cmd[t])'
<1> DEFINE rc      == cmd[t].rc
           reasons == StoredReasons(rc) \cup Given(cmd[t].given)
           stored  == disk[env[t]].elev[rc.current]
<1>1. cmd[t] \in Command /\ rc \in Config
  BY DEF IInv, TypeOK, Command
<1>2. CASE ComputeReasons(t) /\ reasons = {}
  <2> DEFINE cm == [cmd[t] EXCEPT !.pc = "prompt"]
  <2>1. cm \in Command /\ cm.pc = "prompt" /\ cm.op = cmd[t].op /\ cm.rc = rc
    BY <1>1 DEF Command
  <2>2. cmd[t].pc = "compute" /\ cmd' = [cmd EXCEPT ![t] = cm]
        /\ UNCHANGED <<disk, env, now>>
    BY <1>2 DEF ComputeReasons
  <2>3. now - rc.elev[rc.current].at <= Retention
           => rc.elev[rc.current].reasons = {}
    BY <1>2 DEF StoredReasons
  <2>4. WithUsers(cm) /\ Fresh(disk[env[t]], cm)
    <3>1. WithUsers(cmd[t])
      BY DEF UsersInv
    <3> HIDE DEF cm, rc
    <3> QED BY <2>1, <2>2, <2>3, <3>1 DEF rc, WithUsers, Fresh, Writing
  <2> HIDE DEF cm
  <2> QED BY <2>1, <2>2, <2>4, Remembered
<1>3. CASE ComputeReasons(t) /\ reasons # {}
  <2>1. cmd[t].pc = "compute" /\ cmd[t].given \in Reasons \cup {None}
    BY <1>1, <1>3 DEF ComputeReasons, Command
  <2>2. reasons \in SUBSET Reasons
    <3>1. rc.current \in Contexts
      BY <1>1, <2>1 DEF IInv, MemoryInv, CommandOK, Config
    <3>2. StoredReasons(rc) \subseteq Reasons
      <4> HIDE DEF rc
      <4> QED BY <1>1, <3>1 DEF StoredReasons, Config, Elevation
    <3> QED BY <2>1, <3>2 DEF Given
  <2>3. (cmd[t].op = "elevate" /\ now - stored.at <= Retention)
           => stored.reasons \subseteq reasons
    <3>1. cmd[t].op = "elevate" => rc.elev[rc.current] = stored
      BY <2>1 DEF Fresh, Writing
    <3>2. now - rc.elev[rc.current].at <= Retention
             => rc.elev[rc.current].reasons \subseteq reasons
      BY DEF StoredReasons
    <3> HIDE DEF rc, reasons, stored
    <3> QED BY <3>1, <3>2
  <2>4. /\ cmd' = [cmd EXCEPT ![t] =
                     [cmd[t] EXCEPT !.pc = "saveReason", !.given = cmd[t].given,
                                    !.rc = StoreReasons(rc, reasons)]]
        /\ UNCHANGED <<disk, env, now>>
    BY <1>1, <1>3 DEF ComputeReasons, Command
  <2> HIDE DEF reasons
  <2> QED BY <2>1, <2>2, <2>3, <2>4, StampFresh
<1>4. ASSUME NEW r \in Reasons, AnswerPrompt(t, r)
      PROVE  UsersInv' /\ Fresh(disk[env[t]], cmd[t])'
  <2>1. /\ cmd[t].pc = "prompt" /\ UNCHANGED <<disk, env, now>>
        /\ cmd' = [cmd EXCEPT ![t] =
                     [cmd[t] EXCEPT !.pc = "saveReason", !.given = r,
                                    !.rc = StoreReasons(cmd[t].rc, {r})]]
    BY <1>4 DEF AnswerPrompt
  <2>2. (cmd[t].op = "elevate" /\ now - stored.at <= Retention)
           => stored.reasons \subseteq {r}
    BY <2>1 DEF Fresh, Writing
  <2> QED BY <2>1, <2>2, {r} \in SUBSET Reasons, StampFresh
<1> QED BY <1>2, <1>3, <1>4

\* A command that wrote its file, failed or runs oc has nothing more to write,
\* but for the login that has saved its reason.
LEMMA WritesFresh ==
    ASSUME IInv, UsersInv, NEW t \in Terminals,
           \/ SaveReasons(t) \/ CreateFile(t) \/ SaveKubeConfig(t)
           \/ Impersonate(t) \/ OcEnds(t) \/ Abort(t)
    PROVE  UsersInv' /\ Fresh(disk[env[t]], cmd[t])'
<1>1. /\ cmd[t] \in Command /\ CommandOK(cmd[t]) /\ env[t] \in Files
      /\ Idle \in Command /\ ~Writing(Idle)
  BY IdleOK DEF IInv, TypeOK, MemoryInv
<1>2. CASE SaveReasons(t)
  <2> DEFINE c == IF cmd[t].op = "login" THEN [cmd[t] EXCEPT !.pc = "save"]
                  ELSE IF cmd[t].runs THEN [cmd[t] EXCEPT !.pc = "impersonate"]
                  ELSE Idle
  <2>1. /\ Writing(cmd[t]) /\ disk' = [disk EXCEPT ![env[t]] = cmd[t].rc]
        /\ cmd' = [cmd EXCEPT ![t] = c] /\ env' = env
    BY <1>1, <1>2 DEF SaveReasons, Writing
  <2>2. /\ c \in Command
        /\ Writing(c) => c.op = "login" /\ cmd[t].op = "login" /\ c.rc = cmd[t].rc
    <3>1. CASE cmd[t].op = "login"
      BY <1>1, <3>1 DEF Command
    <3>2. CASE cmd[t].op # "login" /\ cmd[t].runs
      BY <1>1, <3>2 DEF Command, Writing
    <3>3. CASE cmd[t].op # "login" /\ ~cmd[t].runs
      BY <1>1, <3>3
    <3> QED BY <1>1, <3>1, <3>2, <3>3 DEF Command
  <2> HIDE DEF c
  <2> QED BY <1>1, <2>1, <2>2, Written
<1>3. CASE SaveKubeConfig(t)
  <2> DEFINE f == IF cmd[t].multi THEN cmd[t].target ELSE env[t]
  <2>1. f \in Files
    BY <1>1 DEF CommandOK, Files
  <2>2. /\ Writing(cmd[t]) /\ disk' = [disk EXCEPT ![f] = cmd[t].rc]
        /\ cmd' = [cmd EXCEPT ![t] = Idle]
    BY <1>3 DEF SaveKubeConfig, Writing
  <2> HIDE DEF f
  <2> QED BY <1>1, <2>1, <2>2, Written
<1>4. CASE Impersonate(t) \/ OcEnds(t) \/ Abort(t)
  <2>1. ~Writing(cmd'[t]) /\ disk' = disk
        /\ \A u \in Terminals \ {t} : cmd'[u] = cmd[u]
    <3>1. CASE Impersonate(t)
      BY <1>1, <3>1 DEF Impersonate, IInv, TypeOK, Command, Writing
    <3>2. CASE OcEnds(t) \/ Abort(t)
      BY <1>1, <3>2 DEF OcEnds, Abort, IInv, TypeOK
    <3> QED BY <1>4, <3>1, <3>2
  <2>2. UsersInv'
    BY <2>1 DEF UsersInv, WithUsers, Writing, KeepsOther, KeepsUsers
  <2>3. Fresh(disk[env[t]], cmd[t])'
    BY <2>1 DEF Fresh, Writing
  <2> QED BY <2>2, <2>3
<1>5. CASE CreateFile(t)
  <2>1. /\ cmd[t].op = "login" /\ Writing(cmd[t])
        /\ cmd' = [cmd EXCEPT ![t] = [cmd[t] EXCEPT !.pc = "write"]]
        /\ disk' = [disk EXCEPT ![cmd[t].target] = EmptyConfig]
    BY <1>1, <1>5 DEF CreateFile, CommandOK, Writing
  <2>2. /\ cmd'[t].pc = "write" /\ cmd'[t].op = "login" /\ cmd'[t].rc = cmd[t].rc
        /\ \A u \in Terminals \ {t} : cmd'[u] = cmd[u]
        /\ \A f \in Files : disk'[f] = EmptyConfig \/ disk'[f] = disk[f]
    BY <1>1, <2>1 DEF IInv, TypeOK, Command
  <2>3. KeepsOther(EmptyConfig)
    BY EmptyConfigFacts DEF KeepsOther
  <2>4. UsersInv'
    BY <2>1, <2>2, <2>3 DEF UsersInv, WithUsers, Writing, KeepsOther, KeepsUsers
  <2>5. Fresh(disk[env[t]], cmd[t])'
    BY <2>2 DEF Fresh
  <2> QED BY <2>4, <2>5
<1> QED BY <1>2, <1>3, <1>4, <1>5

\* To log out of a named cluster is to empty its own file.
LEMMA EmptiedFresh ==
    ASSUME IInv, UsersInv, NEW t \in Terminals, NEW c \in Clusters, LogoutCluster(t, c)
    PROVE  UsersInv' /\ Fresh(disk[env[t]], cmd[t])'
<1>1. /\ cmd' = cmd /\ cmd[t].pc = "idle"
      /\ \A f \in Files : disk'[f] = EmptyConfig \/ disk'[f] = disk[f]
  BY DEF LogoutCluster, IInv, TypeOK
<1>2. KeepsOther(EmptyConfig)
  BY EmptyConfigFacts DEF KeepsOther
<1>3. UsersInv'
  BY <1>1, <1>2 DEF UsersInv, WithUsers, Writing, KeepsOther, KeepsUsers
<1>4. Fresh(disk[env[t]], cmd[t])'
  BY <1>1 DEF Fresh, Writing
<1> QED BY <1>3, <1>4

\* What lives later lived before.
LEMMA TickFresh ==
    ASSUME IInv, UsersInv, NEW t \in Terminals, Fresh(disk[env[t]], cmd[t]), Tick
    PROVE  UsersInv' /\ Fresh(disk[env[t]], cmd[t])'
<1>1. UNCHANGED <<disk, env, cmd>> /\ now \in Nat /\ now' = now + 1
  BY KubeconfigAssumption DEF Tick, IInv, TypeOK
<1>2. UsersInv'
  BY <1>1 DEF UsersInv, WithUsers, Writing, KeepsOther, KeepsUsers
<1>3. Fresh(disk[env[t]], cmd[t])'
  <2> SUFFICES ASSUME Writing(cmd[t]) PROVE Fresh(disk[env[t]], cmd[t])'
    BY <1>1 DEF Fresh, Writing
  <2> DEFINE stored == disk[env[t]].elev[cmd[t].rc.current]
  <2>1. cmd[t].op = "elevate" /\ now' - stored.at <= Retention
           => now - stored.at <= Retention
    <3> SUFFICES ASSUME cmd[t].op = "elevate"
                 PROVE  now' - stored.at <= Retention => now - stored.at <= Retention
      OBVIOUS
    <3>1. cmd[t].rc.current \in Contexts
      BY DEF Fresh, IInv, TypeOK, Command, Config, MemoryInv, CommandOK, Writing
    <3>2. stored.at \in 0..MaxTime
      BY <3>1 DEF IInv, TypeOK, Config, Elevation
    <3> HIDE DEF stored
    <3> QED BY <1>1, <3>2, KubeconfigAssumption
  <2> QED BY <1>1, <2>1 DEF Fresh, Writing
<1> QED BY <1>2, <1>3

\* Every step of Kubeconfig, if all others are by the same terminal.
LEMMA FreshStep ==
    ASSUME NEW t, Terminals = {t}, IInv, UsersInv, FreshInv, [Next]_vars
    PROVE  UsersInv' /\ FreshInv'
<1>1. t \in Terminals /\ Fresh(disk[env[t]], cmd[t])
  BY DEF FreshInv
<1>2. UsersInv' /\ Fresh(disk[env[t]], cmd[t])'
  <2>1. CASE UNCHANGED vars
    BY <1>1, <2>1 DEF vars, UsersInv, WithUsers, Fresh, Writing, KeepsOther, KeepsUsers
  <2>2. CASE Next
    BY <1>1, <2>2, BegunFresh, ReasonsFresh, WritesFresh, EmptiedFresh, TickFresh
    DEF Next
  <2> QED BY <2>1, <2>2
<1> QED BY <1>2 DEF FreshInv

\* It holds for a terminal that is alone, monitoring or not.
LEMMA FreshAlways ==
    ASSUME NEW t, Terminals = {t}
    PROVE  MonitoringSpec => [](UsersInv /\ FreshInv)
<1>1. MonitoringInit => UsersInv /\ FreshInv
  <2> SUFFICES ASSUME MonitoringInit PROVE UsersInv /\ FreshInv
    OBVIOUS
  <2>1. \A f \in Files : disk[f] \in {EmptyConfig, ForeignConfig}
    BY DEF MonitoringInit, Init
  <2>2. KeepsOther(EmptyConfig) /\ KeepsOther(ForeignConfig)
    BY EmptyConfigFacts, ForeignConfigFacts DEF KeepsOther
  <2>3. \A u \in Terminals : ~Writing(cmd[u])
    BY IdleOK DEF MonitoringInit, Init
  <2> QED BY <2>1, <2>2, <2>3 DEF UsersInv, WithUsers, FreshInv, Fresh
<1>2. IInv /\ UsersInv /\ FreshInv /\ [MonitoringNext]_monitoringVars
         => UsersInv' /\ FreshInv'
  <2>1. IInv /\ UsersInv /\ FreshInv /\ UNCHANGED <<disk, env, cmd, now>>
           => UsersInv' /\ FreshInv'
    BY DEF UsersInv, WithUsers, FreshInv, Fresh, Writing, KeepsOther, KeepsUsers
  <2> QED BY <2>1, FreshStep, MonitoringSteps
<1> QED BY <1>1, <1>2, Invariance, PTL DEF MonitoringSpec

\* Where ReasonsAreKept, which README.md:348 says and the code does not satisfy,
\* ends to hold: for a terminal alone, elevations and logouts lose no reason that
\* lives, and logins only those of their own cluster or with --multi
\* (kubeConfig.go:177-259, login.go:366-415).
THEOREM ReasonsKeptAlone ==
    ASSUME NEW t, Terminals = {t}
    PROVE  MonitoringSpec => OnlyLoginDropsReasons
<1>1. IInv /\ FreshInv /\ [Next]_vars =>
        [\A f \in Files, x \in Contexts : KeepsReasons(f, x)]_vars
  <2> SUFFICES ASSUME IInv, FreshInv, Next, NEW f \in Files, NEW x \in Contexts
               PROVE  KeepsReasons(f, x)
    OBVIOUS
  <2>1. CASE disk'[f] = disk[f]
    BY <2>1 DEF KeepsReasons
  <2>2. CASE SaveReasons(t) \/ SaveKubeConfig(t)
    <3> SUFFICES ASSUME disk'[f] # disk[f], x \in disk'[f].ctxs,
                        now - disk[f].elev[x].at <= Retention,
                        cmd[t].op = "login" => ~cmd[t].multi /\ cmd[t].target # x
                 PROVE  disk[f].elev[x].reasons \subseteq disk'[f].elev[x].reasons
      BY <2>1 DEF KeepsReasons
    <3>1. /\ Fresh(disk[env[t]], cmd[t]) /\ CommandOK(cmd[t]) /\ cmd[t] \in Command
          /\ Writing(cmd[t])
          /\ cmd[t].pc = "saveReason" \/ (cmd[t].pc = "save" /\ ~cmd[t].multi)
      <4>1. /\ Fresh(disk[env[t]], cmd[t]) /\ CommandOK(cmd[t]) /\ cmd[t] \in Command
            /\ cmd[t].multi => cmd[t].op = "login"
        BY DEF FreshInv, IInv, TypeOK, MemoryInv, CommandOK
      <4> QED BY <2>2, <4>1 DEF SaveReasons, SaveKubeConfig, Writing
    <3>3. disk' = [disk EXCEPT ![env[t]] = cmd[t].rc]
      BY <2>2, <3>1 DEF SaveReasons, SaveKubeConfig
    <3>4. f = env[t] /\ disk'[f] = cmd[t].rc
      BY <3>3 DEF IInv, TypeOK
    <3>5. CASE x # cmd[t].rc.current
      BY <3>1, <3>4, <3>5 DEF Fresh
    <3>6. CASE x = cmd[t].rc.current
      <4>1. cmd[t].op = "elevate"
        BY <3>1, <3>6, KubeconfigAssumption DEF CommandOK, Fresh, Command, Contexts
      <4> QED BY <3>1, <3>4, <3>6, <4>1 DEF Fresh
    <3> QED BY <3>5, <3>6
  <2>3. ASSUME NEW c \in Clusters, LogoutCluster(t, c) PROVE KeepsReasons(f, x)
    <3>1. disk'[f] = EmptyConfig \/ disk'[f] = disk[f]
      BY <2>3 DEF LogoutCluster, IInv, TypeOK
    <3> QED BY <2>1, <3>1, EmptyConfigFacts DEF KeepsReasons
  <2>4. CASE CreateFile(t)
    <3>1. disk'[f] = EmptyConfig \/ disk'[f] = disk[f]
      BY <2>4 DEF CreateFile, IInv, TypeOK
    <3> QED BY <2>1, <3>1, EmptyConfigFacts DEF KeepsReasons
  <2> QED BY <2>1, <2>2, <2>3, <2>4, Writers
<1>2. IInv /\ FreshInv /\ [MonitoringNext]_monitoringVars =>
        [\A f \in Files, x \in Contexts : KeepsReasons(f, x)]_vars
  <2>1. ASSUME UNCHANGED <<disk, env, cmd, now, lastUsed>>
        PROVE  \A f \in Files, x \in Contexts : KeepsReasons(f, x)
    BY <2>1 DEF KeepsReasons
  <2> QED BY <1>1, <2>1, MonitoringSteps
<1>3. MonitoringSpec => [](UsersInv /\ FreshInv)
  BY FreshAlways
<1> QED BY <1>2, <1>3, Invariance, PTL DEF MonitoringSpec, OnlyLoginDropsReasons

\* Where ContextsKeepTheirUser, which logout.go:21-23 says, ends to hold: for a
\* terminal alone, logins and elevations leave every context its user, whatever
\* they find.
THEOREM UsersKeptAlone ==
    ASSUME NEW t, Terminals = {t}
    PROVE  MonitoringSpec => OnlyLogoutTakesUsers
<1>1. IInv /\ UsersInv /\ FreshInv /\ [Next]_vars => [\A f \in Files : TakenByLogout(f)]_vars
  <2> SUFFICES ASSUME IInv, UsersInv, FreshInv, Next, NEW f \in Files PROVE TakenByLogout(f)
    OBVIOUS
  <2>1. CASE disk'[f] = disk[f]
    BY <2>1 DEF TakenByLogout
  <2>2. CASE SaveReasons(t) \/ SaveKubeConfig(t)
    <3> SUFFICES ASSUME disk'[f] # disk[f], KeepsUsers(disk[f]),
                        ~KeepsUsers(disk'[f])
                 PROVE  cmd[t].op = "logout" /\ env[t] = f
      BY <2>1 DEF TakenByLogout
    <3>1. /\ Fresh(disk[env[t]], cmd[t]) /\ CommandOK(cmd[t]) /\ cmd[t] \in Command
          /\ Writing(cmd[t]) /\ WithUsers(cmd[t])
      BY <2>2 DEF FreshInv, UsersInv, IInv, TypeOK, MemoryInv,
                  SaveReasons, SaveKubeConfig, Writing
    <3>2. disk'[f] = cmd[t].rc /\ (~cmd[t].multi => f = env[t])
      BY <2>2 DEF SaveReasons, SaveKubeConfig, IInv, TypeOK
    <3>3. cmd[t].op # "login"
      BY <3>1, <3>2 DEF WithUsers
    <3>4. f = env[t]
      BY <3>1, <3>2, <3>3 DEF CommandOK
    <3>5. cmd[t].op # "elevate"
      BY <3>1, <3>2, <3>4 DEF Fresh, KeepsUsers
    <3> QED BY <3>1, <3>3, <3>4, <3>5 DEF Fresh, Command
  <2>3. ASSUME NEW c \in Clusters, LogoutCluster(t, c) PROVE TakenByLogout(f)
    <3>1. disk'[f] = EmptyConfig \/ disk'[f] = disk[f]
      BY <2>3 DEF LogoutCluster, IInv, TypeOK
    <3>2. KeepsUsers(EmptyConfig)
      BY EmptyConfigFacts DEF KeepsUsers
    <3> QED BY <2>1, <3>1, <3>2 DEF TakenByLogout
  <2>4. CASE CreateFile(t)
    <3>1. disk'[f] = EmptyConfig \/ disk'[f] = disk[f]
      BY <2>4 DEF CreateFile, IInv, TypeOK
    <3>2. KeepsUsers(EmptyConfig)
      BY EmptyConfigFacts DEF KeepsUsers
    <3> QED BY <2>1, <3>1, <3>2 DEF TakenByLogout
  <2> QED BY <2>1, <2>2, <2>3, <2>4, Writers
<1>2. IInv /\ UsersInv /\ FreshInv /\ [MonitoringNext]_monitoringVars
         => [\A f \in Files : TakenByLogout(f)]_vars
  <2>1. ASSUME UNCHANGED <<disk, env, cmd, now, lastUsed>>
        PROVE  \A f \in Files : TakenByLogout(f)
    BY <2>1 DEF TakenByLogout
  <2> QED BY <1>1, <2>1, MonitoringSteps
<1>3. MonitoringSpec => [](UsersInv /\ FreshInv)
  BY FreshAlways
<1> QED BY <1>2, <1>3, Invariance, PTL DEF MonitoringSpec, OnlyLogoutTakesUsers

-----------------------------------------------------------------------------
(* Monitoring *)

\* A terminal at a monitoring proxy runs no command.  What works on a cluster's
\* own file alone finds that cluster for its current context, or none, for the
\* other terminals write there only to log in to that cluster or out of it.
ProxyOK(t) ==
    LET m == monitor[t] IN
    /\ m.step # "off" => cmd[t].pc = "idle"
    /\ m.undisturbed =>
          /\ m.step # "off"
          /\ env[t] \in Clusters
          /\ \A u \in Terminals \ {t} : env[u] # env[t]
          /\ disk[env[t]].current \in {env[t], None}
          /\ m.host = env[t]
          /\ m.step # "url" => m.url = env[t]
          /\ m.version \in {env[t], None} /\ m.version \notin Deprecated
          /\ m.domain \in {env[t], None}

Monitor == [step : {"off", "url", "version", "domain", "test", "serving"},
            host : Readings, url : Readings, version : Readings, domain : Readings,
            undisturbed : BOOLEAN]

MonitoringInv ==
    /\ IInv
    /\ monitor \in [Terminals -> Monitor]
    /\ \A t \in Terminals : ProxyOK(t)

\* What terminal t reads is a cluster or nothing; its own, if nobody else is there.
LEMMA HostFacts ==
    ASSUME IInv, NEW t \in Terminals
    PROVE  /\ HostOf(t) \in Readings
           /\ HostOf(t) # None => HostOf(t) = disk[env[t]].current
<1>1. disk[env[t]] \in Config
  BY DEF IInv, TypeOK
<1>2. disk[env[t]].ctxs \ {Foreign} \subseteq Clusters
  BY <1>1 DEF Config, Contexts
<1> QED BY <1>2 DEF HostOf, Readings

\* Steps of the proxies: what they read is noted.
LEMMA ProxyStep ==
    ASSUME MonitoringInv, NEW t \in Terminals, NEW m \in Monitor,
           monitor' = [monitor EXCEPT ![t] = m],
           UNCHANGED <<disk, env, cmd, now, lastUsed>>, IInv',
           m.step # "off" => cmd[t].pc = "idle",
           m.undisturbed =>
              /\ m.step # "off"
              /\ env[t] \in Clusters
              /\ \A u \in Terminals \ {t} : env[u] # env[t]
              /\ disk[env[t]].current \in {env[t], None}
              /\ m.host = env[t]
              /\ m.step # "url" => m.url = env[t]
              /\ m.version \in {env[t], None} /\ m.version \notin Deprecated
              /\ m.domain \in {env[t], None}
    PROVE  MonitoringInv'
<1>1. \A v \in Terminals : monitor'[v] = IF v = t THEN m ELSE monitor[v]
  BY DEF MonitoringInv
<1>2. monitor' \in [Terminals -> Monitor]
  BY DEF MonitoringInv
<1>3. \A v \in Terminals : ProxyOK(v)'
  BY <1>1 DEF MonitoringInv, ProxyOK
<1> QED BY <1>2, <1>3 DEF MonitoringInv

\* A reading of the URL, of the version or of the base domain.
LEMMA ReadsStep ==
    ASSUME MonitoringInv, IInv', NEW t \in Terminals,
           \/ Reads(t, "url", "version")
           \/ HostOf(t) \notin Deprecated /\ Reads(t, "version", "domain")
           \/ Reads(t, "domain", "test")
    PROVE  MonitoringInv'
<1> DEFINE h == HostOf(t)
           m == CASE monitor[t].step = "url" ->
                       [monitor[t] EXCEPT !.step = "version", !.url = h]
                  [] monitor[t].step = "version" ->
                       [monitor[t] EXCEPT !.step = "domain", !.version = h]
                  [] monitor[t].step = "domain" ->
                       [monitor[t] EXCEPT !.step = "test", !.domain = h]
<1>1. /\ h \in Readings /\ h # None /\ h = disk[env[t]].current
      /\ monitor[t] \in Monitor /\ ProxyOK(t)
  BY HostFacts DEF Reads, MonitoringInv
<1>2. /\ monitor[t].step \in {"url", "version", "domain"}
      /\ monitor[t].step = "version" => h \notin Deprecated
      /\ UNCHANGED vars
  BY DEF Reads
<1> HIDE DEF h
<1>3. monitor' = [monitor EXCEPT ![t] = m]
  <2>1. CASE Reads(t, "url", "version")
    BY <2>1 DEF Reads, h, MonitoringInv
  <2>2. CASE Reads(t, "version", "domain")
    BY <2>2 DEF Reads, h, MonitoringInv
  <2>3. CASE Reads(t, "domain", "test")
    BY <2>3 DEF Reads, h, MonitoringInv
  <2> QED BY <2>1, <2>2, <2>3
<1>4. /\ m \in Monitor /\ m.step # "off" /\ m.step # "url"
      /\ m.undisturbed = monitor[t].undisturbed /\ m.host = monitor[t].host
      /\ m.url = IF monitor[t].step = "url" THEN h ELSE monitor[t].url
      /\ m.version = IF monitor[t].step = "version" THEN h ELSE monitor[t].version
      /\ m.domain = IF monitor[t].step = "domain" THEN h ELSE monitor[t].domain
  <2>1. CASE monitor[t].step = "url"
    BY <1>1, <2>1 DEF Monitor
  <2>2. CASE monitor[t].step = "version"
    BY <1>1, <2>2 DEF Monitor
  <2>3. CASE monitor[t].step = "domain"
    BY <1>1, <2>3 DEF Monitor
  <2> QED BY <1>2, <2>1, <2>2, <2>3
<1> HIDE DEF m
<1>5. /\ UNCHANGED <<disk, env, cmd, now, lastUsed>>
      /\ cmd[t].pc = "idle"
  BY <1>1, <1>2 DEF vars, ProxyOK
<1>6. m.undisturbed =>
        /\ env[t] \in Clusters
        /\ \A u \in Terminals \ {t} : env[u] # env[t]
        /\ disk[env[t]].current \in {env[t], None}
        /\ m.host = env[t] /\ m.url = env[t]
        /\ m.version \in {env[t], None} /\ m.version \notin Deprecated
        /\ m.domain \in {env[t], None}
  BY <1>1, <1>2, <1>4 DEF ProxyOK
<1> QED BY <1>3, <1>4, <1>5, <1>6, ProxyStep

\* A step that reads nothing, or the end of a proxy.
LEMMA SkipsStep ==
    ASSUME MonitoringInv, IInv', NEW t \in Terminals,
           \/ Skips(t, "version", "domain") \/ Skips(t, "domain", "test")
           \/ Skips(t, "test", "serving") \/ MonitoringEnds(t)
    PROVE  MonitoringInv'
<1>1. monitor[t] \in Monitor /\ ProxyOK(t) /\ UNCHANGED <<disk, env, cmd, now, lastUsed>>
  BY DEF MonitoringInv, Skips, MonitoringEnds, vars
<1>2. Off \in Monitor /\ Off.step = "off" /\ Off.undisturbed = FALSE
  BY DEF Off, Monitor, Readings
<1>3. ASSUME NEW to \in {"domain", "test", "serving"},
             monitor[t].step \in {"version", "domain", "test"},
             monitor' = [monitor EXCEPT ![t].step = to]
      PROVE  MonitoringInv'
  <2> DEFINE m == [monitor[t] EXCEPT !.step = to]
  <2>1. /\ m \in Monitor /\ m.step = to /\ m.undisturbed = monitor[t].undisturbed
        /\ m.host = monitor[t].host /\ m.url = monitor[t].url
        /\ m.version = monitor[t].version /\ m.domain = monitor[t].domain
    BY <1>1, <1>3 DEF Monitor
  <2>2. monitor' = [monitor EXCEPT ![t] = m]
    BY <1>3 DEF MonitoringInv
  <2> HIDE DEF m
  <2>3. to # "off" /\ monitor[t].step # "off" /\ monitor[t].step # "url"
    BY <1>3
  <2>4. cmd[t].pc = "idle"
    BY <1>1, <2>3 DEF ProxyOK
  <2>5. m.undisturbed =>
          /\ env[t] \in Clusters
          /\ \A u \in Terminals \ {t} : env[u] # env[t]
          /\ disk[env[t]].current \in {env[t], None}
          /\ m.host = env[t] /\ m.url = env[t]
          /\ m.version \in {env[t], None} /\ m.version \notin Deprecated
          /\ m.domain \in {env[t], None}
    BY <1>1, <2>1, <2>3 DEF ProxyOK
  <2> QED BY <1>1, <2>1, <2>2, <2>3, <2>4, <2>5, ProxyStep
<1>4. CASE MonitoringEnds(t)
  BY <1>1, <1>2, <1>4, ProxyStep DEF MonitoringEnds
<1> QED BY <1>3, <1>4 DEF Skips

\* The first reading.
LEMMA StartMonitoringStep ==
    ASSUME MonitoringInv, IInv', NEW t \in Terminals, StartMonitoring(t)
    PROVE  MonitoringInv'
<1> DEFINE h == HostOf(t)
           alone == OnOwnFile(t, env) /\ h = env[t]
           m == [Off EXCEPT !.step = "url", !.host = h, !.undisturbed = alone]
<1>1. h \in Readings /\ h # None /\ h = disk[env[t]].current
  BY HostFacts DEF StartMonitoring, MonitoringInv
<1>2. alone \in BOOLEAN
  BY DEF OnOwnFile
<1>3. /\ monitor' = [monitor EXCEPT ![t] = m]
      /\ UNCHANGED <<disk, env, cmd, now, lastUsed>> /\ cmd[t].pc = "idle"
  BY DEF StartMonitoring
<1>4. alone => /\ env[t] \in Clusters /\ h = env[t]
               /\ \A u \in Terminals \ {t} : env[u] # env[t]
  BY DEF OnOwnFile
<1> HIDE DEF h, alone
<1>5. /\ m \in Monitor /\ m.step = "url" /\ m.undisturbed = alone
      /\ m.host = h /\ m.version = None /\ m.domain = None
  BY <1>1, <1>2 DEF Off, Monitor, Readings
<1>6. None \notin Deprecated
  BY MonitoringAssumption, KubeconfigAssumption
<1> HIDE DEF m
<1> QED BY <1>1, <1>3, <1>4, <1>5, <1>6, ProxyStep

\* The other terminals go on; nobody leads t's own file elsewhere.
LEMMA KubeconfigStepStep ==
    ASSUME MonitoringInv, IInv', KubeconfigStep
    PROVE  MonitoringInv'
<1>1. /\ Next
      /\ \A t \in Terminals : monitor[t].step # "off" => cmd'[t] = cmd[t]
      /\ monitor' = [t \in Terminals |->
            [monitor[t] EXCEPT !.undisturbed = @ /\ OnOwnFile(t, env')]]
  BY DEF KubeconfigStep
<1>2. monitor \in [Terminals -> Monitor] /\ \A t \in Terminals : ProxyOK(t)
  BY DEF MonitoringInv
<1>3. ASSUME NEW t \in Terminals
      PROVE  /\ monitor'[t] \in Monitor
             /\ monitor'[t].step = monitor[t].step /\ monitor'[t].host = monitor[t].host
             /\ monitor'[t].url = monitor[t].url /\ monitor'[t].version = monitor[t].version
             /\ monitor'[t].domain = monitor[t].domain
             /\ monitor'[t].undisturbed => monitor[t].undisturbed /\ OnOwnFile(t, env')
  <2> DEFINE alone == monitor[t].undisturbed /\ OnOwnFile(t, env')
  <2>1. alone \in BOOLEAN /\ (alone => monitor[t].undisturbed /\ OnOwnFile(t, env'))
    BY DEF OnOwnFile
  <2>2. monitor'[t] = [monitor[t] EXCEPT !.undisturbed = alone]
    BY <1>1
  <2>3. monitor[t] \in Monitor
    BY <1>2
  <2> HIDE DEF alone
  <2>4. monitor'[t].undisturbed = alone
    BY <2>2, <2>3 DEF Monitor
  <2> QED BY <2>1, <2>2, <2>3, <2>4 DEF Monitor
<1>4. ASSUME NEW t \in Terminals PROVE ProxyOK(t)'
  <2>1. CASE monitor'[t].undisturbed
    <3>1. /\ monitor[t].undisturbed /\ OnOwnFile(t, env') /\ ProxyOK(t)
          /\ monitor[t].step # "off"
      BY <1>2, <1>3, <2>1 DEF ProxyOK
    <3>2. /\ cmd[t].pc = "idle" /\ cmd'[t] = cmd[t] /\ env[t] \in Clusters
          /\ \A u \in Terminals \ {t} : env[u] # env[t]
          /\ disk[env[t]].current \in {env[t], None}
      BY <1>1, <3>1 DEF ProxyOK
    <3>3. /\ disk \in [Files -> Config] /\ env \in [Terminals -> Files]
          /\ cmd \in [Terminals -> Command] /\ Clusters \subseteq Files
          /\ \A u \in Terminals : CommandOK(cmd[u])
      BY DEF MonitoringInv, IInv, TypeOK, MemoryInv, Files
    <3>4. env'[t] = env[t] /\ disk'[env[t]].current \in {env[t], None}
      <4>1. CASE disk' = disk /\ env' = env
        BY <3>2, <4>1
      <4>2. ASSUME NEW u \in Terminals, SaveReasons(u)
            PROVE  env'[t] = env[t] /\ disk'[env[t]].current \in {env[t], None}
        <5>1. u # t /\ disk' = [disk EXCEPT ![env[u]] = cmd[u].rc] /\ env' = env
          BY <3>2, <4>2 DEF SaveReasons
        <5> QED BY <3>2, <3>3, <5>1
      <4>3. ASSUME NEW u \in Terminals, SaveKubeConfig(u)
            PROVE  env'[t] = env[t] /\ disk'[env[t]].current \in {env[t], None}
        <5>1. u # t
          BY <3>2, <4>3 DEF SaveKubeConfig
        <5>2. CASE cmd[u].multi
          <6>1. /\ disk' = [disk EXCEPT ![cmd[u].target] = cmd[u].rc]
                /\ env' \in {env, [env EXCEPT ![u] = cmd[u].target]}
                /\ cmd[u].rc.current = cmd[u].target
            BY <3>3, <4>3, <5>2 DEF SaveKubeConfig, CommandOK
          <6> QED BY <3>2, <3>3, <5>1, <6>1
        <5>3. CASE ~cmd[u].multi
          <6>1. disk' = [disk EXCEPT ![env[u]] = cmd[u].rc] /\ env' = env
            BY <4>3, <5>3 DEF SaveKubeConfig
          <6> QED BY <3>2, <3>3, <5>1, <6>1
        <5> QED BY <5>2, <5>3
      <4>4. ASSUME NEW u \in Terminals, NEW c \in Clusters, LogoutCluster(u, c)
            PROVE  env'[t] = env[t] /\ disk'[env[t]].current \in {env[t], None}
        <5>1. disk' = [disk EXCEPT ![c] = EmptyConfig] /\ env' = env
          BY <4>4 DEF LogoutCluster
        <5>2. EmptyConfig.current = None
          BY DEF EmptyConfig
        <5> QED BY <3>2, <3>3, <5>1, <5>2
      <4>6. ASSUME NEW u \in Terminals, CreateFile(u)
            PROVE  env'[t] = env[t] /\ disk'[env[t]].current \in {env[t], None}
        <5>1. disk' = [disk EXCEPT ![cmd[u].target] = EmptyConfig] /\ env' = env
          BY <4>6 DEF CreateFile
        <5>2. EmptyConfig.current = None
          BY DEF EmptyConfig
        <5> QED BY <3>2, <3>3, <5>1, <5>2
      <4>5. \/ disk' = disk /\ env' = env
            \/ \E u \in Terminals : \/ SaveReasons(u) \/ CreateFile(u) \/ SaveKubeConfig(u)
                                     \/ \E c \in Clusters : LogoutCluster(u, c)
        BY <1>1 DEF Next, Login, Logout, LogoutCluster, Elevate, Starts,
               ComputeReasons, AnswerPrompt, Impersonate, OcEnds, Abort, Tick
      <4> QED BY <4>1, <4>2, <4>3, <4>4, <4>5, <4>6
    <3> QED BY <1>3, <3>1, <3>2, <3>4 DEF ProxyOK, OnOwnFile
  <2>2. CASE ~monitor'[t].undisturbed
    BY <1>1, <1>2, <1>3, <2>2 DEF ProxyOK
  <2> QED BY <2>1, <2>2
<1>5. monitor' \in [Terminals -> Monitor]
  BY <1>1, <1>3
<1> QED BY <1>4, <1>5 DEF MonitoringInv

\* It always holds.
LEMMA MonitoringAlways == MonitoringSpec => []MonitoringInv
<1>1. MonitoringInit => MonitoringInv
  <2>1. Off \in Monitor /\ Off.step = "off" /\ Off.undisturbed = FALSE
    BY DEF Off, Monitor, Readings
  <2> QED BY <2>1, InitIInv DEF MonitoringInit, MonitoringInv, ProxyOK
<1>2. ASSUME MonitoringInv, IInv', [MonitoringNext]_monitoringVars PROVE MonitoringInv'
  <2>1. CASE UNCHANGED monitoringVars
    BY <1>2, <2>1 DEF monitoringVars, vars, MonitoringInv, ProxyOK
  <2> QED BY <1>2, <2>1, KubeconfigStepStep, StartMonitoringStep, ReadsStep, SkipsStep
          DEF MonitoringNext, FindURL, ValidateVersion, ServeURL, TestAndListen
<1> QED BY <1>1, <1>2, Invariance, PTL DEF MonitoringSpec

\* Type correctness with the monitoring proxies (monitoring.go:53-121).
THEOREM MonitoringTypeCorrect == MonitoringSpec => []MonitoringTypeOK
<1>1. MonitoringInv => MonitoringTypeOK
  BY DEF MonitoringInv, IInv, MonitoringTypeOK, Monitor
<1> QED BY <1>1, MonitoringAlways, PTL

\* On a cluster's own file the monitoring of that cluster is served and no other,
\* and all checks were of it, for any other terminals and commands
\* (monitoring.go:66, 212, 359, 311).
THEOREM MonitoringServes == MonitoringSpec => []ServesTheClusterItChecked
<1>1. MonitoringInv => ServesTheClusterItChecked
  BY DEF MonitoringInv, ProxyOK, ServesTheClusterItChecked
<1> QED BY <1>1, MonitoringAlways, PTL
=============================================================================
