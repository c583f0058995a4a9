---------------------------- MODULE RemoteProofs ----------------------------
(***************************************************************************)
(* Theorems about the commands that ask OCM and the backplane API, for any *)
(* clusters, names and look-up tables that satisfy OcmAssumption, and for  *)
(* any users, instances and scripts: type correctness, and the safety      *)
(* properties of LoginTarget, ManagedJob, Remediation and TestJob.         *)
(***************************************************************************)
EXTENDS Remote,
        FiniteSetTheorems, SequenceTheorems, TLAPS

-----------------------------------------------------------------------------
(* LoginTarget *)

\* The key has been found, and so have the cluster it stands for, ...
KeyFound    == phase \in {"target", "manager", "service", "awake", "login", "done"}
TargetFound == phase \in {"manager", "service", "awake", "login", "done"}

\* ... its manager, if asked for, and the cluster to log in to.
ManagerFound == phase \in {"service", "awake", "login", "done"}
IdFound      == phase \in {"awake", "login", "done"}

\* Each look-up starts from what the one before it found.  The cluster found at
\* last may have an empty id, until the login with it fails.
LoginInv ==
    /\ LoginTypeOK
    /\ KeyFound => key \in KeysGiven /\ key \in Keys
    /\ TargetFound => target \in Matches[key] /\ target \in Fleet
    /\ phase = "manager" => wanted.manager /\ id = target
    /\ phase = "service" =>
          /\ wanted.service
          /\ id \in Fleet /\ name \in Names
          /\ IF wanted.manager THEN IsManagerOf(id, name, target) ELSE id = target
    /\ ManagerFound /\ wanted.manager =>
          (namespaces = "hcp") = (target \in Hosted /\ ~unanswered)
    /\ IdFound /\ id # Nothing => IsAskedFor(id, name, target)
    /\ phase = "done" => id # Nothing

\* What GetManagingCluster returns is the manager of a hosted cluster, and a hive
\* otherwise; of a hosted cluster it is the hive only unanswered.  Where nobody
\* was prompted there is only one cluster of the manager's name, and OCM lists the
\* manager, so that one is the manager.
LEMMA ManagingClustersFacts ==
    ASSUME NEW c \in Fleet, NEW r \in ManagingClusters(c)
    PROVE  /\ r \in Manager
           /\ r.hosted = (c \in Hosted /\ ~r.unanswered)
           /\ r.unanswered => c \in Hosted
           /\ \E m \in IF r.hosted THEN {ManagerOf[c]} ELSE ShardOf[c] :
                 /\ r.name = NameOf[m]
                 /\ r.prompted \/ m \in Unlisted \/ r.id = m
<1>1. PICK answered \in BOOLEAN : \E m \in ManagersMeant(c, answered) :
         /\ r.hosted = (answered /\ c \in Hosted)
         /\ r.unanswered = (~answered /\ c \in Hosted)
         /\ r.name = NameOf[m]
         /\ r.id \in Matches[r.name]
         /\ r.prompted = (Matches[r.name] # {r.id})
  BY DEF ManagingClusters
<1>2. PICK m \in ManagersMeant(c, answered) :
         /\ r.hosted = (answered /\ c \in Hosted)
         /\ r.unanswered = (~answered /\ c \in Hosted)
         /\ r.name = NameOf[m]
         /\ r.id \in Matches[r.name]
         /\ r.prompted = (Matches[r.name] # {r.id})
  BY <1>1
<1>3. r \in Manager
  BY DEF ManagingClusters
<1>4. m \in IF r.hosted THEN {ManagerOf[c]} ELSE ShardOf[c]
  BY <1>2 DEF ManagersMeant
<1>5. m \in Fleet \cup Unlisted
  <2>1. CASE answered /\ c \in Hosted
    BY <1>2, <2>1, OcmAssumption DEF ManagersMeant
  <2>2. CASE ~(answered /\ c \in Hosted)
    BY <1>2, <2>2, OcmAssumption DEF ManagersMeant
  <2> QED BY <2>1, <2>2
<1>6. m \in Fleet => m \in Matches[r.name]
  BY <1>2, OcmAssumption
<1>7. r.prompted \/ m \in Unlisted \/ r.id = m
  BY <1>2, <1>5, <1>6
<1> QED BY <1>2, <1>3, <1>4, <1>7

\* What GetServiceCluster returns for a hosted cluster is its service cluster,
\* as far as names tell, unless OCM does not list it.
LEMMA ServiceClustersFacts ==
    ASSUME NEW c \in Hosted, NEW r \in ServiceClusters(c)
    PROVE  /\ r.id \in Fleet \cup {Nothing} /\ r.name \in Names \cup {Nothing}
           /\ r.id # Nothing => IsServiceOf(r.id, r.name, c)
<1>1. r.id \in Fleet \cup {Nothing} /\ r.name \in Names \cup {Nothing}
  BY DEF ServiceClusters
<1>2. PICK answered \in BOOLEAN : \E m \in ManagementMeant(c, answered) :
         \E s \in Parents(NameOf[m]) :
            /\ r.name = IF s = Nothing THEN Nothing ELSE NameOf[s]
            /\ LET listed == {x \in Fleet : NameOf[x] = r.name} IN
               IF listed = {} THEN r.id = Nothing ELSE r.id \in listed
  BY DEF ServiceClusters
<1>3. PICK m \in ManagementMeant(c, answered) : \E s \in Parents(NameOf[m]) :
         /\ r.name = IF s = Nothing THEN Nothing ELSE NameOf[s]
         /\ LET listed == {x \in Fleet : NameOf[x] = r.name} IN
            IF listed = {} THEN r.id = Nothing ELSE r.id \in listed
  BY <1>2
<1>4. PICK s \in Parents(NameOf[m]) :
         /\ r.name = IF s = Nothing THEN Nothing ELSE NameOf[s]
         /\ LET listed == {x \in Fleet : NameOf[x] = r.name} IN
            IF listed = {} THEN r.id = Nothing ELSE r.id \in listed
  BY <1>3
<1>5. m = ManagerOf[c] /\ m \in Fleet \cup Unlisted
  BY <1>3, OcmAssumption DEF ManagementMeant
<1> SUFFICES ASSUME r.id # Nothing PROVE IsServiceOf(r.id, r.name, c)
  BY <1>1
<1>6. r.id \in Fleet /\ NameOf[r.id] = r.name
  BY <1>4, <1>1
<1>7. s # Nothing
  <2> SUFFICES ASSUME s = Nothing PROVE FALSE
    OBVIOUS
  <2>1. NameOf[r.id] \in Names
    BY <1>6, OcmAssumption
  <2> QED BY <1>4, <1>6, <2>1, OcmAssumption
<1>8. PICK e \in Managers : NameOf[e] = NameOf[m] /\ s = ServiceOf[e]
  BY <1>4, <1>7 DEF Parents
<1>9. e \in Fleet \cup Unlisted /\ s \in Fleet \cup Unlisted
  BY <1>7, <1>8, OcmAssumption
<1>10. ASSUME Unique(m)
       PROVE  /\ m \in Managers /\ ServiceOf[m] # Nothing
              /\ r.name = NameOf[ServiceOf[m]]
              /\ Unique(ServiceOf[m]) => r.id = ServiceOf[m]
  <2>1. e = m
    BY <1>8, <1>9, <1>10 DEF Unique
  <2>2. m \in Managers /\ s = ServiceOf[m]
    BY <1>8, <2>1
  <2>3. r.name = NameOf[s]
    BY <1>4, <1>7
  <2>4. Unique(s) => r.id = s
    BY <1>6, <2>3 DEF Unique
  <2> QED BY <1>7, <2>2, <2>3, <2>4
<1> QED BY <1>5, <1>10 DEF IsServiceOf

\* It holds before the first look-up.
LEMMA LoginInitInv == LoginInit => LoginInv
<1> SUFFICES ASSUME LoginInit PROVE LoginInv
  OBVIOUS
<1>1. LoginTypeOK
  BY DEF LoginInit, LoginTypeOK
<1> QED BY <1>1 DEF LoginInit, LoginInv, KeyFound, TargetFound, ManagerFound, IdFound

\* The key is one of those given.
LEMMA FindKeyStep == LoginInv /\ FindKey => LoginInv'
<1> SUFFICES ASSUME LoginInv, FindKey PROVE LoginInv'
  OBVIOUS
<1>1. KeysGiven \subseteq Keys
  BY OcmAssumption DEF KeysGiven
<1>2. LoginTypeOK'
  BY <1>1 DEF LoginInv, LoginTypeOK, FindKey, Proceed, asked, history
<1>3. key' \in KeysGiven'
  BY DEF FindKey, Proceed, asked, KeysGiven
<1> QED
  BY <1>1, <1>2, <1>3 DEF LoginInv, FindKey, Proceed, asked, KeyFound, TargetFound, ManagerFound, IdFound

\* The target is a cluster of that key.
LEMMA FindTargetStep == LoginInv /\ FindTarget => LoginInv'
<1> SUFFICES ASSUME LoginInv, FindTarget PROVE LoginInv'
  OBVIOUS
<1>1. /\ phase = "target" /\ phase' = After("target")
      /\ source' = source /\ alerts' = alerts /\ wanted' = wanted
      /\ target' \in Matches[key] /\ id' = target' /\ name' = NameOf[target']
      /\ key' = key /\ namespaces' = namespaces /\ refused' = refused
      /\ prompted' = prompted /\ unanswered' = unanswered
  BY DEF FindTarget, Proceed, asked, history
<1>2. key \in KeysGiven /\ key \in Keys
  BY <1>1 DEF LoginInv, KeyFound
<1>3. target' \in Fleet /\ name' \in Names
  BY <1>1, <1>2, OcmAssumption
<1>4. phase' \in {"manager", "service", "awake"}
  BY <1>1 DEF After
<1>5. LoginTypeOK'
  BY <1>1, <1>3, <1>4 DEF LoginInv, LoginTypeOK
<1>6. key' \in KeysGiven'
  BY <1>1, <1>2 DEF KeysGiven
<1>7. /\ phase' = "manager" => wanted.manager
      /\ phase' = "service" => wanted.service /\ ~wanted.manager
      /\ phase' = "awake" => ~wanted.service /\ ~wanted.manager
  BY <1>1 DEF After, LoginInv, LoginTypeOK
<1>8. phase' = "awake" => IsAskedFor(id, name, target)'
  BY <1>1, <1>7 DEF IsAskedFor
<1> QED
  BY <1>1, <1>2, <1>3, <1>4, <1>5, <1>6, <1>7, <1>8
  DEF LoginInv, TargetFound, ManagerFound, IdFound

\* The manager is the target's.
LEMMA FindManagerStep == LoginInv /\ FindManager => LoginInv'
<1> SUFFICES ASSUME LoginInv, FindManager PROVE LoginInv'
  OBVIOUS
<1>1. /\ phase = "manager" /\ phase' = After("manager")
      /\ source' = source /\ alerts' = alerts /\ wanted' = wanted
      /\ target' = target /\ key' = key /\ refused' = refused
  BY DEF FindManager, Proceed, asked
<1>2. /\ key \in KeysGiven /\ key \in Keys /\ target \in Matches[key] /\ target \in Fleet
      /\ wanted.manager /\ id = target
  BY <1>1 DEF LoginInv, KeyFound, TargetFound
<1>3. PICK r \in ManagingClusters(id) :
         /\ id' = r.id /\ name' = r.name
         /\ namespaces' = IF r.hosted THEN "hcp" ELSE "hive"
         /\ prompted' = r.prompted /\ unanswered' = r.unanswered
  BY DEF FindManager
<1>4. /\ r \in Manager
      /\ r.hosted = (target \in Hosted /\ ~r.unanswered)
      /\ \E m \in IF r.hosted THEN {ManagerOf[target]} ELSE ShardOf[target] :
            /\ r.name = NameOf[m]
            /\ r.prompted \/ m \in Unlisted \/ r.id = m
  BY <1>2, <1>3, ManagingClustersFacts
<1>5. /\ id' \in Fleet /\ name' \in Names
      /\ prompted' \in BOOLEAN /\ unanswered' \in BOOLEAN
      /\ (namespaces' = "hcp") = r.hosted
  BY <1>3, <1>4 DEF Manager
<1>6. phase' \in {"service", "awake"}
  BY <1>1 DEF After
<1>7. phase' = "awake" => ~wanted.service
  BY <1>1 DEF After, LoginInv, LoginTypeOK
<1>8. LoginTypeOK'
  <2>1. namespaces' \in {"none", "hive", "hcp"}
    BY <1>3
  <2> QED BY <1>1, <1>5, <1>6, <2>1 DEF LoginInv, LoginTypeOK
<1>9. key' \in KeysGiven'
  BY <1>1, <1>2 DEF KeysGiven
<1>10. IsManagerOf(id, name, target)'
  <2>1. PICK m \in IF r.hosted THEN {ManagerOf[target]} ELSE ShardOf[target] :
           name' = NameOf[m] /\ (prompted' \/ m \in Unlisted \/ id' = m)
    BY <1>3, <1>4
  <2>2. Found(id, name, m)'
    BY <2>1 DEF Found
  <2>3. CASE r.hosted
    BY <1>1, <1>4, <1>5, <2>1, <2>2, <2>3 DEF IsManagerOf
  <2>4. CASE ~r.hosted
    BY <1>1, <1>5, <2>1, <2>2, <2>4 DEF IsManagerOf
  <2> QED BY <2>3, <2>4
<1>11. phase' = "awake" => IsAskedFor(id, name, target)'
  BY <1>1, <1>2, <1>7, <1>10 DEF IsAskedFor
<1>12. (namespaces' = "hcp") = (target \in Hosted /\ ~unanswered')
  BY <1>3, <1>4, <1>5
<1>13. phase' = "service" => wanted.service
  BY <1>1 DEF After
<1> QED
  BY <1>1, <1>2, <1>5, <1>6, <1>8, <1>9, <1>10, <1>11, <1>12, <1>13
  DEF LoginInv, TargetFound, ManagerFound, IdFound

\* The service cluster is that of the target, or of its manager; one that is
\* gone on with is of a hosted cluster.
LEMMA FindServiceStep == LoginInv /\ FindService => LoginInv'
<1> SUFFICES ASSUME LoginInv, FindService PROVE LoginInv'
  OBVIOUS
<1>1. PICK m \in ManagingClusters(id), r \in ServiceClusters(id) :
         /\ phase = "service" /\ phase' = IF m.hosted THEN "awake" ELSE "failed"
         /\ source' = source /\ alerts' = alerts /\ wanted' = wanted
         /\ id' = r.id /\ name' = r.name /\ refused' = ~m.hosted
         /\ target' = target /\ key' = key /\ namespaces' = namespaces
         /\ prompted' = prompted /\ unanswered' = (unanswered \/ m.unanswered)
  BY DEF FindService, Proceed, asked
<1>2. /\ key \in KeysGiven /\ key \in Keys /\ target \in Matches[key] /\ target \in Fleet
      /\ wanted.service /\ id \in Fleet /\ name \in Names
      /\ IF wanted.manager THEN IsManagerOf(id, name, target) ELSE id = target
      /\ wanted.manager => (namespaces = "hcp") = (target \in Hosted /\ ~unanswered)
      /\ unanswered \in BOOLEAN /\ prompted \in BOOLEAN
  BY <1>1 DEF LoginInv, LoginTypeOK, KeyFound, TargetFound, ManagerFound
<1>3. /\ m.hosted => id \in Hosted /\ ~m.unanswered
      /\ m.unanswered \in BOOLEAN
  BY <1>2, ManagingClustersFacts DEF Manager
<1>4. phase' = "awake" => unanswered' = unanswered
  BY <1>1, <1>2, <1>3
<1>5. id' \in Fleet \cup {Nothing} /\ name' \in Names \cup {Nothing}
  BY <1>1 DEF ServiceClusters
<1>6. LoginTypeOK'
  BY <1>1, <1>2, <1>3, <1>5 DEF LoginInv, LoginTypeOK
<1>7. key' \in KeysGiven'
  BY <1>1, <1>2 DEF KeysGiven
<1>8. ASSUME phase' = "awake", id' # Nothing PROVE IsAskedFor(id, name, target)'
  <2>1. id \in Hosted
    BY <1>1, <1>3, <1>8
  <2>2. IsServiceOf(id', name', id)
    BY <1>1, <1>8, <2>1, ServiceClustersFacts
  <2>3. \A x, n : IsManagerOf(x, n, target) => IsManagerOf(x, n, target)'
    BY <1>1 DEF IsManagerOf, Found
  <2> QED BY <1>1, <1>2, <2>2, <2>3 DEF IsAskedFor, IsServiceOf, IsManagerOf, Found
<1> QED
  BY <1>1, <1>2, <1>6, <1>7, <1>8, <1>4
  DEF LoginInv, KeyFound, TargetFound, ManagerFound, IdFound

\* The other steps look nothing up, and the last one refuses an empty id.
LEMMA OtherLoginSteps ==
    ASSUME LoginInv,
           \/ PagerDutyUnreachable \/ CheckHibernation \/ LoginCluster \/ LoginFails
           \/ UNCHANGED loginVars
    PROVE  LoginInv'
<1>1. /\ source' = source /\ alerts' = alerts /\ wanted' = wanted
      /\ key' = key /\ target' = target /\ id' = id /\ name' = name
      /\ namespaces' = namespaces /\ refused' = refused
      /\ prompted' = prompted /\ unanswered' = unanswered
  BY DEF PagerDutyUnreachable, CheckHibernation, LoginCluster, LoginFails, Proceed,
         loginVars, asked, history
<1>2. \/ phase' \in {"crashed", "failed"}
      \/ phase = "awake" /\ phase' = "login"
      \/ phase = "login" /\ phase' = "done" /\ id # Nothing
      \/ phase' = phase
  BY DEF PagerDutyUnreachable, CheckHibernation, LoginCluster, LoginFails, Proceed,
         loginVars
<1>3. LoginTypeOK'
  BY <1>1, <1>2 DEF LoginInv, LoginTypeOK
<1>4. /\ KeysGiven' = KeysGiven
      /\ IsAskedFor(id, name, target)' = IsAskedFor(id, name, target)
      /\ IsManagerOf(id, name, target)' = IsManagerOf(id, name, target)
  BY <1>1 DEF KeysGiven, IsAskedFor, IsManagerOf, Found
<1> QED
  BY <1>1, <1>2, <1>3, <1>4 DEF LoginInv, KeyFound, TargetFound, ManagerFound, IdFound

\* Every step preserves it.
LEMMA LoginNextInv == LoginInv /\ [LoginNext]_loginVars => LoginInv'
<1> QED BY FindKeyStep, FindTargetStep, FindManagerStep, FindServiceStep, OtherLoginSteps
        DEF LoginNext

\* It always holds.
LEMMA LoginAlways == LoginSpec => []LoginInv
<1> QED BY LoginInitInv, LoginNextInv, PTL DEF LoginSpec

\* Type correctness of login, whatever OCM knows (login.go:147-360).
THEOREM LoginTypeCorrect == LoginSpec => []LoginTypeOK
<1>1. LoginInv => LoginTypeOK
  BY DEF LoginInv
<1> QED BY <1>1, LoginAlways, PTL

\* All alerts of the incident stand for the key.
LEMMA AlertsAgree ==
    ASSUME source = "pagerduty" \/ alerts = <<>>, key \in KeysGiven, NEW i \in DOMAIN alerts
    PROVE  alerts[i] = key
<1>1. source = "pagerduty"
  OBVIOUS
<1> QED BY <1>1 DEF KeysGiven

\* A login lands where it was asked to, for any clusters, hives, managers and
\* names, shared ones too, and any answers
\* (login.go:217-289, ocm.go:185-298).
THEOREM LoginLands == LoginSpec => []LandsWhereAsked
<1> DEFINE Asked == source = "pagerduty" \/ alerts = <<>>
<1>1. LoginInit => Asked
  BY DEF LoginInit
<1>2. Asked /\ [LoginNext]_loginVars => Asked'
  BY DEF LoginNext, FindKey, PagerDutyUnreachable, FindTarget, FindManager, FindService,
         CheckHibernation, LoginCluster, LoginFails, Proceed, loginVars, asked
<1>3. LoginSpec => []Asked
  BY <1>1, <1>2, PTL DEF LoginSpec
<1>4. LoginInv /\ Asked => LandsWhereAsked
  <2> SUFFICES ASSUME LoginInv, Asked, phase = "done" PROVE LandsWhereAsked
    BY DEF LandsWhereAsked
  <2>1. /\ key \in KeysGiven /\ target \in Matches[key] /\ id # Nothing
        /\ IsAskedFor(id, name, target)
        /\ wanted.manager => (namespaces = "hcp") = (target \in Hosted /\ ~unanswered)
    BY DEF LoginInv, KeyFound, TargetFound, ManagerFound, IdFound
  <2>2. \A i \in DOMAIN alerts : target \in Matches[alerts[i]]
    BY <2>1, AlertsAgree
  <2> QED BY <2>1, <2>2 DEF LandsWhereAsked
<1> QED BY <1>3, <1>4, LoginAlways, PTL

\* The code refuses --service for what it finds last, and the refusal says of a
\* cluster that it is not hosted: of a hosted one only when OCM would not say.
RefusesOnlyUnhosted ==
    refused /\ ~wanted.manager => target \notin Hosted \/ unanswered

\* How far ServesManagementClusters, which the code does not satisfy, is from the
\* truth: the command refuses clusters for not being hosted themselves, and a
\* hosted one only after a Hypershift request that was not answered
\* (login.go:275-289, ocm.go:200-206).
THEOREM OnlyUnhostedAreRefused == LoginSpec => []RefusesOnlyUnhosted
<1> DEFINE Refusals == RefusesOnlyUnhosted /\ (refused => phase = "failed")
<1>1. LoginInit => Refusals
  BY DEF LoginInit, RefusesOnlyUnhosted
<1>2. LoginInv /\ Refusals /\ [LoginNext]_loginVars => Refusals'
  <2> SUFFICES ASSUME LoginInv, Refusals, [LoginNext]_loginVars PROVE Refusals'
    OBVIOUS
  <2>1. CASE FindService
    <3>1. PICK m \in ManagingClusters(id) :
            /\ refused' = ~m.hosted /\ unanswered' = (unanswered \/ m.unanswered)
            /\ phase' = IF m.hosted THEN "awake" ELSE "failed"
      BY <2>1 DEF FindService, Proceed
    <3>2. ~wanted.manager => id = target /\ target \in Fleet
      BY <2>1 DEF FindService, LoginInv, TargetFound
    <3>3. target' = target /\ wanted' = wanted
      BY <2>1 DEF FindService, Proceed, asked
    <3>4. ~wanted.manager /\ ~m.hosted => target \notin Hosted \/ m.unanswered
      BY <3>1, <3>2, ManagingClustersFacts DEF Manager
    <3>5. CASE m.hosted
      BY <3>1, <3>5 DEF RefusesOnlyUnhosted
    <3>6. CASE ~m.hosted
      BY <3>1, <3>3, <3>4, <3>6 DEF RefusesOnlyUnhosted
    <3> QED BY <3>5, <3>6
  <2>2. CASE FindTarget
    BY <2>2 DEF FindTarget, Proceed, LoginInv, history, RefusesOnlyUnhosted
  <2>3. CASE \/ FindKey \/ PagerDutyUnreachable \/ FindManager \/ CheckHibernation
             \/ LoginCluster \/ LoginFails \/ UNCHANGED loginVars
    BY <2>3 DEF FindKey, PagerDutyUnreachable, FindManager, CheckHibernation,
           LoginCluster, LoginFails, Proceed, asked, loginVars, history, RefusesOnlyUnhosted
  <2> QED BY <2>1, <2>2, <2>3 DEF LoginNext
<1>3. LoginSpec => []Refusals
  BY <1>1, <1>2, LoginAlways, PTL DEF LoginSpec
<1> QED BY <1>3, PTL

-----------------------------------------------------------------------------
(* ManagedJob *)

\* Before the creation there is no job and nothing was reported.  A command at
\* work on the job knows one that was made; past a wait it has reported the end
\* the job came to, and no job leaves its end but by being deleted.
JobInv ==
    /\ TypeOK
    /\ pc \in {"start", "create"} => job = "none" /\ outcome = "none"
    /\ pc \in {"start", "create", "wait"} => told = "none"
    /\ pc \in {"wait", "logs", "fetch", "stream"} => job # "none" /\ outcome = "none"
    /\ pc \in {"fetch", "stream"} => job # "Pending"
    /\ (opts.wait /\ (pc \in {"logs", "fetch", "stream"} \/ outcome = "ok")) =>
          told \in Ends /\ job \in {told, "deleted"}
    /\ outcome = "panic" => opts.raw

\* It holds at the start.
LEMMA JobInitInv == Init => JobInv
<1> SUFFICES ASSUME Init PROVE JobInv
  OBVIOUS
<1>1. TypeOK
  BY DEF Init, TypeOK
<1> QED BY <1>1 DEF Init, JobInv

\* The job takes its course, or is deleted.
LEMMA ServerStep == JobInv /\ (JobRuns \/ JobDeleted) => JobInv'
<1> SUFFICES ASSUME JobInv, JobRuns \/ JobDeleted PROVE JobInv'
  OBVIOUS
<1>1. /\ opts' = opts /\ pc' = pc /\ known' = known /\ told' = told
      /\ timer' = timer /\ outcome' = outcome
  BY DEF JobRuns, JobDeleted
<1>2. /\ job # "none" /\ job' \notin {"none", "Pending"}
      /\ job' \in {"Running", "deleted"} \cup Ends
      /\ job \in Ends \cup {"deleted"} => job' = "deleted"
  BY DEF JobRuns, JobDeleted, Ends
<1>3. TypeOK'
  BY <1>1, <1>2 DEF JobInv, TypeOK
<1> QED BY <1>1, <1>2, <1>3 DEF JobInv, Ends

\* After the creation the command goes on with its job, or without one.
LEMMA CreationStep == JobInv /\ (JobCreated \/ CreateRefused) => JobInv'
<1> SUFFICES ASSUME JobInv, JobCreated \/ CreateRefused PROVE JobInv'
  OBVIOUS
<1>1. /\ pc = "create" /\ job = "none" /\ outcome = "none"
      /\ opts' = opts /\ told' = told
  BY DEF JobInv, JobCreated, CreateRefused
<1>2. CASE JobCreated
  <2>1. job' = "Pending" /\ known' = TRUE /\ timer' = "live"
    BY <1>2 DEF JobCreated, GoOn
  <2>2. \/ pc' = "wait" /\ outcome' = outcome
        \/ ~opts.wait /\ pc' = "logs" /\ outcome' = outcome
        \/ ~opts.wait /\ pc' = "ended" /\ outcome' = "ok"
    BY <1>2 DEF JobCreated, GoOn, End
  <2>3. TypeOK'
    BY <1>1, <2>1, <2>2 DEF JobInv, TypeOK
  <2> QED BY <1>1, <2>1, <2>2, <2>3 DEF JobInv
<1>3. CASE CreateRefused
  <2>1. known' = known /\ job' = job /\ timer' \in {timer, "live"}
    BY <1>3 DEF CreateRefused, GoOn
  <2>2. \/ pc' = "ended" /\ outcome' = "error"
        \/ pc' = "ended" /\ outcome' = "panic" /\ opts.raw
        \/ pc' = "ended" /\ outcome' = "ok" /\ ~opts.wait
    BY <1>3 DEF CreateRefused, GoOn, End
  <2>3. TypeOK'
    BY <1>1, <2>1, <2>2 DEF JobInv, TypeOK
  <2> QED BY <1>1, <2>1, <2>2, <2>3 DEF JobInv
<1> QED BY <1>2, <1>3

\* The wait is over when the poll sees the job's end, which is then reported.
LEMMA WaitStep == JobInv /\ WaitSeesJob => JobInv'
<1> SUFFICES ASSUME JobInv, WaitSeesJob PROVE JobInv'
  OBVIOUS
<1>1. /\ pc = "wait" /\ job # "none" /\ outcome = "none"
      /\ opts' = opts /\ known' = known /\ job' = job
  BY DEF JobInv, WaitSeesJob
<1>2. CASE job \in Ends
  <2>1. told' = job /\ timer' = "live"
    BY <1>2 DEF WaitSeesJob, GoOn
  <2>2. \/ pc' = "logs" /\ outcome' = outcome
        \/ pc' = "ended" /\ outcome' = "ok"
    BY <1>2 DEF WaitSeesJob, GoOn, End
  <2>3. TypeOK'
    BY <1>1, <1>2, <2>1, <2>2 DEF JobInv, TypeOK
  <2> QED BY <1>1, <1>2, <2>1, <2>2, <2>3 DEF JobInv
<1>3. CASE job \notin Ends
  <2>1. pc' = pc /\ told' = told /\ timer' = timer /\ outcome' = outcome
    BY <1>3 DEF WaitSeesJob
  <2> QED BY <1>1, <2>1 DEF JobInv, TypeOK
<1> QED BY <1>2, <1>3

\* Before the creation, around the poll and with the logs nothing is reported
\* and the job is only looked at; a creation that fails may leave one behind.
LEMMA OtherJobSteps ==
    ASSUME JobInv,
           \/ Prepare \/ CreateFails \/ PollFails \/ RawErrorPrinted \/ LogsSeeJob
           \/ TimerExpires \/ PollTimesOut \/ FetchLogs \/ StreamEnds \/ UNCHANGED vars
    PROVE  JobInv'
<1>1. /\ opts' = opts /\ known' = known /\ told' = told
      /\ timer' \in {timer, "expired"}
      /\ \/ job' = job
         \/ pc = "create" /\ pc' = "ended" /\ outcome' = "error" /\ job' = "Pending"
  BY DEF JobInv, Prepare, CreateFails, PollFails, RawErrorPrinted, LogsSeeJob,
         TimerExpires, PollTimesOut, FetchLogs, StreamEnds, End, vars
<1>2. \/ pc' = pc /\ outcome' = outcome
      \/ pc' = "ended" /\ outcome' = "error"
      \/ pc = "start" /\ pc' = "create" /\ outcome' = outcome
      \/ pc = "logs" /\ pc' = "fetch" /\ job # "Pending" /\ outcome' = outcome
      \/ pc = "fetch" /\ pc' = "stream" /\ outcome' = outcome
      \/ pc \in {"fetch", "stream"} /\ pc' = "ended" /\ outcome' = "ok"
  BY DEF Prepare, CreateFails, PollFails, RawErrorPrinted, LogsSeeJob,
         TimerExpires, PollTimesOut, FetchLogs, StreamEnds, End, vars
<1>3. TypeOK'
  BY <1>1, <1>2 DEF JobInv, TypeOK
<1> QED BY <1>1, <1>2, <1>3 DEF JobInv

\* Every step preserves it.
LEMMA JobNextInv == JobInv /\ [Next]_vars => JobInv'
<1> QED BY ServerStep, CreationStep, WaitStep, OtherJobSteps DEF Next, Steps

\* It always holds.
LEMMA JobAlways == Spec => []JobInv
<1> QED BY JobNextInv, JobInitInv, PTL DEF Spec

\* Type correctness of managedjob create (createManagedJob.go:100-160).
THEOREM JobTypeCorrect == Spec => []TypeOK
<1>1. JobInv => TypeOK
  BY DEF JobInv
<1> QED BY <1>1, JobAlways, PTL

\* Command and job agree wherever the invariant holds.
LEMMA JobInvAgrees == JobInv => CommandAndJobAgree
<1> QED BY DEF JobInv, CommandAndJobAgree, WaitReportsTheEnd, LogsOfAStartedJob,
              PanicsOnlyInRawMode, Ends

\* The command reports the end its job came to, follows the logs of a job that
\* has started, and dereferences none that was not made unless --raw swallowed
\* the refusal (createManagedJob.go:136-155, 206-290).
THEOREM JobAgrees == Spec => []CommandAndJobAgree
<1> QED BY JobInvAgrees, JobAlways, PTL

\* How far the command has come, from its checks to its end.
Place(at) ==
    CASE at = "start"  -> 0
      [] at = "create" -> 1
      [] at = "wait"   -> 2
      [] at = "logs"   -> 3
      [] at = "fetch"  -> 4
      [] at = "stream" -> 5
      [] at = "ended"  -> 6

\* Neither poll is ever begun again, nor its timeout while it lasts, and how the
\* command ended is for good.  The end it reported stays the one it reports, and
\* the job is made once and keeps the end it comes to until it is deleted.
JobAdvances ==
    /\ pc' # pc => Place(pc') > Place(pc)
    /\ pc' = pc /\ timer = "expired" => timer' = "expired"
    /\ outcome # "none" => outcome' = outcome
    /\ told # "none" => told' = told
    /\ job # "none" => job' \notin {"none", "Pending"} \/ job' = job
    /\ job \in Ends => job' \in {job, "deleted"}

JobOnlyAdvances == [][JobAdvances]_vars

\* What makes EndsOrStreams come true once the steps that are enabled are taken:
\* the command passes through its stages in one direction only, a timer that has
\* expired under a poll ends it, and no poll of a stage that was left runs again
\* (createManagedJob.go:136-155, 206-290).
THEOREM ManagedJobAdvances == Spec => JobOnlyAdvances
<1>1. JobInv /\ [Next]_vars => JobAdvances
  <2> SUFFICES ASSUME JobInv, [Next]_vars PROVE JobAdvances
    OBVIOUS
  <2>1. CASE JobRuns \/ JobDeleted
    BY <2>1 DEF JobAdvances, JobRuns, JobDeleted, Ends
  <2>2. CASE JobCreated \/ CreateRefused
    <3>1. /\ pc = "create" /\ job = "none" /\ outcome = "none"
          /\ pc' \in {"wait", "logs", "ended"} /\ told' = told
      BY <2>2 DEF JobInv, JobCreated, CreateRefused, GoOn, End
    <3> QED BY <3>1 DEF JobAdvances, Place, Ends
  <2>3. CASE WaitSeesJob
    <3>1. /\ pc = "wait" /\ job' = job /\ job # "none"
          /\ outcome = "none" /\ told = "none"
      BY <2>3 DEF JobInv, WaitSeesJob
    <3>2. \/ pc' \in {"logs", "ended"}
          \/ pc' = pc /\ timer' = timer /\ told' = told
      BY <2>3 DEF WaitSeesJob, GoOn, End
    <3> QED BY <3>1, <3>2 DEF JobAdvances, Place, Ends
  <2>4. CASE \/ Prepare \/ CreateFails \/ PollFails \/ RawErrorPrinted \/ LogsSeeJob
             \/ TimerExpires \/ PollTimesOut \/ FetchLogs \/ StreamEnds \/ UNCHANGED vars
    <3>1. told' = told /\ timer' \in {timer, "expired"}
      BY <2>4 DEF Prepare, CreateFails, PollFails, RawErrorPrinted, LogsSeeJob,
             TimerExpires, PollTimesOut, FetchLogs, StreamEnds, vars
    <3>2. job' = job \/ (pc = "create" /\ job = "none")
      BY <2>4 DEF JobInv, Prepare, CreateFails, PollFails, RawErrorPrinted, LogsSeeJob,
             TimerExpires, PollTimesOut, FetchLogs, StreamEnds, vars
    <3>3. \/ pc' = pc /\ outcome' = outcome
          \/ /\ outcome = "none"
             /\ \/ pc = "start" /\ pc' = "create"
                \/ pc = "logs" /\ pc' = "fetch"
                \/ pc = "fetch" /\ pc' = "stream"
                \/ pc \in {"start", "create", "wait", "logs", "fetch", "stream"}
                   /\ pc' = "ended"
      BY <2>4 DEF JobInv, Prepare, CreateFails, PollFails, RawErrorPrinted, LogsSeeJob,
             TimerExpires, PollTimesOut, FetchLogs, StreamEnds, End, vars
    <3> QED BY <3>1, <3>2, <3>3 DEF JobAdvances, Place, Ends
  <2> QED BY <2>1, <2>2, <2>3, <2>4 DEF Next, Steps
<1> QED BY <1>1, JobAlways, PTL DEF Spec, JobOnlyAdvances

-----------------------------------------------------------------------------
(* Remediation *)

\* A command that has yet to make its instance has none, and what it deletes is
\* an instance whose id was printed; so forgetting what a command has in memory
\* loses an instance only where the action says so.
RemediationInv ==
    /\ RemediationTypeOK
    /\ \A u \in Operators :
          /\ work[u].step \in {"rest", "create"} => work[u].instance = Nothing
          /\ work[u].step = "delete" => work[u].instance \in informed
    /\ InstancesAreKnown

Jobs == [step : {"rest", "create", "lookup", "save", "delete"},
         key : RemediationKeys \cup {Nothing}, cluster : Fleet \cup {Nothing},
         instance : Instances \cup {Nothing}, rc : Kubeconfigs]

\* A terminal at rest.
LEMMA AtRestFacts ==
    AtRest \in Jobs /\ AtRest.step = "rest" /\ AtRest.instance = Nothing
<1>1. NoContexts \in Kubeconfigs
  BY DEF NoContexts, Kubeconfigs
<1> QED BY <1>1 DEF AtRest, Jobs

\* It holds at the start.
LEMMA RemediationInitInv == RemediationInit => RemediationInv
<1> SUFFICES ASSUME RemediationInit PROVE RemediationInv
  OBVIOUS
<1>1. NoContexts \in Kubeconfigs
  BY DEF NoContexts, Kubeconfigs
<1>2. RemediationTypeOK
  BY <1>1, AtRestFacts DEF RemediationInit, RemediationTypeOK, Jobs
<1>3. \A i \in Instances : ~instances[i].there
  BY DEF RemediationInit
<1> QED BY <1>2, <1>3, AtRestFacts DEF RemediationInit, RemediationInv, InstancesAreKnown

\* A command starts: it has no instance yet, or one to delete.
LEMMA StartsStep ==
    ASSUME RemediationInv, NEW u \in Operators, NEW k \in RemediationKeys,
           NEW step \in {"create", "delete"}, NEW i \in Instances \cup {Nothing},
           step = "create" => i = Nothing, step = "delete" => i \in informed,
           Starts(u, step, k, i)
    PROVE  RemediationInv'
<1>1. PICK c \in ClustersOf(k) :
         work' = [work EXCEPT ![u] = [AtRest EXCEPT !.step = step, !.key = k,
                                                    !.cluster = c, !.instance = i]]
  BY DEF Starts
<1>2. /\ work[u].step = "rest"
      /\ instances' = instances /\ contexts' = contexts
      /\ informed' = informed /\ orphaned' = orphaned
  BY DEF Starts
<1>3. c \in Fleet \cup {Nothing}
  <2>1. CASE k # Nothing
    BY <2>1, OcmAssumption, RemediationAssumption DEF ClustersOf
  <2>2. CASE k = Nothing
    <3>1. /\ contexts.current \in Names
          /\ contexts.reaches[contexts.current] \in Fleet \cup Instances \cup {Nothing}
      BY <1>1, <2>2 DEF ClustersOf, RemediationInv, RemediationTypeOK, Kubeconfigs
    <3>2. CASE contexts.reaches[contexts.current] \in Instances
      <4>1. c = instances[contexts.reaches[contexts.current]].of
        BY <1>1, <2>2, <3>1, <3>2, RemediationAssumption DEF ClustersOf
      <4> QED BY <3>2, <4>1 DEF RemediationInv, RemediationTypeOK
    <3>3. CASE contexts.reaches[contexts.current] \notin Instances
      BY <1>1, <2>2, <3>1, <3>3 DEF ClustersOf
    <3> QED BY <3>2, <3>3
  <2> QED BY <2>1, <2>2
<1> DEFINE w == [AtRest EXCEPT !.step = step, !.key = k, !.cluster = c, !.instance = i]
<1>4. w \in Jobs /\ w.step = step /\ w.instance = i
  BY <1>3, AtRestFacts DEF Jobs
<1> HIDE DEF w
<1>5. RemediationTypeOK'
  BY <1>1, <1>2, <1>4 DEF RemediationInv, RemediationTypeOK, Jobs, w
<1>6. \A v \in Operators : work'[v] = IF v = u THEN w ELSE work[v]
  BY <1>1 DEF RemediationInv, RemediationTypeOK, w
<1>7. work[u].instance = Nothing
  BY <1>2 DEF RemediationInv
<1>8. InstancesAreKnown'
  BY <1>2, <1>6, <1>7, RemediationAssumption
  DEF RemediationInv, InstancesAreKnown, RemediationTypeOK
<1> QED BY <1>2, <1>4, <1>5, <1>6, <1>8 DEF RemediationInv

\* The command of u goes on with w, or forgets the instance it has.
LEMMA WorkStep ==
    ASSUME RemediationInv, NEW u \in Operators, NEW w \in Jobs,
           work' = [work EXCEPT ![u] = w],
           contexts' \in Kubeconfigs,
           instances' \in [Instances -> [of : Fleet \cup {Nothing}, there : BOOLEAN]],
           \A i \in Instances :
              instances'[i].there =>
                 instances[i].there \/ w.instance = i \/ i \in orphaned',
           informed \subseteq informed', informed' \subseteq Instances,
           orphaned \subseteq orphaned', orphaned' \subseteq Instances,
           \/ w.instance = work[u].instance
           \/ work[u].instance \in informed' \cup orphaned' \cup {Nothing},
           w.step \in {"rest", "create"} => w.instance = Nothing,
           w.step = "delete" => w.instance \in informed'
    PROVE  RemediationInv'
<1>1. RemediationTypeOK'
  BY DEF RemediationInv, RemediationTypeOK, Jobs
<1>2. \A v \in Operators : work'[v] = IF v = u THEN w ELSE work[v]
  BY DEF RemediationInv, RemediationTypeOK
<1>3. InstancesAreKnown'
  <2> SUFFICES ASSUME NEW i \in Instances, instances'[i].there,
                      i \notin informed' \cup orphaned'
               PROVE  \E v \in Operators : work'[v].instance = i
    BY DEF InstancesAreKnown
  <2>1. CASE w.instance = i
    BY <1>2, <2>1
  <2>2. CASE w.instance # i
    <3>1. PICK v \in Operators : work[v].instance = i
      BY <2>2 DEF RemediationInv, InstancesAreKnown
    <3>2. v # u
      BY <2>2, <3>1, RemediationAssumption
    <3> QED BY <1>2, <3>1, <3>2
  <2> QED BY <2>1, <2>2
<1> QED BY <1>1, <1>2, <1>3 DEF RemediationInv

\* The server makes the instance, and the answer arrives or does not.
LEMMA CreateStep ==
    ASSUME RemediationInv, NEW u \in Operators, NEW i \in Instances,
           CreateRemediation(u, i) \/ CreateAnswerLost(u, i)
    PROVE  RemediationInv'
<1>1. /\ work[u].step = "create" /\ work[u].instance = Nothing /\ work[u] \in Jobs
      /\ contexts' = contexts /\ informed' = informed
      /\ contexts \in Kubeconfigs /\ informed \subseteq Instances
      /\ orphaned \subseteq Instances
  BY DEF CreateRemediation, CreateAnswerLost, Made, RemediationInv, RemediationTypeOK, Jobs
<1>2. /\ instances' \in [Instances -> [of : Fleet \cup {Nothing}, there : BOOLEAN]]
      /\ \A j \in Instances : instances'[j].there => instances[j].there \/ j = i
  <2> DEFINE new == [of |-> work[u].cluster, there |-> TRUE]
  <2>1. new \in [of : Fleet \cup {Nothing}, there : BOOLEAN]
    BY <1>1 DEF Jobs
  <2>2. instances' = [instances EXCEPT ![i] = new]
    BY DEF CreateRemediation, CreateAnswerLost, Made
  <2> HIDE DEF new
  <2> QED BY <2>1, <2>2 DEF RemediationInv, RemediationTypeOK
<1>3. CASE CreateRemediation(u, i)
  <2> DEFINE w == [work[u] EXCEPT !.step = "lookup", !.instance = i]
  <2>1. w \in Jobs /\ w.step = "lookup" /\ w.instance = i
    BY <1>1 DEF Jobs
  <2>2. work' = [work EXCEPT ![u] = w] /\ orphaned' = orphaned
    BY <1>3 DEF CreateRemediation, RemediationInv, RemediationTypeOK
  <2> HIDE DEF w
  <2> QED BY <1>1, <1>2, <2>1, <2>2, WorkStep
<1>4. CASE CreateAnswerLost(u, i)
  <2>1. work' = [work EXCEPT ![u] = AtRest] /\ orphaned' = orphaned \cup {i}
    BY <1>4 DEF CreateAnswerLost
  <2> QED BY <1>1, <1>2, <2>1, AtRestFacts, WorkStep
<1> QED BY <1>3, <1>4

\* The second look-up; the instance stays with its command.
LEMMA LookUpAgainStep ==
    ASSUME RemediationInv, NEW u \in Operators, LookUpAgain(u)
    PROVE  RemediationInv'
<1>1. /\ work[u].step = "lookup" /\ work[u] \in Jobs
      /\ instances' = instances /\ contexts' = contexts
      /\ informed' = informed /\ orphaned' = orphaned
      /\ contexts \in Kubeconfigs /\ informed \subseteq Instances
      /\ orphaned \subseteq Instances
      /\ instances \in [Instances -> [of : Fleet \cup {Nothing}, there : BOOLEAN]]
  BY DEF LookUpAgain, RemediationInv, RemediationTypeOK, Jobs
<1>2. PICK c \in IF work[u].key = Nothing THEN Installing ELSE Matches[work[u].key] :
         work' = [work EXCEPT ![u].step = "save", ![u].rc =
                    [reaches |-> [contexts.reaches EXCEPT ![NameOf[c]] = work[u].instance],
                     current |-> NameOf[c]]]
  BY DEF LookUpAgain
<1>3. c \in Fleet
  <2>1. CASE work[u].key = Nothing
    BY <2>1, <1>2, RemediationAssumption
  <2>2. CASE work[u].key # Nothing
    BY <1>1, <1>2, <2>2, OcmAssumption, RemediationAssumption DEF Jobs
  <2> QED BY <2>1, <2>2
<1> DEFINE rc == [reaches |-> [contexts.reaches EXCEPT ![NameOf[c]] = work[u].instance],
                  current |-> NameOf[c]]
           w  == [work[u] EXCEPT !.step = "save", !.rc = rc]
<1>4. rc \in Kubeconfigs
  BY <1>1, <1>3, OcmAssumption DEF Kubeconfigs, Jobs
<1> HIDE DEF rc
<1>5. w \in Jobs /\ w.step = "save" /\ w.instance = work[u].instance
  BY <1>1, <1>4 DEF Jobs
<1>6. work' = [work EXCEPT ![u] = w]
  BY <1>2 DEF RemediationInv, RemediationTypeOK, rc
<1> HIDE DEF w
<1> QED BY <1>1, <1>5, <1>6, WorkStep

\* The command ends: the id is printed, or the instance is orphaned, or it was
\* printed before.
LEMMA EndStep ==
    ASSUME RemediationInv, NEW u \in Operators,
           SaveContext(u) \/ Fails(u) \/ Interrupted(u) \/ DeleteRemediation(u)
    PROVE  RemediationInv'
<1>1. /\ work[u] \in Jobs
      /\ contexts \in Kubeconfigs /\ informed \subseteq Instances
      /\ orphaned \subseteq Instances
      /\ instances \in [Instances -> [of : Fleet \cup {Nothing}, there : BOOLEAN]]
  BY DEF RemediationInv, RemediationTypeOK, Jobs
<1>2. work[u].instance \in Instances \cup {Nothing} /\ work[u].rc \in Kubeconfigs
  BY <1>1 DEF Jobs
<1>3. work' = [work EXCEPT ![u] = AtRest] /\ contexts' \in Kubeconfigs
  BY <1>1, <1>2 DEF SaveContext, Fails, Interrupted, DeleteRemediation, EndsAndTells
<1>4. /\ informed \subseteq informed' /\ informed' \subseteq Instances
      /\ orphaned \subseteq orphaned' /\ orphaned' \subseteq Instances
  BY <1>1, <1>2 DEF SaveContext, Fails, Interrupted, DeleteRemediation, EndsAndTells
<1>5. work[u].instance \in informed' \cup orphaned' \cup {Nothing}
  BY <1>1, <1>2 DEF SaveContext, Fails, Interrupted, DeleteRemediation, EndsAndTells,
                    RemediationInv
<1>6. /\ instances' \in [Instances -> [of : Fleet \cup {Nothing}, there : BOOLEAN]]
      /\ \A i \in Instances : instances'[i].there => instances[i].there
  <2>1. CASE instances' = instances
    BY <1>1, <2>1
  <2>2. CASE instances' = [instances EXCEPT ![work[u].instance].there = FALSE]
    <3>1. \A i \in Instances : instances'[i] \in {instances[i], [instances[i] EXCEPT !.there = FALSE]}
      BY <1>1, <2>2
    <3>2. instances' \in [Instances -> [of : Fleet \cup {Nothing}, there : BOOLEAN]]
      BY <1>1, <2>2
    <3> QED BY <1>1, <3>1, <3>2
  <2> QED BY <2>1, <2>2 DEF SaveContext, Fails, Interrupted, DeleteRemediation
<1> QED BY <1>3, <1>4, <1>5, <1>6, AtRestFacts, WorkStep

\* A login on the same kubeconfig touches the contexts only.
LEMMA OtherLoginStep ==
    ASSUME RemediationInv, NEW k \in RemediationKeys \ {Nothing}, NEW c \in Matches[k],
           OtherLogin(c)
    PROVE  RemediationInv'
<1>1. c \in Fleet
  BY OcmAssumption, RemediationAssumption
<1>2. contexts' \in Kubeconfigs
  BY <1>1, OcmAssumption DEF OtherLogin, RemediationInv, RemediationTypeOK, Kubeconfigs
<1> QED BY <1>2 DEF OtherLogin, RemediationInv, RemediationTypeOK, InstancesAreKnown

\* It always holds.
LEMMA RemediationAlways == RemediationSpec => []RemediationInv
<1>1. ASSUME RemediationInv, [RemediationNext]_remediationVars PROVE RemediationInv'
  <2>1. ASSUME NEW u \in Operators, NEW k \in RemediationKeys, StartCreate(u, k)
        PROVE  RemediationInv'
    BY <1>1, <2>1, StartsStep DEF StartCreate
  <2>2. ASSUME NEW u \in Operators, NEW k \in RemediationKeys, NEW i \in Instances,
               StartDelete(u, k, i)
        PROVE  RemediationInv'
    BY <1>1, <2>2, StartsStep DEF StartDelete
  <2>3. CASE UNCHANGED remediationVars
    BY <1>1, <2>3 DEF remediationVars, RemediationInv, RemediationTypeOK, InstancesAreKnown
  <2> QED BY <1>1, <2>1, <2>2, <2>3, CreateStep, LookUpAgainStep, EndStep, OtherLoginStep
          DEF RemediationNext
<1> QED BY <1>1, RemediationInitInv, PTL DEF RemediationSpec

\* Type correctness of remediation create and delete (remediation.go:96-265).
THEOREM RemediationTypeCorrect == RemediationSpec => []RemediationTypeOK
<1>1. RemediationInv => RemediationTypeOK
  BY DEF RemediationInv
<1> QED BY <1>1, RemediationAlways, PTL

\* No instance is there that nobody was told of, unless its answer never came or
\* its command was killed, for any users, clusters and failures
\* (remediation.go:148-158).
THEOREM InstancesKnown == RemediationSpec => []InstancesAreKnown
<1>1. RemediationInv => InstancesAreKnown
  BY DEF RemediationInv
<1> QED BY <1>1, RemediationAlways, PTL

-----------------------------------------------------------------------------
(* TestJob *)

\* The place of an entry among those that open a namespace.
Rank(s, i) == Cardinality({f \in Opening(s) : f <= i})

\* There are finitely many such entries.
LEMMA OpeningFacts ==
    ASSUME NEW s \in Scripts
    PROVE  /\ Opening(s) \subseteq Nat \ {0}
           /\ IsFiniteSet(Opening(s)) /\ Cardinality(Opening(s)) \in Nat
<1>1. /\ Len(Roles[s]) \in Nat /\ Opening(s) \subseteq 1..Len(Roles[s])
  BY TestJobAssumption DEF Opening
<1>2. IsFiniteSet(1..Len(Roles[s]))
  BY <1>1, FS_Interval
<1>3. IsFiniteSet(Opening(s))
  BY <1>1, <1>2, FS_Subset
<1> QED BY <1>1, <1>3, FS_CardinalityType

\* No two entries have the same place, and no place is beyond the last.
LEMMA RankFacts ==
    ASSUME NEW s \in Scripts, NEW i \in Opening(s)
    PROVE  /\ Rank(s, i) \in 1..Cardinality(Opening(s))
           /\ \A e \in Opening(s) : Rank(s, e) = Rank(s, i) => e = i
<1> DEFINE Upto(e) == {f \in Opening(s) : f <= e}
<1>1. /\ Opening(s) \subseteq Nat \ {0} /\ IsFiniteSet(Opening(s))
      /\ Cardinality(Opening(s)) \in Nat
  BY OpeningFacts
<1>2. ASSUME NEW e PROVE IsFiniteSet(Upto(e)) /\ Cardinality(Upto(e)) \in Nat
                         /\ Cardinality(Upto(e)) <= Cardinality(Opening(s))
  <2>1. Upto(e) \in SUBSET Opening(s)
    OBVIOUS
  <2> QED BY <1>1, <2>1, FS_Subset, FS_CardinalityType
<1>3. Rank(s, i) # 0
  <2>1. i \in Upto(i)
    BY <1>1
  <2> QED BY <1>2, <2>1, FS_EmptySet DEF Rank
<1>4. ASSUME NEW e \in Opening(s), NEW f \in Opening(s), e < f
      PROVE  Rank(s, e) # Rank(s, f)
  <2>1. Upto(e) \in SUBSET Upto(f)
    BY <1>1, <1>4
  <2>2. f \in Upto(f) /\ f \notin Upto(e)
    BY <1>1, <1>4
  <2>3. IsFiniteSet(Upto(f))
    BY <1>2
  <2>4. Upto(f) # Upto(e)
    BY <2>2
  <2> HIDE DEF Upto
  <2>5. Cardinality(Upto(f)) # Cardinality(Upto(e))
    BY <2>1, <2>3, <2>4, FS_Subset
  <2> QED BY <2>5 DEF Rank, Upto
<1>5. Rank(s, i) \in 1..Cardinality(Opening(s))
  BY <1>1, <1>2, <1>3 DEF Rank
<1>6. ASSUME NEW e \in Opening(s), Rank(s, e) = Rank(s, i) PROVE e = i
  <2>1. ~(e < i) /\ ~(i < e)
    BY <1>4, <1>6
  <2> QED BY <1>1, <2>1
<1> QED BY <1>5, <1>6

\* The least-number principle, from the well-foundedness of strict inclusion.
LEMMA LeastNumber ==
    ASSUME NEW S \in SUBSET Nat, S # {}
    PROVE  \E m \in S : \A k \in S : m <= k
<1> DEFINE Intervals == {1..m : m \in S}
<1>1. Intervals \subseteq FiniteSubsetsOf(Nat)
  BY FS_Interval DEF FiniteSubsetsOf
<1>2. Intervals # {}
  OBVIOUS
<1>3. IsWellFoundedOn(StrictSubsetOrdering(Nat), FiniteSubsetsOf(Nat))
  BY FS_StrictSubsetOrderingWellFounded
<1>4. \E x \in Intervals : \A y \in Intervals : <<y, x>> \notin StrictSubsetOrdering(Nat)
  <2> HIDE DEF Intervals
  <2> QED BY <1>1, <1>2, <1>3, WFMin, Zenon
<1>5. PICK m \in S : \A k \in S : <<1..k, 1..m>> \notin StrictSubsetOrdering(Nat)
  BY <1>4
<1>6. ASSUME NEW k \in S PROVE m <= k
  <2> SUFFICES ASSUME k < m PROVE FALSE
    OBVIOUS
  <2>1. 1..k \in SUBSET Nat /\ 1..m \in SUBSET Nat /\ 1..k \subseteq 1..m
    OBVIOUS
  <2>2. m \in 1..m /\ m \notin 1..k
    OBVIOUS
  <2>3. <<1..k, 1..m>> \in StrictSubsetOrdering(Nat)
    BY <2>1, <2>2 DEF StrictSubsetOrdering
  <2> QED BY <1>5, <2>3
<1> QED BY <1>6

\* A namespace with rules is opened by one of its entries.
LEMMA OpenedBy ==
    ASSUME NEW s \in Scripts, NEW ns \in NamespacesOf(s), DeclaredRules(s, ns) # {}
    PROVE  \E i \in Opening(s) : Roles[s][i].ns = ns
<1> DEFINE With == {i \in DOMAIN Roles[s] : Roles[s][i].ns = ns /\ Roles[s][i].rules # {}}
<1>1. With \in SUBSET Nat /\ DOMAIN Roles[s] = 1..Len(Roles[s]) /\ Len(Roles[s]) \in Nat
  BY TestJobAssumption
<1>2. With # {}
  BY DEF DeclaredRules
<1>3. \E i \in With : \A j \in With : i <= j
  <2> HIDE DEF With
  <2> QED BY <1>1, <1>2, LeastNumber
<1>4. PICK i \in With : \A j \in With : i <= j
  BY <1>3
<1>5. ns # NoNamespace
  BY DEF NamespacesOf
<1>6. \A j \in 1..(i - 1) : Roles[s][j].ns = ns => Roles[s][j].rules = {}
  BY <1>1, <1>4
<1> QED BY <1>1, <1>5, <1>6 DEF Opening

\* The Roles and RoleBindings.
LEMMA RoleObjectsFacts ==
    ASSUME NEW s \in Scripts
    PROVE  LET R == RoleObjects(s) IN
           /\ Len(R) \in Nat /\ R \in Seq({R[k] : k \in 1..Len(R)})
           /\ \A k \in 1..Len(R) :
                 /\ R[k].kind \in {"Role", "RoleBinding"}
                 /\ R[k].kind = "Role" => R[k].rules = DeclaredRules(s, R[k].ns)
           /\ \A ns \in NamespacesOf(s) : DeclaredRules(s, ns) # {} =>
                 /\ \E k \in 1..Len(R) : R[k].kind = "Role" /\ R[k].ns = ns
                 /\ \E k \in 1..Len(R) : R[k].kind = "RoleBinding" /\ R[k].ns = ns
<1> DEFINE R == RoleObjects(s)
           n == Cardinality(Opening(s))
           Entry(k) == CHOOSE e \in Opening(s) : Rank(s, e) = (k + 1) \div 2
<1>1. n \in Nat
  BY OpeningFacts
<1>2. R = [k \in 1..(2 * n) |->
             IF k % 2 = 1 THEN Object("Role", Roles[s][Entry(k)].ns,
                                      DeclaredRules(s, Roles[s][Entry(k)].ns))
                          ELSE Object("RoleBinding", Roles[s][Entry(k)].ns, {})]
  BY DEF RoleObjects, Rank
<1> HIDE DEF R
<1>3. 2 * n \in Nat
  BY <1>1
<1>4. Len(R) = 2 * n /\ DOMAIN R = 1..(2 * n)
  BY <1>2, <1>3
<1>5. R \in Seq({R[k] : k \in 1..Len(R)})
  <2>1. R \in [1..(2 * n) -> {R[k] : k \in 1..(2 * n)}]
    BY <1>2
  <2> QED BY <1>3, <1>4, <2>1, SeqDef
<1>6. ASSUME NEW k \in 1..(2 * n)
      PROVE  /\ k % 2 = 1 => R[k] = Object("Role", Roles[s][Entry(k)].ns,
                                           DeclaredRules(s, Roles[s][Entry(k)].ns))
             /\ k % 2 # 1 => R[k] = Object("RoleBinding", Roles[s][Entry(k)].ns, {})
  BY <1>2
<1>7. ASSUME NEW k \in 1..(2 * n)
      PROVE  /\ R[k].kind \in {"Role", "RoleBinding"}
             /\ R[k].kind = "Role" => R[k].rules = DeclaredRules(s, R[k].ns)
  <2>1. CASE k % 2 = 1
    <3>1. R[k] = Object("Role", Roles[s][Entry(k)].ns, DeclaredRules(s, Roles[s][Entry(k)].ns))
      BY <1>6, <2>1
    <3> QED BY <3>1 DEF Object
  <2>2. CASE k % 2 # 1
    <3>1. R[k] = Object("RoleBinding", Roles[s][Entry(k)].ns, {})
      BY <1>6, <2>2
    <3> QED BY <3>1 DEF Object
  <2> QED BY <2>1, <2>2
<1>8. ASSUME NEW ns \in NamespacesOf(s), DeclaredRules(s, ns) # {}
      PROVE  /\ \E k \in 1..(2 * n) : R[k].kind = "Role" /\ R[k].ns = ns
             /\ \E k \in 1..(2 * n) : R[k].kind = "RoleBinding" /\ R[k].ns = ns
  <2>1. PICK i \in Opening(s) : Roles[s][i].ns = ns
    BY <1>8, OpenedBy
  <2> DEFINE r == Rank(s, i)
  <2>2. r \in 1..n /\ \A e \in Opening(s) : Rank(s, e) = r => e = i
    BY RankFacts
  <2> HIDE DEF r, n
  <2>3. /\ 2 * r - 1 \in 1..(2 * n) /\ (2 * r - 1) % 2 = 1 /\ ((2 * r - 1) + 1) \div 2 = r
        /\ 2 * r \in 1..(2 * n) /\ (2 * r) % 2 # 1 /\ (2 * r + 1) \div 2 = r
    BY <1>1, <2>2
  <2>4. Entry(2 * r - 1) = i /\ Entry(2 * r) = i
    <3>1. (CHOOSE e \in Opening(s) : Rank(s, e) = r) = i
      BY <2>2 DEF r
    <3> QED BY <2>3, <3>1
  <2> HIDE DEF Entry
  <2>5. R[2 * r - 1].kind = "Role" /\ R[2 * r - 1].ns = ns
    <3>1. R[2 * r - 1] = Object("Role", Roles[s][i].ns, DeclaredRules(s, Roles[s][i].ns))
      BY <1>6, <2>3, <2>4
    <3> QED BY <2>1, <3>1 DEF Object
  <2>6. R[2 * r].kind = "RoleBinding" /\ R[2 * r].ns = ns
    <3>1. R[2 * r] = Object("RoleBinding", Roles[s][i].ns, {})
      BY <1>6, <2>3, <2>4
    <3> QED BY <2>1, <3>1 DEF Object
  <2> QED BY <2>3, <2>5, <2>6
<1> QED BY <1>3, <1>4, <1>5, <1>7, <1>8 DEF R

\* Two sequences one after the other, element by element.
LEMMA Appended ==
    ASSUME NEW U, NEW S \in Seq(U), NEW T \in Seq(U)
    PROVE  /\ S \o T \in Seq(U) /\ Len(S \o T) = Len(S) + Len(T)
           /\ Len(S) \in Nat /\ Len(T) \in Nat
           /\ \A k \in 1..Len(S) : (S \o T)[k] = S[k]
           /\ \A k \in 1..Len(T) : (S \o T)[Len(S) + k] = T[k]
           /\ \A k \in 1..Len(S \o T) :
                 \/ \E m \in 1..Len(S) : (S \o T)[k] = S[m]
                 \/ \E m \in 1..Len(T) : (S \o T)[k] = T[m]
<1>1. Len(S) \in Nat /\ Len(T) \in Nat
  BY LenProperties
<1>2. /\ S \o T \in Seq(U) /\ Len(S \o T) = Len(S) + Len(T)
      /\ \A i \in 1..(Len(S) + Len(T)) : (S \o T)[i] = IF i <= Len(S) THEN S[i] ELSE T[i - Len(S)]
  BY ConcatProperties
<1>3. \A k \in 1..Len(S) : (S \o T)[k] = S[k]
  BY <1>1, <1>2
<1>4. ASSUME NEW k \in 1..Len(T) PROVE (S \o T)[Len(S) + k] = T[k]
  <2>1. Len(S) + k \in 1..(Len(S) + Len(T)) /\ ~(Len(S) + k <= Len(S))
        /\ (Len(S) + k) - Len(S) = k
    BY <1>1
  <2> QED BY <1>2, <2>1
<1>5. ASSUME NEW k \in 1..(Len(S) + Len(T))
      PROVE  \/ \E m \in 1..Len(S) : (S \o T)[k] = S[m]
             \/ \E m \in 1..Len(T) : (S \o T)[k] = T[m]
  <2>1. CASE k <= Len(S)
    BY <1>1, <1>2, <2>1
  <2>2. CASE ~(k <= Len(S))
    <3>1. k - Len(S) \in 1..Len(T)
      BY <1>1, <2>2
    <3> QED BY <1>2, <2>2, <3>1
  <2> QED BY <2>1, <2>2
<1> QED BY <1>1, <1>2, <1>3, <1>4, <1>5

\* What a manifest contains, and that its pod is the last object.
LEMMA ObjectsFacts ==
    ASSUME NEW s \in Scripts
    PROVE  LET O == ObjectsOf(s) IN
           /\ Len(O) \in Nat
           /\ \A k \in 1..Len(O) :
                 /\ O[k].kind = "Pod" => k = Len(O) /\ O[k].ns = NoNamespace
                 /\ O[k].kind = "Role" => O[k].rules = DeclaredRules(s, O[k].ns)
                 /\ O[k].kind = "ClusterRole" => O[k].rules = ClusterRules[s]
           /\ Len(O) > 0 /\ O[Len(O)].kind = "Pod"
           /\ \E k \in 1..Len(O) : O[k].kind = "ServiceAccount" /\ O[k].ns = NoNamespace
           /\ \A ns \in NamespacesOf(s) : DeclaredRules(s, ns) # {} =>
                 /\ \E k \in 1..Len(O) : O[k].kind = "Role" /\ O[k].ns = ns
                 /\ \E k \in 1..Len(O) : O[k].kind = "RoleBinding" /\ O[k].ns = ns
           /\ ClusterRules[s] # {} =>
                 /\ \E k \in 1..Len(O) : O[k].kind = "ClusterRole" /\ O[k].ns = NoNamespace
                 /\ \E k \in 1..Len(O) : O[k].kind = "ClusterRoleBinding" /\ O[k].ns = NoNamespace
<1> DEFINE account == Object("ServiceAccount", NoNamespace, {})
           role == Object("ClusterRole", NoNamespace, ClusterRules[s])
           binding == Object("ClusterRoleBinding", NoNamespace, {})
           pod == Object("Pod", NoNamespace, {})
           R == RoleObjects(s)
           C == IF ClusterRules[s] = {} THEN <<>> ELSE <<role, binding>>
           U == {account, role, binding, pod} \cup {R[k] : k \in 1..Len(R)}
           AR == <<account>> \o R
           ARC == AR \o C
           O == ARC \o <<pod>>
<1>1. /\ account.kind = "ServiceAccount" /\ account.ns = NoNamespace
      /\ role.kind = "ClusterRole" /\ role.ns = NoNamespace /\ role.rules = ClusterRules[s]
      /\ binding.kind = "ClusterRoleBinding" /\ binding.ns = NoNamespace
      /\ pod.kind = "Pod" /\ pod.ns = NoNamespace
  BY DEF Object
<1>2. ObjectsOf(s) = O
  BY DEF ObjectsOf
<1>3. /\ R \in Seq(U)
      /\ \A k \in 1..Len(R) :
            /\ R[k].kind \in {"Role", "RoleBinding"}
            /\ R[k].kind = "Role" => R[k].rules = DeclaredRules(s, R[k].ns)
      /\ \A ns \in NamespacesOf(s) : DeclaredRules(s, ns) # {} =>
            /\ \E k \in 1..Len(R) : R[k].kind = "Role" /\ R[k].ns = ns
            /\ \E k \in 1..Len(R) : R[k].kind = "RoleBinding" /\ R[k].ns = ns
  <2>1. R \in Seq({R[k] : k \in 1..Len(R)})
    BY RoleObjectsFacts
  <2>2. {R[k] : k \in 1..Len(R)} \subseteq U
    OBVIOUS
  <2>3. R \in Seq(U)
    <3> HIDE DEF U, R
    <3> QED BY <2>1, <2>2, SeqMonotonic
  <2> QED BY <2>3, RoleObjectsFacts
<1>4. /\ <<account>> \in Seq(U) /\ Len(<<account>>) = 1 /\ <<account>>[1] = account
      /\ <<pod>> \in Seq(U) /\ Len(<<pod>>) = 1 /\ <<pod>>[1] = pod
  <2>1. account \in U /\ pod \in U
    OBVIOUS
  <2> HIDE DEF U, account, pod
  <2> QED BY <2>1
<1>5. /\ C \in Seq(U) /\ Len(C) \in {0, 2}
      /\ ClusterRules[s] # {} => Len(C) = 2 /\ C[1] = role /\ C[2] = binding
      /\ \A k \in 1..Len(C) : C[k] \in {role, binding}
  <2>1. role \in U /\ binding \in U
    OBVIOUS
  <2> HIDE DEF U, role, binding
  <2>2. CASE ClusterRules[s] = {}
    <3>1. C = <<>>
      BY <2>2
    <3> QED BY <2>2, <3>1
  <2>3. CASE ClusterRules[s] # {}
    <3>1. C = <<role, binding>>
      BY <2>3
    <3> HIDE DEF C
    <3>2. <<role, binding>> \in Seq(U) /\ Len(<<role, binding>>) = 2
          /\ <<role, binding>>[1] = role /\ <<role, binding>>[2] = binding
      BY <2>1
    <3>3. \A k \in 1..2 : k = 1 \/ k = 2
      OBVIOUS
    <3> QED BY <2>3, <3>1, <3>2, <3>3
  <2> QED BY <2>2, <2>3
<1> HIDE DEF account, role, binding, pod, R, C, U
<1>6. /\ AR \in Seq(U) /\ Len(AR) = 1 + Len(R) /\ Len(R) \in Nat
      /\ AR[1] = account
      /\ \A k \in 1..Len(R) : AR[1 + k] = R[k]
      /\ \A k \in 1..Len(AR) : AR[k] = account \/ \E m \in 1..Len(R) : AR[k] = R[m]
  <2> DEFINE A == <<account>>
  <2>1. A \in Seq(U) /\ R \in Seq(U) /\ Len(A) = 1 /\ A[1] = account
    BY <1>3, <1>4
  <2> HIDE DEF A
  <2>2. /\ A \o R \in Seq(U) /\ Len(A \o R) = Len(A) + Len(R) /\ Len(R) \in Nat
        /\ \A k \in 1..Len(A) : (A \o R)[k] = A[k]
        /\ \A k \in 1..Len(R) : (A \o R)[Len(A) + k] = R[k]
        /\ \A k \in 1..Len(A \o R) :
              \/ \E m \in 1..Len(A) : (A \o R)[k] = A[m]
              \/ \E m \in 1..Len(R) : (A \o R)[k] = R[m]
    BY <2>1, Appended, SMTT(60)
  <2>3. AR = A \o R
    BY DEF A
  <2>4. /\ AR \in Seq(U) /\ Len(AR) = 1 + Len(R) /\ Len(R) \in Nat
        /\ \A k \in 1..1 : AR[k] = A[k]
        /\ \A k \in 1..Len(R) : AR[1 + k] = R[k]
        /\ \A k \in 1..Len(AR) : (\E m \in 1..1 : AR[k] = A[m]) \/ \E m \in 1..Len(R) : AR[k] = R[m]
    BY <2>1, <2>2, <2>3
  <2>5. \A m \in 1..1 : m = 1
    OBVIOUS
  <2> HIDE DEF AR
  <2> QED BY <2>1, <2>4, <2>5
<1> HIDE DEF AR
<1>7. /\ ARC \in Seq(U) /\ Len(ARC) = Len(AR) + Len(C) /\ Len(C) \in Nat
      /\ \A k \in 1..Len(AR) : ARC[k] = AR[k]
      /\ \A k \in 1..Len(C) : ARC[Len(AR) + k] = C[k]
      /\ \A k \in 1..Len(ARC) :
            (\E m \in 1..Len(AR) : ARC[k] = AR[m]) \/ (\E m \in 1..Len(C) : ARC[k] = C[m])
  <2>1. AR \in Seq(U) /\ C \in Seq(U)
    BY <1>5, <1>6
  <2> QED BY <2>1, Appended
<1> HIDE DEF ARC
<1>8. /\ Len(O) = Len(ARC) + 1 /\ Len(ARC) \in Nat
      /\ \A k \in 1..Len(ARC) : O[k] = ARC[k]
      /\ O[Len(O)] = pod
  <2> DEFINE P == <<pod>>
  <2>1. ARC \in Seq(U) /\ P \in Seq(U) /\ Len(P) = 1 /\ P[1] = pod
    BY <1>4, <1>7
  <2> HIDE DEF P
  <2>2. /\ Len(ARC \o P) = Len(ARC) + Len(P) /\ Len(ARC) \in Nat
        /\ \A k \in 1..Len(ARC) : (ARC \o P)[k] = ARC[k]
        /\ \A k \in 1..Len(P) : (ARC \o P)[Len(ARC) + k] = P[k]
    BY <2>1, Appended
  <2>3. O = ARC \o P
    BY DEF P
  <2>4. /\ Len(O) = Len(ARC) + 1 /\ Len(ARC) \in Nat
        /\ \A k \in 1..Len(ARC) : O[k] = ARC[k]
        /\ \A k \in 1..1 : O[Len(ARC) + k] = P[k]
    BY <2>1, <2>2, <2>3
  <2> HIDE DEF O
  <2>5. 1 \in 1..1
    OBVIOUS
  <2> QED BY <2>1, <2>4, <2>5
<1> HIDE DEF O
<1>9. ASSUME NEW k \in 1..Len(O)
      PROVE  /\ O[k].kind = "Pod" => k = Len(O) /\ O[k].ns = NoNamespace
             /\ O[k].kind = "Role" => O[k].rules = DeclaredRules(s, O[k].ns)
             /\ O[k].kind = "ClusterRole" => O[k].rules = ClusterRules[s]
  <2>1. CASE k = Len(O)
    BY <1>1, <1>8, <2>1
  <2>2. CASE k # Len(O)
    <3>1. k \in 1..Len(ARC)
      BY <1>8, <2>2
    <3>2. O[k] = ARC[k]
      BY <1>8, <3>1
    <3>3. (\E m \in 1..Len(AR) : O[k] = AR[m]) \/ (\E m \in 1..Len(C) : O[k] = C[m])
      BY <1>7, <3>1, <3>2
    <3>4. \/ O[k] \in {account, role, binding}
          \/ \E m \in 1..Len(R) : O[k] = R[m]
      <4>1. CASE \E m \in 1..Len(AR) : O[k] = AR[m]
        BY <1>6, <4>1
      <4>2. CASE \E m \in 1..Len(C) : O[k] = C[m]
        BY <1>5, <4>2
      <4> QED BY <3>3, <4>1, <4>2
    <3> QED BY <1>1, <1>3, <3>4
  <2> QED BY <2>1, <2>2
<1>10. /\ \A k \in 1..Len(AR) : k \in 1..Len(O) /\ O[k] = AR[k]
       /\ \A k \in 1..Len(C) : Len(AR) + k \in 1..Len(O) /\ O[Len(AR) + k] = C[k]
       /\ Len(O) \in Nat /\ Len(O) > 0
  <2>1. Len(AR) \in Nat
    BY <1>6
  <2> QED BY <1>7, <1>8, <2>1
<1>11. \E k \in 1..Len(O) : O[k].kind = "ServiceAccount" /\ O[k].ns = NoNamespace
  <2>1. 1 \in 1..Len(AR)
    BY <1>6
  <2> QED BY <1>1, <1>6, <1>10, <2>1
<1>12. ASSUME NEW ns \in NamespacesOf(s), DeclaredRules(s, ns) # {}
       PROVE  /\ \E k \in 1..Len(O) : O[k].kind = "Role" /\ O[k].ns = ns
              /\ \E k \in 1..Len(O) : O[k].kind = "RoleBinding" /\ O[k].ns = ns
  <2>1. \A k \in 1..Len(R) : 1 + k \in 1..Len(O) /\ O[1 + k] = R[k]
    BY <1>6, <1>10
  <2>2. /\ \E k \in 1..Len(R) : R[k].kind = "Role" /\ R[k].ns = ns
        /\ \E k \in 1..Len(R) : R[k].kind = "RoleBinding" /\ R[k].ns = ns
    BY <1>3, <1>12
  <2> QED BY <2>1, <2>2
<1>13. ASSUME ClusterRules[s] # {}
       PROVE  /\ \E k \in 1..Len(O) : O[k].kind = "ClusterRole" /\ O[k].ns = NoNamespace
              /\ \E k \in 1..Len(O) : O[k].kind = "ClusterRoleBinding" /\ O[k].ns = NoNamespace
  <2>1. 1 \in 1..Len(C) /\ 2 \in 1..Len(C) /\ C[1] = role /\ C[2] = binding
    BY <1>5, <1>13
  <2> QED BY <1>1, <1>10, <2>1
<1>14. O[Len(O)].kind = "Pod"
  BY <1>1, <1>8
<1> QED BY <1>2, <1>9, <1>10, <1>11, <1>12, <1>13, <1>14

\* Somebody rendered at second t; nobody rendered there twice.
Rendered(t) == \E i \in DOMAIN renders : renders[i] = t
AloneAt(t)  == \A i, j \in DOMAIN renders : renders[i] = t /\ renders[j] = t => i = j

\* User u is at work with a manifest of second t, or deletes it.
AtWork(u, t)   == oc[u].does \in {"apply", "watch", "delete"} /\ manifest[u].at = t
Deleting(u, t) == oc[u].does = "delete" /\ manifest[u].at = t

\* The k-th object of script s is on the cluster, by its name.
There(k, s, t) == \E o \in objects : IsThe(o, ObjectsOf(s)[k], t)

\* What oc works on was rendered, with the required parameters.
WorkInv ==
    \A u \in Developers :
        /\ oc[u].does \in {"apply", "watch", "delete"} =>
              /\ manifest[u].script \in Scripts
              /\ RequiredParams(manifest[u].script) \subseteq manifest[u].params
              /\ Rendered(manifest[u].at)
        /\ oc[u].does = "watch" => oc[u].next = 1

\* Every object is as its script declares it.
ObjectInv ==
    \A o \in objects :
        /\ Rendered(o.at)
        /\ RequiredParams(o.script) \subseteq o.params
        /\ o.kind = "Pod" => o.ns = NoNamespace
        /\ o.kind = "Role" => o.rules = DeclaredRules(o.script, o.ns)
        /\ o.kind = "ClusterRole" => o.rules = ClusterRules[o.script]

\* A second with one manifest has one user and one script.
AgreeInv ==
    \A t \in 0..MaxSeconds : AloneAt(t) =>
        /\ \A u, w \in Developers : AtWork(u, t) /\ AtWork(w, t) => u = w
        /\ \A o, q \in objects : o.at = t /\ q.at = t => o.script = q.script
        /\ \A u \in Developers : \A o \in objects :
              AtWork(u, t) /\ o.at = t => o.script = manifest[u].script

\* What oc applied so far is there, what it deleted is not, and a pod has
\* everything before it in its manifest.
WholeInv ==
    \A t \in (0..MaxSeconds) \ spoilt : AloneAt(t) =>
        /\ \A u \in Developers : AtWork(u, t) =>
              \A k \in 1..Len(ObjectsOf(manifest[u].script)) : k < oc[u].next =>
                 /\ oc[u].does = "apply" => There(k, manifest[u].script, t)
                 /\ oc[u].does = "delete" => ~There(k, manifest[u].script, t)
        /\ \A o \in objects :
              o.at = t /\ o.kind = "Pod" /\ (\A u \in Developers : ~Deleting(u, t)) =>
                 \A k \in 1..Len(ObjectsOf(o.script)) : There(k, o.script, t)

TestJobInv == TestJobTypeOK /\ WorkInv /\ ObjectInv /\ AgreeInv /\ WholeInv

\* It holds on an untouched cluster.
LEMMA TestJobInitInv == TestJobInit => TestJobInv
<1> SUFFICES ASSUME TestJobInit PROVE TestJobInv
  OBVIOUS
<1>1. TestJobTypeOK
  BY TestJobAssumption DEF TestJobInit, TestJobTypeOK, Manifests, NoManifest
<1>2. WorkInv /\ ObjectInv /\ AgreeInv /\ WholeInv
  BY DEF TestJobInit, WorkInv, ObjectInv, AgreeInv, WholeInv, AtWork
<1> QED BY <1>1, <1>2 DEF TestJobInv

\* A step that neither renders nor takes a manifest keeps what both say.
LEMMA NothingTaken ==
    ASSUME UNCHANGED <<manifest, renders>>
    PROVE  /\ \A t : Rendered(t)' = Rendered(t) /\ AloneAt(t)' = AloneAt(t)
           /\ \A u, t : manifest[u].at = t <=> manifest'[u].at = t
<1> QED BY DEF Rendered, AloneAt

\* A manifest is rendered or posted, which touches no other user's.
LEMMA TakesInv ==
    ASSUME TestJobInv,
           NEW u \in Developers, NEW s \in Scripts, NEW params \in SUBSET Params,
           CreateTestJob(u, s, params) \/ Render(u, s, params)
    PROVE  TestJobInv'
<1>1. PICK d \in {"posted", "apply"} :
        /\ Takes(u, s, params, d)
        /\ d = "posted" => renders' = renders
        /\ d = "apply" => /\ renders' = Append(renders, second)
                          /\ Len(renders) < MaxRenders /\ RenderAccepts(s, params)
  BY DEF CreateTestJob, Render
<1>2. /\ oc[u].does = "nothing"
      /\ manifest' = [manifest EXCEPT ![u] = [script |-> s, at |-> second, params |-> params]]
      /\ oc' = [oc EXCEPT ![u] = [does |-> d, next |-> 1]]
      /\ second' = second /\ objects' = objects /\ refusals' = refusals /\ spoilt' = spoilt
  BY <1>1 DEF Takes
<1>3. /\ second \in 0..MaxSeconds /\ renders \in Seq(0..MaxSeconds) /\ Len(renders) \in Nat
      /\ DOMAIN renders = 1..Len(renders) /\ MaxRenders \in Nat
  BY TestJobAssumption, LenProperties DEF TestJobInv, TestJobTypeOK
<1>4. /\ renders' \in Seq(0..MaxSeconds) /\ Len(renders') <= MaxRenders
      /\ \A t : Rendered(t) => Rendered(t)'
      /\ \A t : AloneAt(t)' => AloneAt(t)
      /\ d = "apply" => \A t : t = second => Rendered(t)' /\ (AloneAt(t)' => ~Rendered(t))
  <2>1. CASE d = "posted"
    BY <1>1, <2>1 DEF TestJobInv, TestJobTypeOK, Rendered, AloneAt
  <2>2. CASE d = "apply"
    <3>1. /\ renders' \in Seq(0..MaxSeconds) /\ Len(renders') = Len(renders) + 1
          /\ \A i \in 1..Len(renders) : renders'[i] = renders[i]
          /\ renders'[Len(renders) + 1] = second
      <4>1. renders' = Append(renders, second)
        BY <1>1, <2>2
      <4> QED BY <1>3, <4>1, AppendProperties
    <3>2. /\ DOMAIN renders' = 1..(Len(renders) + 1)
          /\ 1..Len(renders) \subseteq 1..(Len(renders) + 1)
          /\ Len(renders) + 1 \in 1..(Len(renders) + 1)
          /\ Len(renders) + 1 \notin 1..Len(renders)
      BY <1>3, <3>1, LenProperties
    <3>3. \A t : Rendered(t) => Rendered(t)'
      BY <1>3, <3>1, <3>2 DEF Rendered
    <3>4. \A t : AloneAt(t)' => AloneAt(t)
      BY <1>3, <3>1, <3>2 DEF AloneAt
    <3>5. \A t : t = second => Rendered(t)'
      BY <3>1, <3>2 DEF Rendered
    <3>6. \A t : t = second /\ AloneAt(t)' => ~Rendered(t)
      BY <1>3, <3>1, <3>2 DEF AloneAt, Rendered
    <3>7. Len(renders') <= MaxRenders
      BY <1>1, <1>3, <2>2, <3>1
    <3> QED BY <2>2, <3>1, <3>3, <3>4, <3>5, <3>6, <3>7
  <2> QED BY <2>1, <2>2
<1>5. TestJobTypeOK'
  BY <1>2, <1>3, <1>4 DEF TestJobInv, TestJobTypeOK, Manifests
<1>6. /\ manifest'[u].script = s /\ manifest'[u].at = second /\ manifest'[u].params = params
      /\ oc'[u].does = d /\ oc'[u].next = 1
      /\ \A w \in Developers \ {u} : manifest'[w] = manifest[w] /\ oc'[w] = oc[w]
  BY <1>2 DEF TestJobInv, TestJobTypeOK
<1>7. WorkInv'
  <2> SUFFICES ASSUME NEW w \in Developers
               PROVE  /\ oc'[w].does \in {"apply", "watch", "delete"} =>
                            /\ manifest'[w].script \in Scripts
                            /\ RequiredParams(manifest'[w].script) \subseteq manifest'[w].params
                            /\ Rendered(manifest[w].at)'
                      /\ oc'[w].does = "watch" => oc'[w].next = 1
    BY DEF WorkInv
  <2>1. CASE w = u
    <3>1. d = "apply" => RequiredParams(s) \subseteq params
      BY <1>1 DEF RenderAccepts
    <3>2. d = "apply" => Rendered(manifest[w].at)'
      <4>1. d = "apply" => \A t : t = second => Rendered(t)'
        BY <1>4
      <4> QED BY <1>6, <2>1, <4>1 DEF Rendered
    <3> QED BY <1>6, <2>1, <3>1, <3>2
  <2>2. CASE w # u
    <3>1. Rendered(manifest[w].at) => Rendered(manifest[w].at)'
      BY <1>4, <1>6, <2>2 DEF Rendered
    <3> QED BY <1>6, <2>2, <3>1 DEF TestJobInv, WorkInv
  <2> QED BY <2>1, <2>2
<1>8. ObjectInv'
  <2>1. \A o \in objects : Rendered(o.at)'
    BY <1>4 DEF TestJobInv, ObjectInv
  <2> QED BY <1>2, <2>1 DEF TestJobInv, ObjectInv, Rendered
<1>9. \A t \in 0..MaxSeconds : AloneAt(t)' =>
        /\ AloneAt(t)
        /\ \A w \in Developers \ {u} : AtWork(w, t)' = AtWork(w, t)
        /\ AtWork(u, t)' => /\ t = second /\ \A o \in objects : o.at # t
                            /\ \A w \in Developers : ~AtWork(w, t)
  <2>1. \A t : \A w \in Developers \ {u} : AtWork(w, t)' = AtWork(w, t)
    BY <1>6 DEF AtWork
  <2>2. ASSUME NEW t \in 0..MaxSeconds, AloneAt(t)', AtWork(u, t)'
        PROVE  /\ t = second /\ \A o \in objects : o.at # t
               /\ \A w \in Developers : ~AtWork(w, t)
    <3>1. t = second /\ d = "apply"
      BY <1>6, <2>2 DEF AtWork
    <3>2. ~Rendered(t)
      BY <1>4, <2>2, <3>1
    <3>3. \A o \in objects : o.at # t
      BY <3>2 DEF TestJobInv, ObjectInv
    <3>4. \A w \in Developers : ~AtWork(w, t)
      BY <3>2 DEF TestJobInv, WorkInv, AtWork
    <3> QED BY <3>1, <3>3, <3>4
  <2> QED BY <1>4, <2>1, <2>2
<1>10. \A t : \A w \in Developers : Deleting(w, t) => w # u /\ Deleting(w, t)'
  BY <1>2, <1>6 DEF Deleting
<1>11. AgreeInv'
  <2> SUFFICES ASSUME NEW t \in 0..MaxSeconds, AloneAt(t)'
               PROVE  /\ \A v, w \in Developers : AtWork(v, t)' /\ AtWork(w, t)' => v = w
                      /\ \A o, q \in objects : o.at = t /\ q.at = t => o.script = q.script
                      /\ \A w \in Developers : \A o \in objects :
                            AtWork(w, t)' /\ o.at = t => o.script = manifest'[w].script
    BY <1>2 DEF AgreeInv
  <2>1. AloneAt(t)
    BY <1>4
  <2> QED BY <1>6, <1>9, <2>1 DEF TestJobInv, AgreeInv
<1>12. WholeInv'
  <2> SUFFICES ASSUME NEW t \in (0..MaxSeconds) \ spoilt, AloneAt(t)'
               PROVE  /\ \A w \in Developers : AtWork(w, t)' =>
                            \A k \in 1..Len(ObjectsOf(manifest'[w].script)) : k < oc'[w].next =>
                               /\ oc'[w].does = "apply" => There(k, manifest'[w].script, t)
                               /\ oc'[w].does = "delete" => ~There(k, manifest'[w].script, t)
                      /\ \A o \in objects :
                            o.at = t /\ o.kind = "Pod" /\ (\A w \in Developers : ~Deleting(w, t)') =>
                               \A k \in 1..Len(ObjectsOf(o.script)) : There(k, o.script, t)
    BY <1>2 DEF WholeInv, There
  <2>1. AloneAt(t)
    BY <1>4
  <2>2. \A k \in 1..Len(ObjectsOf(s)) : ~(k < 1)
    <3>1. Len(ObjectsOf(s)) \in Nat
      BY ObjectsFacts
    <3> QED BY <3>1
  <2>3. \A k \in 1..Len(ObjectsOf(manifest'[u].script)) : ~(k < oc'[u].next)
    BY <1>6, <2>2
  <2> QED BY <1>6, <1>9, <1>10, <2>1, <2>3 DEF TestJobInv, WholeInv
<1> QED BY <1>5, <1>7, <1>8, <1>11, <1>12 DEF TestJobInv

\* What the step of oc on the next object finds.
LEMMA WorkedOn ==
    ASSUME TestJobInv, NEW u \in Developers, oc[u].does \in {"apply", "delete"}, Remaining(u)
    PROVE  /\ manifest[u].script \in Scripts /\ manifest[u].at \in 0..MaxSeconds
           /\ manifest[u].params \in SUBSET Params
           /\ RequiredParams(manifest[u].script) \subseteq manifest[u].params
           /\ Rendered(manifest[u].at) /\ AtWork(u, manifest[u].at)
           /\ Len(ObjectsOf(manifest[u].script)) \in Nat
           /\ oc[u].next \in 1..Len(ObjectsOf(manifest[u].script))
           /\ NextObject(u) = ObjectsOf(manifest[u].script)[oc[u].next]
           /\ LET x == NextObject(u) IN
              /\ x.kind = "Pod" => /\ oc[u].next = Len(ObjectsOf(manifest[u].script))
                                   /\ x.ns = NoNamespace
              /\ x.kind = "Role" => x.rules = DeclaredRules(manifest[u].script, x.ns)
              /\ x.kind = "ClusterRole" => x.rules = ClusterRules[manifest[u].script]
<1> DEFINE O == ObjectsOf(manifest[u].script)
<1>1. /\ manifest[u].script \in Scripts
      /\ RequiredParams(manifest[u].script) \subseteq manifest[u].params
      /\ Rendered(manifest[u].at) /\ AtWork(u, manifest[u].at)
  BY DEF TestJobInv, WorkInv, AtWork
<1>2. /\ manifest[u].at \in 0..MaxSeconds /\ manifest[u].params \in SUBSET Params
      /\ oc[u].next \in Nat \ {0}
  BY DEF TestJobInv, TestJobTypeOK, Manifests
<1>3. Len(O) \in Nat
  BY <1>1, ObjectsFacts
<1>4. oc[u].next \in 1..Len(O)
  BY <1>2, <1>3 DEF Remaining
<1>5. NextObject(u) = O[oc[u].next]
  BY DEF NextObject
<1> HIDE DEF O
<1>6. \A k \in 1..Len(O) :
         /\ O[k].kind = "Pod" => k = Len(O) /\ O[k].ns = NoNamespace
         /\ O[k].kind = "Role" => O[k].rules = DeclaredRules(manifest[u].script, O[k].ns)
         /\ O[k].kind = "ClusterRole" => O[k].rules = ClusterRules[manifest[u].script]
  BY <1>1, ObjectsFacts DEF O
<1> QED BY <1>1, <1>2, <1>3, <1>4, <1>5, <1>6 DEF O

\* A step of oc on an object changes nobody's manifest or work.
LEMMA Advanced ==
    ASSUME TestJobInv, NEW u \in Developers, Advance(u)
    PROVE  /\ second' = second /\ manifest' = manifest /\ renders' = renders
           /\ oc' \in [Developers -> [does : {"nothing", "posted", "apply", "watch", "delete"},
                                      next : Nat \ {0}]]
           /\ \A w \in Developers : oc'[w].does = oc[w].does
           /\ \A w \in Developers : w # u => oc'[w].next = oc[w].next
           /\ oc'[u].next = oc[u].next + 1
           /\ \A t : \A w \in Developers :
                 AtWork(w, t)' = AtWork(w, t) /\ Deleting(w, t)' = Deleting(w, t)
           /\ \A t : Rendered(t)' = Rendered(t) /\ AloneAt(t)' = AloneAt(t)
           /\ oc[u].does # "watch" => WorkInv'
<1>1. /\ second' = second /\ manifest' = manifest /\ renders' = renders
      /\ oc' = [oc EXCEPT ![u].next = @ + 1]
      /\ oc \in [Developers -> [does : {"nothing", "posted", "apply", "watch", "delete"},
                                next : Nat \ {0}]]
  BY DEF Advance, TestJobInv, TestJobTypeOK
<1>2. /\ oc' \in [Developers -> [does : {"nothing", "posted", "apply", "watch", "delete"},
                                 next : Nat \ {0}]]
      /\ \A w \in Developers : oc'[w].does = oc[w].does
      /\ \A w \in Developers : w # u => oc'[w].next = oc[w].next
      /\ oc'[u].next = oc[u].next + 1
  BY <1>1
<1>3. \A t : \A w \in Developers : AtWork(w, t)' = AtWork(w, t) /\ Deleting(w, t)' = Deleting(w, t)
  BY <1>1, <1>2 DEF AtWork, Deleting
<1>4. \A t : Rendered(t)' = Rendered(t) /\ AloneAt(t)' = AloneAt(t)
  BY <1>1 DEF Rendered, AloneAt
<1>5. ASSUME oc[u].does # "watch" PROVE WorkInv'
  BY <1>1, <1>2, <1>5 DEF TestJobInv, WorkInv, Rendered
<1> QED BY <1>1, <1>2, <1>3, <1>4, <1>5

\* oc applies an object.
LEMMA ApplyInv ==
    ASSUME TestJobInv, NEW u \in Developers, ApplyObject(u)
    PROVE  TestJobInv'
<1> DEFINE s == manifest[u].script
           t == manifest[u].at
           x == NextObject(u)
           old == {o \in objects : IsThe(o, x, t)}
           new == [kind |-> x.kind, ns |-> x.ns, rules |-> x.rules, at |-> t,
                   script |-> s, params |-> manifest[u].params]
<1>1. /\ oc[u].does = "apply" /\ Remaining(u) /\ Advance(u)
      /\ objects' = (objects \ old) \cup {new}
      /\ refusals' = refusals /\ spoilt' = spoilt
  BY DEF ApplyObject
<1>2. /\ s \in Scripts /\ t \in 0..MaxSeconds
      /\ RequiredParams(s) \subseteq manifest[u].params
      /\ Rendered(t) /\ AtWork(u, t)
      /\ Len(ObjectsOf(s)) \in Nat /\ oc[u].next \in 1..Len(ObjectsOf(s))
      /\ x = ObjectsOf(s)[oc[u].next]
      /\ x.kind = "Pod" => oc[u].next = Len(ObjectsOf(s)) /\ x.ns = NoNamespace
      /\ x.kind = "Role" => x.rules = DeclaredRules(s, x.ns)
      /\ x.kind = "ClusterRole" => x.rules = ClusterRules[s]
  BY <1>1, WorkedOn
<1>3. /\ second' = second /\ manifest' = manifest /\ renders' = renders
      /\ oc' \in [Developers -> [does : {"nothing", "posted", "apply", "watch", "delete"},
                                 next : Nat \ {0}]]
      /\ \A w \in Developers : oc'[w].does = oc[w].does
      /\ \A w \in Developers : w # u => oc'[w].next = oc[w].next
      /\ oc'[u].next = oc[u].next + 1
      /\ \A r : \A w \in Developers :
            AtWork(w, r)' = AtWork(w, r) /\ Deleting(w, r)' = Deleting(w, r)
      /\ \A r : Rendered(r)' = Rendered(r) /\ AloneAt(r)' = AloneAt(r)
      /\ WorkInv'
  BY <1>1, Advanced
<1>4. /\ new.kind = x.kind /\ new.ns = x.ns /\ new.rules = x.rules /\ new.at = t
      /\ new.script = s /\ new.params = manifest[u].params /\ IsThe(new, x, t)
  BY DEF IsThe
<1> HIDE DEF s, t, x, new, old
<1>5. TestJobTypeOK'
  <2>1. \A o \in objects' : o.script \in Scripts /\ o.at \in 0..MaxSeconds
    BY <1>1, <1>2, <1>4 DEF TestJobInv, TestJobTypeOK
  <2> QED BY <1>1, <1>3, <2>1 DEF TestJobInv, TestJobTypeOK
<1>6. ObjectInv'
  <2>1. \A o \in objects' : o \in objects \/ o = new
    BY <1>1
  <2>2. \A o \in objects' :
          /\ Rendered(o.at)
          /\ RequiredParams(o.script) \subseteq o.params
          /\ o.kind = "Pod" => o.ns = NoNamespace
          /\ o.kind = "Role" => o.rules = DeclaredRules(o.script, o.ns)
          /\ o.kind = "ClusterRole" => o.rules = ClusterRules[o.script]
    BY <1>2, <1>4, <2>1 DEF TestJobInv, ObjectInv
  <2> QED BY <1>3, <2>2 DEF ObjectInv, Rendered
<1>7. AgreeInv'
  <2> SUFFICES ASSUME NEW r \in 0..MaxSeconds, AloneAt(r)
               PROVE  /\ \A v, w \in Developers : AtWork(v, r) /\ AtWork(w, r) => v = w
                      /\ \A o, q \in objects' : o.at = r /\ q.at = r => o.script = q.script
                      /\ \A w \in Developers : \A o \in objects' :
                            AtWork(w, r) /\ o.at = r => o.script = manifest[w].script
    BY <1>3 DEF AgreeInv
  <2>1. /\ \A v, w \in Developers : AtWork(v, r) /\ AtWork(w, r) => v = w
        /\ \A o, q \in objects : o.at = r /\ q.at = r => o.script = q.script
        /\ \A w \in Developers : \A o \in objects :
              AtWork(w, r) /\ o.at = r => o.script = manifest[w].script
    BY DEF TestJobInv, AgreeInv
  <2>2. \A o \in objects' : o.at = r => (o \in objects \/ (o.script = s /\ r = t))
    BY <1>1, <1>4
  <2>3. \A w \in Developers : AtWork(w, t) /\ r = t => w = u
    BY <1>2, <2>1
  <2>4. \A o \in objects : o.at = t /\ r = t => o.script = s
    BY <1>2, <2>1 DEF s
  <2>5. \A w \in Developers : \A o \in objects' :
           AtWork(w, r) /\ o.at = r => o.script = manifest[w].script
    BY <2>1, <2>2, <2>3 DEF s
  <2>6. \A o, q \in objects' : o.at = r /\ q.at = r => o.script = q.script
    BY <2>1, <2>2, <2>4
  <2> QED BY <2>1, <2>5, <2>6
<1>8. \A k, c, r : There(k, c, r) => There(k, c, r)'
  <2> SUFFICES ASSUME NEW k, NEW c, NEW r, NEW o \in objects, IsThe(o, ObjectsOf(c)[k], r)
               PROVE  \E q \in objects' : IsThe(q, ObjectsOf(c)[k], r)
    BY DEF There
  <2>1. CASE o \in old
    BY <1>1, <1>4, <2>1 DEF old, IsThe
  <2>2. CASE o \notin old
    BY <1>1, <2>2
  <2> QED BY <2>1, <2>2
<1>9. \A k, c, r : r # t /\ There(k, c, r)' => There(k, c, r)
  BY <1>1, <1>4 DEF There, IsThe
<1>10. \A k, c, r : k = oc[u].next /\ c = s /\ r = t => There(k, c, r)'
  <2>1. new \in objects' /\ IsThe(new, ObjectsOf(s)[oc[u].next], t)
    BY <1>1, <1>2, <1>4
  <2> QED BY <2>1 DEF There
<1>11. WholeInv'
  <2> SUFFICES ASSUME NEW r \in (0..MaxSeconds) \ spoilt, AloneAt(r)
               PROVE  /\ \A w \in Developers : AtWork(w, r) =>
                            \A k \in 1..Len(ObjectsOf(manifest[w].script)) : k < oc'[w].next =>
                               /\ oc[w].does = "apply" => There(k, manifest[w].script, r)'
                               /\ oc[w].does = "delete" => ~There(k, manifest[w].script, r)'
                      /\ \A o \in objects' :
                            o.at = r /\ o.kind = "Pod" /\ (\A w \in Developers : ~Deleting(w, r)) =>
                               \A k \in 1..Len(ObjectsOf(o.script)) : There(k, o.script, r)'
    BY <1>1, <1>3 DEF WholeInv, There
  <2>1. /\ \A w \in Developers : AtWork(w, r) =>
              \A k \in 1..Len(ObjectsOf(manifest[w].script)) : k < oc[w].next =>
                 /\ oc[w].does = "apply" => There(k, manifest[w].script, r)
                 /\ oc[w].does = "delete" => ~There(k, manifest[w].script, r)
        /\ \A o \in objects :
              o.at = r /\ o.kind = "Pod" /\ (\A w \in Developers : ~Deleting(w, r)) =>
                 \A k \in 1..Len(ObjectsOf(o.script)) : There(k, o.script, r)
        /\ \A v, w \in Developers : AtWork(v, r) /\ AtWork(w, r) => v = w
    BY DEF TestJobInv, WholeInv, AgreeInv
  <2>2. ASSUME NEW w \in Developers, AtWork(w, r),
               NEW k \in 1..Len(ObjectsOf(manifest[w].script)), k < oc'[w].next
        PROVE  /\ oc[w].does = "apply" => There(k, manifest[w].script, r)'
               /\ oc[w].does = "delete" => ~There(k, manifest[w].script, r)'
    <3>1. CASE w = u
      <4>1. r = t /\ manifest[w].script = s
        BY <2>2, <3>1 DEF AtWork, s, t
      <4>2. k < oc[u].next \/ k = oc[u].next
        BY <1>2, <1>3, <2>2, <3>1, <4>1
      <4>3. ASSUME NEW c, c = s PROVE There(k, c, r)'
        <5>1. CASE k < oc[u].next
          BY <1>1, <1>8, <2>1, <2>2, <3>1, <4>1, <4>3, <5>1
        <5>2. CASE k = oc[u].next
          BY <1>10, <4>1, <4>3, <5>2
        <5> QED BY <4>2, <5>1, <5>2
      <4> QED BY <1>1, <1>3, <3>1, <4>1, <4>3 DEF There
    <3>2. CASE w # u
      <4>1. r # t
        BY <1>2, <2>1, <2>2, <3>2
      <4>2. k < oc[w].next
        BY <1>3, <2>2, <3>2
      <4>3. ASSUME NEW c, c = manifest[w].script
            PROVE  /\ oc[w].does = "apply" => There(k, c, r)'
                   /\ oc[w].does = "delete" => ~There(k, c, r)'
        BY <1>8, <1>9, <2>1, <2>2, <4>1, <4>2, <4>3
      <4> QED BY <1>3, <4>3 DEF There
    <3> QED BY <3>1, <3>2
  <2>3. ASSUME NEW o \in objects', o.at = r, o.kind = "Pod",
               \A w \in Developers : ~Deleting(w, r),
               NEW k \in 1..Len(ObjectsOf(o.script))
        PROVE  There(k, o.script, r)'
    <3>1. CASE o \in objects
      BY <1>8, <2>1, <2>3, <3>1
    <3>2. CASE o = new
      <4>1. r = t /\ o.script = s /\ oc[u].next = Len(ObjectsOf(s))
        BY <1>2, <1>4, <2>3, <3>2
      <4>2. k < oc[u].next \/ k = oc[u].next
        BY <1>2, <2>3, <4>1
      <4>3. k < oc[u].next => There(k, s, t)
        BY <1>1, <1>2, <2>1, <2>3, <4>1 DEF s
      <4> QED BY <1>8, <1>10, <4>1, <4>2, <4>3
    <3> QED BY <1>1, <3>1, <3>2
  <2> QED BY <2>2, <2>3
<1> QED BY <1>3, <1>5, <1>6, <1>7, <1>11 DEF TestJobInv

\* oc deletes an object.
LEMMA DeleteInv ==
    ASSUME TestJobInv, NEW u \in Developers, DeleteObject(u)
    PROVE  TestJobInv'
<1> DEFINE s == manifest[u].script
           t == manifest[u].at
           x == NextObject(u)
<1>1. /\ oc[u].does = "delete" /\ Remaining(u) /\ Advance(u)
      /\ objects' = {o \in objects : ~IsThe(o, x, t)}
      /\ refusals' = refusals /\ spoilt' = spoilt
  BY DEF DeleteObject
<1>2. /\ AtWork(u, t) /\ Deleting(u, t)
      /\ Len(ObjectsOf(s)) \in Nat /\ oc[u].next \in 1..Len(ObjectsOf(s))
      /\ x = ObjectsOf(s)[oc[u].next]
  BY <1>1, WorkedOn DEF Deleting
<1>3. /\ second' = second /\ manifest' = manifest /\ renders' = renders
      /\ oc' \in [Developers -> [does : {"nothing", "posted", "apply", "watch", "delete"},
                                 next : Nat \ {0}]]
      /\ \A w \in Developers : oc'[w].does = oc[w].does
      /\ \A w \in Developers : w # u => oc'[w].next = oc[w].next
      /\ oc'[u].next = oc[u].next + 1
      /\ \A r : \A w \in Developers :
            AtWork(w, r)' = AtWork(w, r) /\ Deleting(w, r)' = Deleting(w, r)
      /\ \A r : Rendered(r)' = Rendered(r) /\ AloneAt(r)' = AloneAt(r)
      /\ WorkInv'
  BY <1>1, Advanced
<1> HIDE DEF s, t, x
<1>4. objects' \subseteq objects
  BY <1>1
<1>5. TestJobTypeOK'
  BY <1>1, <1>3, <1>4 DEF TestJobInv, TestJobTypeOK
<1>6. ObjectInv' /\ AgreeInv'
  BY <1>3, <1>4 DEF TestJobInv, ObjectInv, AgreeInv
<1>7. \A k, c, r : There(k, c, r)' => There(k, c, r)
  BY <1>4 DEF There
<1>8. \A k, c, r : r # t /\ There(k, c, r) => There(k, c, r)'
  BY <1>1 DEF There, IsThe
<1>9. \A k, c, r : k = oc[u].next /\ c = s /\ r = t => ~There(k, c, r)'
  BY <1>1, <1>2 DEF There
<1>10. WholeInv'
  <2> SUFFICES ASSUME NEW r \in (0..MaxSeconds) \ spoilt, AloneAt(r)
               PROVE  /\ \A w \in Developers : AtWork(w, r) =>
                            \A k \in 1..Len(ObjectsOf(manifest[w].script)) : k < oc'[w].next =>
                               /\ oc[w].does = "apply" => There(k, manifest[w].script, r)'
                               /\ oc[w].does = "delete" => ~There(k, manifest[w].script, r)'
                      /\ \A o \in objects' :
                            o.at = r /\ o.kind = "Pod" /\ (\A w \in Developers : ~Deleting(w, r)) =>
                               \A k \in 1..Len(ObjectsOf(o.script)) : There(k, o.script, r)'
    BY <1>1, <1>3 DEF WholeInv, There
  <2>1. /\ \A w \in Developers : AtWork(w, r) =>
              \A k \in 1..Len(ObjectsOf(manifest[w].script)) : k < oc[w].next =>
                 /\ oc[w].does = "apply" => There(k, manifest[w].script, r)
                 /\ oc[w].does = "delete" => ~There(k, manifest[w].script, r)
        /\ \A o \in objects :
              o.at = r /\ o.kind = "Pod" /\ (\A w \in Developers : ~Deleting(w, r)) =>
                 \A k \in 1..Len(ObjectsOf(o.script)) : There(k, o.script, r)
        /\ \A v, w \in Developers : AtWork(v, r) /\ AtWork(w, r) => v = w
    BY DEF TestJobInv, WholeInv, AgreeInv
  <2>2. ASSUME NEW w \in Developers, AtWork(w, r),
               NEW k \in 1..Len(ObjectsOf(manifest[w].script)), k < oc'[w].next,
               NEW c, c = manifest[w].script
        PROVE  /\ oc[w].does = "apply" => There(k, c, r)'
               /\ oc[w].does = "delete" => ~There(k, c, r)'
    <3>1. CASE w = u
      <4>1. r = t /\ manifest[w].script = s
        BY <2>2, <3>1 DEF AtWork, s, t
      <4>2. k < oc[u].next \/ k = oc[u].next
        BY <1>2, <1>3, <2>2, <3>1, <4>1
      <4>3. ~There(k, c, r)'
        <5>1. CASE k < oc[u].next
          BY <1>1, <1>7, <2>1, <2>2, <3>1, <5>1
        <5>2. CASE k = oc[u].next
          BY <1>9, <2>2, <4>1, <5>2
        <5> QED BY <4>2, <5>1, <5>2
      <4> QED BY <1>1, <3>1, <4>3
    <3>2. CASE w # u
      <4>1. r # t
        BY <1>2, <2>1, <2>2, <3>2
      <4>2. k < oc[w].next
        BY <1>3, <2>2, <3>2
      <4> QED BY <1>7, <1>8, <2>1, <2>2, <4>1, <4>2
    <3> QED BY <3>1, <3>2
  <2>3. ASSUME NEW o \in objects', o.at = r, o.kind = "Pod",
               \A w \in Developers : ~Deleting(w, r),
               NEW k \in 1..Len(ObjectsOf(o.script))
        PROVE  There(k, o.script, r)'
    <3>1. r # t
      BY <1>2, <2>3
    <3> QED BY <1>4, <1>8, <2>1, <2>3, <3>1
  <2>4. \A w \in Developers : AtWork(w, r) =>
           \A k \in 1..Len(ObjectsOf(manifest[w].script)) : k < oc'[w].next =>
              /\ oc[w].does = "apply" => There(k, manifest[w].script, r)'
              /\ oc[w].does = "delete" => ~There(k, manifest[w].script, r)'
    BY <1>3, <2>2 DEF There
  <2> QED BY <2>3, <2>4
<1> QED BY <1>3, <1>5, <1>6, <1>10 DEF TestJobInv

\* oc is refused an object: nothing is promised of that second any more.
LEMMA RefusedInv ==
    ASSUME TestJobInv, NEW u \in Developers, ObjectRefused(u)
    PROVE  TestJobInv'
<1>1. /\ oc[u].does \in {"apply", "delete"} /\ Remaining(u) /\ Advance(u)
      /\ refusals < MaxRefusals /\ refusals' = refusals + 1
      /\ spoilt' = spoilt \cup {manifest[u].at} /\ objects' = objects
  BY DEF ObjectRefused
<1>2. /\ manifest[u].at \in 0..MaxSeconds /\ AtWork(u, manifest[u].at)
  BY <1>1, WorkedOn
<1>3. /\ second' = second /\ manifest' = manifest /\ renders' = renders
      /\ oc' \in [Developers -> [does : {"nothing", "posted", "apply", "watch", "delete"},
                                 next : Nat \ {0}]]
      /\ \A w \in Developers : oc'[w].does = oc[w].does
      /\ \A w \in Developers : w # u => oc'[w].next = oc[w].next
      /\ \A r : \A w \in Developers :
            AtWork(w, r)' = AtWork(w, r) /\ Deleting(w, r)' = Deleting(w, r)
      /\ \A r : Rendered(r)' = Rendered(r) /\ AloneAt(r)' = AloneAt(r)
      /\ WorkInv'
  BY <1>1, Advanced
<1>4. TestJobTypeOK'
  <2>1. refusals' \in 0..MaxRefusals
    BY <1>1, TestJobAssumption DEF TestJobInv, TestJobTypeOK
  <2>2. spoilt' \subseteq 0..MaxSeconds
    BY <1>1, <1>2 DEF TestJobInv, TestJobTypeOK
  <2> QED BY <1>1, <1>3, <2>1, <2>2 DEF TestJobInv, TestJobTypeOK
<1>5. ObjectInv' /\ AgreeInv'
  BY <1>1, <1>3 DEF TestJobInv, ObjectInv, AgreeInv
<1>6. WholeInv'
  <2>1. \A k, c, r : There(k, c, r)' = There(k, c, r)
    BY <1>1 DEF There
  <2>2. \A r \in (0..MaxSeconds) \ spoilt', w \in Developers : AtWork(w, r) => w # u
    BY <1>1 DEF AtWork
  <2> SUFFICES ASSUME NEW r \in (0..MaxSeconds) \ spoilt', AloneAt(r)
               PROVE  /\ \A w \in Developers : AtWork(w, r) =>
                            \A k \in 1..Len(ObjectsOf(manifest[w].script)) : k < oc'[w].next =>
                               /\ oc[w].does = "apply" => There(k, manifest[w].script, r)
                               /\ oc[w].does = "delete" => ~There(k, manifest[w].script, r)
                      /\ \A o \in objects :
                            o.at = r /\ o.kind = "Pod" /\ (\A w \in Developers : ~Deleting(w, r)) =>
                               \A k \in 1..Len(ObjectsOf(o.script)) : There(k, o.script, r)
    BY <1>1, <1>3, <2>1 DEF WholeInv
  <2>3. r \in (0..MaxSeconds) \ spoilt
    BY <1>1
  <2> QED BY <1>3, <2>2, <2>3 DEF TestJobInv, WholeInv
<1> QED BY <1>3, <1>4, <1>5, <1>6 DEF TestJobInv

\* oc ends.  One that deleted everything has deleted the pod.
LEMMA EndsInv ==
    ASSUME TestJobInv, NEW u \in Developers, OcEnds(u)
    PROVE  TestJobInv'
<1> DEFINE s == manifest[u].script
           t == manifest[u].at
<1>1. /\ oc[u].does \in {"apply", "delete"}
      /\ spoilt' = IF Remaining(u) THEN spoilt \cup {t} ELSE spoilt
      /\ oc' = [oc EXCEPT ![u] = [does |-> IF @.does = "apply" THEN "watch" ELSE "nothing",
                                  next |-> 1]]
      /\ second' = second /\ manifest' = manifest /\ objects' = objects
      /\ renders' = renders /\ refusals' = refusals
  BY DEF OcEnds
<1>2. /\ s \in Scripts /\ t \in 0..MaxSeconds /\ AtWork(u, t) /\ oc[u].next \in Nat \ {0}
  BY <1>1 DEF TestJobInv, TestJobTypeOK, WorkInv, AtWork, Manifests
<1>3. /\ oc' \in [Developers -> [does : {"nothing", "posted", "apply", "watch", "delete"},
                                 next : Nat \ {0}]]
      /\ \A w \in Developers : w # u => oc'[w] = oc[w]
      /\ oc'[u].does = IF oc[u].does = "apply" THEN "watch" ELSE "nothing"
      /\ oc'[u].next = 1
  BY <1>1 DEF TestJobInv, TestJobTypeOK
<1>4. \A r : Rendered(r)' = Rendered(r) /\ AloneAt(r)' = AloneAt(r)
  BY <1>1 DEF Rendered, AloneAt
<1>5. \A r : \A w \in Developers :
         /\ AtWork(w, r)' => AtWork(w, r)
         /\ Deleting(w, r)' => Deleting(w, r)
         /\ w # u => AtWork(w, r)' = AtWork(w, r) /\ Deleting(w, r)' = Deleting(w, r)
  BY <1>1, <1>3 DEF AtWork, Deleting
<1> HIDE DEF s, t
<1>6. TestJobTypeOK'
  BY <1>1, <1>2, <1>3 DEF TestJobInv, TestJobTypeOK
<1>7. WorkInv'
  <2>1. \A w \in Developers : Rendered(manifest[w].at)' = Rendered(manifest[w].at)
    BY <1>1 DEF Rendered
  <2>2. \A w \in Developers :
           /\ oc'[w].does \in {"apply", "watch", "delete"} => oc[w].does \in {"apply", "watch", "delete"}
           /\ oc'[w].does = "watch" => oc'[w].next = 1
    <3> SUFFICES ASSUME NEW w \in Developers
                 PROVE  /\ oc'[w].does \in {"apply", "watch", "delete"} =>
                              oc[w].does \in {"apply", "watch", "delete"}
                        /\ oc'[w].does = "watch" => oc'[w].next = 1
      OBVIOUS
    <3>1. CASE w = u
      BY <1>1, <1>3, <3>1
    <3>2. CASE w # u
      BY <1>3, <3>2 DEF TestJobInv, WorkInv
    <3> QED BY <3>1, <3>2
  <2> QED BY <1>1, <2>1, <2>2 DEF TestJobInv, WorkInv
<1>8. ObjectInv'
  BY <1>1, <1>4 DEF TestJobInv, ObjectInv, Rendered
<1>9. AgreeInv'
  BY <1>1, <1>4, <1>5 DEF TestJobInv, AgreeInv, AloneAt
<1>10. WholeInv'
  <2>1. \A k, c, r : There(k, c, r)' = There(k, c, r)
    BY <1>1 DEF There
  <2> SUFFICES ASSUME NEW r \in (0..MaxSeconds) \ spoilt', AloneAt(r)
               PROVE  /\ \A w \in Developers : AtWork(w, r)' =>
                            \A k \in 1..Len(ObjectsOf(manifest[w].script)) : k < oc'[w].next =>
                               /\ oc'[w].does = "apply" => There(k, manifest[w].script, r)
                               /\ oc'[w].does = "delete" => ~There(k, manifest[w].script, r)
                      /\ \A o \in objects :
                            o.at = r /\ o.kind = "Pod" /\ (\A w \in Developers : ~Deleting(w, r)') =>
                               \A k \in 1..Len(ObjectsOf(o.script)) : There(k, o.script, r)
    BY <1>1, <1>4, <2>1 DEF WholeInv
  <2>2. /\ r \in (0..MaxSeconds) \ spoilt
        /\ \A w \in Developers : AtWork(w, r) =>
              \A k \in 1..Len(ObjectsOf(manifest[w].script)) : k < oc[w].next =>
                 /\ oc[w].does = "apply" => There(k, manifest[w].script, r)
                 /\ oc[w].does = "delete" => ~There(k, manifest[w].script, r)
        /\ \A o \in objects :
              o.at = r /\ o.kind = "Pod" /\ (\A w \in Developers : ~Deleting(w, r)) =>
                 \A k \in 1..Len(ObjectsOf(o.script)) : There(k, o.script, r)
        /\ \A o \in objects : AtWork(u, r) /\ o.at = r => o.script = manifest[u].script
    BY <1>1 DEF TestJobInv, WholeInv, AgreeInv
  <2>3. \A w \in Developers : AtWork(w, r)' =>
           \A k \in 1..Len(ObjectsOf(manifest[w].script)) : k < oc'[w].next =>
              /\ oc'[w].does = "apply" => There(k, manifest[w].script, r)
              /\ oc'[w].does = "delete" => ~There(k, manifest[w].script, r)
    BY <1>1, <1>3, <1>5, <2>2
  <2>4. ASSUME NEW o \in objects, o.at = r, o.kind = "Pod",
               \A w \in Developers : ~Deleting(w, r)'
        PROVE  \A w \in Developers : ~Deleting(w, r)
    <3> SUFFICES ASSUME Deleting(u, r) PROVE FALSE
      BY <1>5, <2>4
    <3>1. r = t /\ AtWork(u, r) /\ oc[u].does = "delete"
      BY <1>1 DEF Deleting, AtWork, t
    <3>2. ~Remaining(u)
      BY <1>1, <3>1
    <3>3. o.script = s /\ o.ns = NoNamespace
      BY <2>2, <2>4, <3>1 DEF TestJobInv, ObjectInv, s
    <3> DEFINE O == ObjectsOf(s)
    <3>4. /\ Len(O) \in Nat /\ Len(O) > 0 /\ O[Len(O)].kind = "Pod"
          /\ \A k \in 1..Len(O) : O[k].kind = "Pod" => O[k].ns = NoNamespace
      BY <1>2, ObjectsFacts
    <3>5. Len(O) < oc[u].next
      BY <1>2, <3>2, <3>4 DEF Remaining, s
    <3> HIDE DEF O
    <3>6. Len(O) \in 1..Len(O)
      BY <3>4
    <3>7. IsThe(o, O[Len(O)], r)
      BY <2>4, <3>3, <3>4, <3>6 DEF IsThe
    <3>8. There(Len(O), s, r)
      BY <3>7 DEF There, O
    <3>9. ~There(Len(O), s, r)
      BY <2>2, <3>1, <3>5, <3>6 DEF O, s
    <3> QED BY <3>8, <3>9
  <2> QED BY <2>2, <2>3, <2>4
<1> QED BY <1>6, <1>7, <1>8, <1>9, <1>10 DEF TestJobInv

\* The manifest is to be deleted: nothing is gone yet.
LEMMA StartDeleteInv ==
    ASSUME TestJobInv, NEW u \in Developers, StartOcDelete(u)
    PROVE  TestJobInv'
<1>1. /\ oc[u].does = "watch" /\ oc' = [oc EXCEPT ![u].does = "delete"]
      /\ second' = second /\ manifest' = manifest /\ objects' = objects
      /\ renders' = renders /\ refusals' = refusals /\ spoilt' = spoilt
  BY DEF StartOcDelete
<1>2. /\ oc' \in [Developers -> [does : {"nothing", "posted", "apply", "watch", "delete"},
                                 next : Nat \ {0}]]
      /\ \A w \in Developers : w # u => oc'[w] = oc[w]
      /\ oc'[u].does = "delete" /\ oc'[u].next = 1
      /\ manifest[u].script \in Scripts
  BY <1>1 DEF TestJobInv, TestJobTypeOK, WorkInv
<1>3. \A r : Rendered(r)' = Rendered(r) /\ AloneAt(r)' = AloneAt(r)
  BY <1>1 DEF Rendered, AloneAt
<1>4. \A r : \A w \in Developers :
         /\ AtWork(w, r)' = AtWork(w, r)
         /\ Deleting(w, r) => Deleting(w, r)'
  BY <1>1, <1>2 DEF AtWork, Deleting
<1>5. TestJobTypeOK'
  BY <1>1, <1>2 DEF TestJobInv, TestJobTypeOK
<1>6. WorkInv'
  BY <1>1, <1>2, <1>3 DEF TestJobInv, WorkInv, Rendered
<1>7. ObjectInv'
  BY <1>1, <1>3 DEF TestJobInv, ObjectInv
<1>8. AgreeInv'
  BY <1>1, <1>3, <1>4 DEF TestJobInv, AgreeInv
<1>9. WholeInv'
  <2>1. \A k, c, r : There(k, c, r)' = There(k, c, r)
    BY <1>1 DEF There
  <2>2. \A k \in 1..Len(ObjectsOf(manifest[u].script)) : ~(k < 1)
    <3>1. Len(ObjectsOf(manifest[u].script)) \in Nat
      BY <1>2, ObjectsFacts
    <3> QED BY <3>1
  <2> SUFFICES ASSUME NEW r \in (0..MaxSeconds) \ spoilt, AloneAt(r)
               PROVE  /\ \A w \in Developers : AtWork(w, r) =>
                            \A k \in 1..Len(ObjectsOf(manifest[w].script)) : k < oc'[w].next =>
                               /\ oc'[w].does = "apply" => There(k, manifest[w].script, r)
                               /\ oc'[w].does = "delete" => ~There(k, manifest[w].script, r)
                      /\ \A o \in objects :
                            o.at = r /\ o.kind = "Pod" /\ (\A w \in Developers : ~Deleting(w, r)') =>
                               \A k \in 1..Len(ObjectsOf(o.script)) : There(k, o.script, r)
    BY <1>1, <1>3, <1>4, <2>1 DEF WholeInv
  <2>3. /\ \A w \in Developers : AtWork(w, r) =>
              \A k \in 1..Len(ObjectsOf(manifest[w].script)) : k < oc[w].next =>
                 /\ oc[w].does = "apply" => There(k, manifest[w].script, r)
                 /\ oc[w].does = "delete" => ~There(k, manifest[w].script, r)
        /\ \A o \in objects :
              o.at = r /\ o.kind = "Pod" /\ (\A w \in Developers : ~Deleting(w, r)) =>
                 \A k \in 1..Len(ObjectsOf(o.script)) : There(k, o.script, r)
    BY DEF TestJobInv, WholeInv
  <2>4. \A o \in objects :
           o.at = r /\ o.kind = "Pod" /\ (\A w \in Developers : ~Deleting(w, r)') =>
              \A k \in 1..Len(ObjectsOf(o.script)) : There(k, o.script, r)
    BY <1>4, <2>3
  <2>5. ASSUME NEW w \in Developers, AtWork(w, r),
               NEW k \in 1..Len(ObjectsOf(manifest[w].script)), k < oc'[w].next
        PROVE  /\ oc'[w].does = "apply" => There(k, manifest[w].script, r)
               /\ oc'[w].does = "delete" => ~There(k, manifest[w].script, r)
    <3>1. w # u
      BY <1>2, <2>2, <2>5
    <3> QED BY <1>2, <2>3, <2>5, <3>1
  <2> QED BY <2>4, <2>5
<1> QED BY <1>5, <1>6, <1>7, <1>8, <1>9 DEF TestJobInv

\* A second passes, or nothing happens.
LEMMA IdleInv ==
    ASSUME TestJobInv, Second \/ UNCHANGED testJobVars
    PROVE  TestJobInv'
<1>1. /\ manifest' = manifest /\ oc' = oc /\ objects' = objects /\ renders' = renders
      /\ refusals' = refusals /\ spoilt' = spoilt
  BY DEF Second, testJobVars
<1>2. second' \in 0..MaxSeconds
  BY TestJobAssumption DEF Second, testJobVars, TestJobInv, TestJobTypeOK
<1>3. TestJobTypeOK'
  BY <1>1, <1>2 DEF TestJobInv, TestJobTypeOK
<1> QED
  BY <1>1, <1>3 DEF TestJobInv, WorkInv, ObjectInv, AgreeInv, WholeInv, AtWork, Deleting, There,
                    Rendered, AloneAt

\* It always holds.
LEMMA TestJobAlways == TestJobSpec => []TestJobInv
<1>1. TestJobInv /\ [TestJobNext]_testJobVars => TestJobInv'
  BY TakesInv, ApplyInv, DeleteInv, RefusedInv, EndsInv, StartDeleteInv, IdleInv DEF TestJobNext
<1> QED BY <1>1, TestJobInitInv, PTL DEF TestJobSpec

\* Type correctness of test jobs and of the manifests (testJob/renderTestJob.go).
THEOREM TestJobTypeCorrect == TestJobSpec => []TestJobTypeOK
<1>1. TestJobInv => TestJobTypeOK
  BY DEF TestJobInv
<1> QED BY <1>1, TestJobAlways, PTL

\* What has one manifest only has no two.
LEMMA AloneFacts ==
    ASSUME TestJobTypeOK, NEW t, RenderedAlone(t)
    PROVE  AloneAt(t)
<1> DEFINE At == {i \in DOMAIN renders : renders[i] = t}
<1>1. Len(renders) \in Nat /\ DOMAIN renders = 1..Len(renders)
  BY LenProperties DEF TestJobTypeOK
<1>2. IsFiniteSet(At)
  <2>1. IsFiniteSet(1..Len(renders)) /\ At \in SUBSET (1..Len(renders))
    BY <1>1, FS_Interval
  <2> QED BY <2>1, FS_Subset
<1>3. Cardinality(At) = 1
  BY DEF RenderedAlone
<1>4. \E i : At = {i}
  <2> HIDE DEF At
  <2> QED BY <1>2, <1>3, FS_Singleton
<1> QED BY <1>4 DEF AloneAt

\* The objects of a second on its own grant what their script declares.
LEMMA RightsHold == TestJobInv => PodsHaveTheirRights
<1> SUFFICES ASSUME TestJobInv PROVE PodsHaveTheirRights
  OBVIOUS
<1> SUFFICES ASSUME NEW o \in objects, RenderedAlone(o.at),
                    NEW ns \in NamespacesOf(o.script) \cup {NoNamespace}
             PROVE  /\ GrantedRules(o.at, ns) \subseteq DeclaredFor(o.script, ns)
                    /\ o.kind = "Pod" =>
                          \/ /\ GrantedRules(o.at, ns) = DeclaredFor(o.script, ns)
                             /\ RequiredParams(o.script) \subseteq o.params
                          \/ o.at \in spoilt
                          \/ \E u \in Developers : manifest[u].at = o.at /\ oc[u].does = "delete"
  BY DEF PodsHaveTheirRights
<1> DEFINE t == o.at
           s == o.script
           role == IF ns = NoNamespace THEN "ClusterRole" ELSE "Role"
           binding == IF ns = NoNamespace THEN "ClusterRoleBinding" ELSE "RoleBinding"
           granted == {q \in objects : q.kind = role /\ q.ns = ns /\ q.at = t}
<1>1. t \in 0..MaxSeconds /\ s \in Scripts /\ AloneAt(t)
  BY AloneFacts DEF TestJobInv, TestJobTypeOK
<1>2. \A q \in granted : q.rules = DeclaredFor(s, ns)
  <2>1. \A q \in granted : q.script = s
    BY <1>1 DEF TestJobInv, AgreeInv
  <2> QED BY <2>1 DEF TestJobInv, ObjectInv, DeclaredFor
<1>3. GrantedRules(t, ns) = IF Has("ServiceAccount", NoNamespace, t) /\ Has(binding, ns, t)
                              THEN UNION {q.rules : q \in granted} ELSE {}
  BY DEF GrantedRules
<1> HIDE DEF granted
<1>4. GrantedRules(t, ns) \subseteq DeclaredFor(s, ns)
  BY <1>2, <1>3
<1>5. ASSUME o.kind = "Pod", t \notin spoilt, \A u \in Developers : ~Deleting(u, t),
             DeclaredFor(s, ns) # {}
      PROVE  GrantedRules(t, ns) = DeclaredFor(s, ns)
  <2> DEFINE O == ObjectsOf(s)
  <2>1. \A k \in 1..Len(O) : There(k, s, t)
    BY <1>1, <1>5 DEF TestJobInv, WholeInv
  <2>2. \A k \in 1..Len(O) : \E q \in objects : q.kind = O[k].kind /\ q.ns = O[k].ns /\ q.at = t
    BY <2>1 DEF There, IsThe
  <2>3. /\ \E k \in 1..Len(O) : O[k].kind = "ServiceAccount" /\ O[k].ns = NoNamespace
        /\ \E k \in 1..Len(O) : O[k].kind = role /\ O[k].ns = ns
        /\ \E k \in 1..Len(O) : O[k].kind = binding /\ O[k].ns = ns
    <3>1. CASE ns = NoNamespace
      <4>1. ClusterRules[s] # {}
        BY <1>5, <3>1 DEF DeclaredFor
      <4> QED BY <1>1, <3>1, <4>1, ObjectsFacts
    <3>2. CASE ns # NoNamespace
      <4>1. ns \in NamespacesOf(s) /\ DeclaredRules(s, ns) # {}
        BY <1>5, <3>2 DEF DeclaredFor
      <4> QED BY <1>1, <3>2, <4>1, ObjectsFacts
    <3> QED BY <3>1, <3>2
  <2> HIDE DEF O, role, binding
  <2>4. Has("ServiceAccount", NoNamespace, t) /\ Has(binding, ns, t)
    BY <2>2, <2>3 DEF Has
  <2>5. granted # {}
    BY <2>2, <2>3 DEF granted
  <2> QED BY <1>2, <1>3, <2>4, <2>5
<1>6. RequiredParams(s) \subseteq o.params
  BY DEF TestJobInv, ObjectInv
<1> QED BY <1>4, <1>5, <1>6 DEF Deleting

\* The pod of a script runs with exactly the rights its metadata declares, for
\* any roles, any users and any objects refused (renderTestJob.go:195-363).
THEOREM PodRights == TestJobSpec => []PodsHaveTheirRights
<1> QED BY RightsHold, TestJobAlways, PTL
-----------------------------------------------------------------------------
(* Remote *)

\* Whatever its subject, a behaviour of Remote is one of login, ...
LEMMA RemoteIsLogin == RemoteSpec => LoginSpec
<1>1. RemoteInit => LoginInit
  BY DEF RemoteInit
<1>2. [RemoteNext]_remoteVars => [LoginNext]_loginVars
  BY DEF RemoteNext, remoteVars
<1> QED BY <1>1, <1>2, PTL DEF RemoteSpec, LoginSpec

\* ... of remediation ...
LEMMA RemoteIsRemediation == RemoteSpec => RemediationSpec
<1>1. RemoteInit => RemediationInit
  BY DEF RemoteInit
<1>2. [RemoteNext]_remoteVars => [RemediationNext]_remediationVars
  BY DEF RemoteNext, remoteVars
<1> QED BY <1>1, <1>2, PTL DEF RemoteSpec, RemediationSpec

\* ... and of test jobs, in which the commands of the other modules do nothing.
LEMMA RemoteIsTestJob == RemoteSpec => TestJobSpec
<1>1. RemoteInit => TestJobInit
  BY DEF RemoteInit
<1>2. [RemoteNext]_remoteVars => [TestJobNext]_testJobVars
  BY DEF RemoteNext, remoteVars
<1> QED BY <1>1, <1>2, PTL DEF RemoteSpec, TestJobSpec

\* Without a managed job there is a command that has ended, which is as good.
LEMMA RemoteJobInv == RemoteSpec => []JobInv
<1>1. RemoteInit => JobInv
  <2> SUFFICES ASSUME RemoteInit PROVE JobInv
    OBVIOUS
  <2>1. CASE Init
    BY <2>1, JobInitInv
  <2>2. CASE NoJob
    <3>1. TypeOK
      BY <2>2 DEF NoJob, TypeOK
    <3> QED BY <2>2, <3>1 DEF NoJob, JobInv
  <2> QED BY <2>1, <2>2 DEF RemoteInit
<1>2. [RemoteNext]_remoteVars => [Next]_vars
  BY DEF RemoteNext, remoteVars
<1>3. JobInv /\ [RemoteNext]_remoteVars => JobInv'
  BY <1>2, JobNextInv
<1> QED BY <1>1, <1>3, PTL DEF RemoteSpec

\* Type correctness of all the commands that work remotely.
THEOREM RemoteTypeCorrect == RemoteSpec => []RemoteTypeOK
<1>1. JobInv => TypeOK
  BY DEF JobInv
<1>2. TypeOK /\ LoginTypeOK /\ RemediationTypeOK /\ TestJobTypeOK => RemoteTypeOK
  BY DEF RemoteTypeOK
<1> QED BY <1>1, <1>2, RemoteJobInv, RemoteIsLogin, LoginTypeCorrect,
           RemoteIsRemediation, RemediationTypeCorrect,
           RemoteIsTestJob, TestJobTypeCorrect, PTL

\* What is proved of each of them holds of whichever of them runs: logins land
\* where they were asked to, remediation instances are known, pods have their
\* rights, and managed jobs and their commands agree.
THEOREM RemoteIsSafe ==
    RemoteSpec => [](/\ LandsWhereAsked /\ InstancesAreKnown
                     /\ PodsHaveTheirRights /\ CommandAndJobAgree)
<1>1. JobInv => CommandAndJobAgree
  BY JobInvAgrees
<1> QED BY <1>1, RemoteJobInv, RemoteIsLogin, LoginLands,
           RemoteIsRemediation, InstancesKnown, RemoteIsTestJob, PodRights, PTL
=============================================================================
