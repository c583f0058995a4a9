----------------------------- MODULE LoginTarget -----------------------------
(***************************************************************************)
(* Which cluster "ocm backplane login" logs in to (runLogin in             *)
(* cmd/ocm-backplane/login/login.go up to the kubeconfig, pkg/pagerduty    *)
(* and pkg/jira/ohssService.go, on the look-ups of OcmQueries).  A key from *)
(* the command line, an incident, an issue or the kubeconfig is looked up  *)
(* at OCM, and --manager and --service go on from the cluster found to one *)
(* above it.  Every request may fail; one failure is taken for an answer.  *)
(* What login then writes is the module Kubeconfig.                        *)
(***************************************************************************)
EXTENDS OcmQueries, Sequences

CONSTANTS
    Incidents   \* the clusters the alerts of an incident name, in order

ASSUME LoginAssumption == Incidents \subseteq Seq(Keys)

VARIABLES
    phase,      \* what runLogin does next
    source,     \* the login type preLogin worked out
    alerts,     \* the clusters the alerts name, when logging in by incident
    wanted,     \* the flags --manager and --service
    key,        \* clusterKey
    target,     \* the cluster the key was resolved to
    id, name,   \* clusterID and clusterName
    namespaces, \* the kind of namespaces listNamespaces printed
    refused,    \* "manifestworks are only available for hosted control plane ..."
    prompted,   \* history: the user chose among clusters of the manager's name
    unanswered  \* history: Hypershift().Get() of a hosted cluster was not answered

asked == <<source, alerts, wanted>>
history == <<prompted, unanswered>>
loginVars == <<phase, asked, key, target, id, name, namespaces, refused, history>>

Sources == {"clusterID", "pagerduty", "jira", "kubeconfig"}

LoginTypeOK ==
    /\ phase \in {"key", "target", "manager", "service", "awake", "login",
                  "done", "failed", "crashed"}
    /\ source \in Sources
    /\ alerts \in Incidents \cup {<<>>}
    /\ wanted \in [manager : BOOLEAN, service : BOOLEAN]
    /\ key \in Keys \cup {Nothing}
    /\ target \in Fleet \cup {Nothing}
    /\ id \in Fleet \cup {Nothing}
    /\ name \in Names \cup {Nothing}
    /\ namespaces \in {"none", "hive", "hcp"}
    /\ refused \in BOOLEAN
    /\ prompted \in BOOLEAN /\ unanswered \in BOOLEAN

LoginInit ==
    /\ phase = "key"
    /\ source \in Sources
    /\ alerts \in IF source = "pagerduty" THEN Incidents ELSE {<<>>}
    /\ wanted \in [manager : BOOLEAN, service : BOOLEAN]
    /\ key = Nothing /\ target = Nothing /\ id = Nothing /\ name = Nothing
    /\ namespaces = "none"
    /\ refused = FALSE /\ prompted = FALSE /\ unanswered = FALSE

-----------------------------------------------------------------------------
(* runLogin *)

Proceed(from, to) ==
    /\ phase = from
    /\ phase' = to
    /\ UNCHANGED asked

\* The key: the argument, what all alerts of the incident say, the field of the
\* issue, or the id in the URL of the current context.
KeysGiven ==
    CASE source = "pagerduty" -> {k \in Keys : alerts # <<>> /\
                                     \A i \in DOMAIN alerts : alerts[i] = k}
      [] source = "kubeconfig" -> Fleet
      [] OTHER -> Keys

FindKey ==
    /\ Proceed("key", "target")
    /\ key' \in KeysGiven
    /\ UNCHANGED <<target, id, name, namespaces, refused, history>>

\* GetIncidentAlerts drops an error that is not the API's own, and reads the
\* alerts of a response it did not get.
PagerDutyUnreachable ==
    /\ source = "pagerduty"
    /\ Proceed("key", "crashed")
    /\ UNCHANGED <<key, target, id, name, namespaces, refused, history>>

\* What follows the resolution of the key, the manager, the service cluster.
After(step) ==
    IF step = "target" /\ wanted.manager THEN "manager"
    ELSE IF step # "service" /\ wanted.service THEN "service"
    ELSE "awake"

\* GetTargetCluster: the user chooses when several match.
FindTarget ==
    /\ Proceed("target", After("target"))
    /\ target' \in Matches[key]
    /\ id' = target' /\ name' = NameOf[target']
    /\ UNCHANGED <<key, namespaces, refused, history>>

\* --manager, with listNamespaces.
FindManager ==
    /\ Proceed("manager", After("manager"))
    /\ \E r \in ManagingClusters(id) :
          /\ id' = r.id /\ name' = r.name
          /\ namespaces' = IF r.hosted THEN "hcp" ELSE "hive"
          /\ prompted' = r.prompted /\ unanswered' = r.unanswered
    /\ UNCHANGED <<key, target, refused>>

\* --service.  The manager must be there and the cluster be hosted; the latter
\* is looked at last.
FindService ==
    /\ phase = "service"
    /\ \E m \in ManagingClusters(id), r \in ServiceClusters(id) :
          /\ Proceed("service", IF m.hosted THEN "awake" ELSE "failed")
          /\ id' = r.id /\ name' = r.name /\ refused' = ~m.hosted
          /\ unanswered' = (unanswered \/ m.unanswered)
    /\ UNCHANGED <<key, target, namespaces, prompted>>

\* IsClusterHibernating; an error is ignored, so that any cluster may pass.
CheckHibernation ==
    /\ \/ Proceed("awake", "login")
       \/ id \in Asleep /\ Proceed("awake", "failed")
    /\ UNCHANGED <<key, target, id, name, namespaces, refused, history>>

\* doLoginWithConn; backplane knows no cluster with an empty id.
LoginCluster ==
    /\ id # Nothing
    /\ Proceed("login", "done")
    /\ UNCHANGED <<key, target, id, name, namespaces, refused, history>>

\* A request fails or finds nothing, the user gives no answer, an option is wrong.
LoginFails ==
    /\ phase \notin {"done", "failed", "crashed"}
    /\ phase' = "failed"
    /\ UNCHANGED <<asked, key, target, id, name, namespaces, refused, history>>

LoginNext ==
    \/ FindKey \/ PagerDutyUnreachable \/ FindTarget \/ FindManager
    \/ FindService \/ CheckHibernation \/ LoginCluster \/ LoginFails

LoginSpec == LoginInit /\ [][LoginNext]_loginVars

-----------------------------------------------------------------------------
(* Properties *)

\* Cluster x, called n, is m, or one the user took for m at the prompt.  Nobody
\* can find a cluster OCM does not list.
Found(x, n, m) ==
    /\ n = NameOf[m]
    /\ prompted \/ m \in Unlisted \/ x = m

\* Cluster x, called n, manages c: as a management cluster if c was found to be
\* hosted, as its hive if not.
IsManagerOf(x, n, c) ==
    IF namespaces = "hcp" THEN c \in Hosted /\ Found(x, n, ManagerOf[c])
                          ELSE \E m \in ShardOf[c] : Found(x, n, m)

\* No other cluster has the name of c.
Unique(c) == \A d \in Fleet \cup Unlisted : NameOf[d] = NameOf[c] => d = c

\* Cluster x, called n, is the service cluster of hosted cluster c.  Of several
\* management clusters of a name, or service clusters, the first is taken
\* unasked (ocm.go:286-293), so this can be said of unique names only.
IsServiceOf(x, n, c) ==
    /\ c \in Hosted
    /\ Unique(ManagerOf[c]) =>
          /\ ManagerOf[c] \in Managers /\ ServiceOf[ManagerOf[c]] # Nothing
          /\ n = NameOf[ServiceOf[ManagerOf[c]]]
          /\ Unique(ServiceOf[ManagerOf[c]]) => x = ServiceOf[ManagerOf[c]]

\* What the flags ask for, given the cluster c the key stands for.
IsAskedFor(x, n, c) ==
    IF wanted.service
      THEN \E m \in Fleet :
              /\ IF wanted.manager THEN \E l \in Names : IsManagerOf(m, l, c) ELSE m = c
              /\ IsServiceOf(x, n, m)
      ELSE IF wanted.manager THEN IsManagerOf(x, n, c)
                             ELSE x = c /\ n = NameOf[c]

\* A login that ends well is at the cluster it was asked for, or at the very one
\* above it, though all it had to go by was that one's name: an ambiguous name
\* leads elsewhere only when the user picks another at the prompt.  All alerts of
\* an incident meant the cluster.  A hosted cluster's login ends at a hive, and
\* prints the hive's namespaces, only when OCM would not say that it is hosted
\* (login.go:217-289, ocm.go:200-240).
LandsWhereAsked ==
    phase = "done" =>
        /\ target \in Matches[key]
        /\ \A i \in DOMAIN alerts : target \in Matches[alerts[i]]
        /\ IsAskedFor(id, name, target)
        /\ wanted.manager => (namespaces = "hcp") = (target \in Hosted /\ ~unanswered)

\* "Login to service cluster for the given hosted cluster or management cluster"
\* (globalflags.go:40): a management cluster is not refused for what it is.
ServesManagementClusters ==
    refused /\ ~wanted.manager => target \notin Managers
=============================================================================
