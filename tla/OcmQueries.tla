------------------------------ MODULE OcmQueries ------------------------------
(***************************************************************************)
(* What OCM knows of its clusters and how the commands look them up        *)
(* (pkg/ocm/ocm.go): GetTargetCluster, GetManagingCluster and              *)
(* GetServiceCluster as the sets of results they may return.  An empty set *)
(* is an error; the requests themselves may fail besides.  OCM tells a     *)
(* command the NAME of a cluster above another, and the command looks for  *)
(* the cluster by it: the constants hold which cluster was meant, so that  *)
(* a property can compare the two.                                         *)
(***************************************************************************)
CONSTANTS
    Fleet,      \* the clusters OCM lists
    Unlisted,   \* those it only mentions, or the fleet manager does
    Names,      \* their names
    Keys,       \* what a user, an alert or an issue may call a cluster
    Matches,    \* Matches[k]: the clusters with k for id, name or external id
    NameOf,     \* NameOf[c]: the name of cluster c
    Hosted,     \* clusters with a hosted control plane
    ManagerOf,  \* ManagerOf[c]: the management cluster of hosted cluster c
    ShardOf,    \* ShardOf[c]: the clusters with the API URL of c's hive
    Managers,   \* management clusters the fleet manager knows
    ServiceOf,  \* ServiceOf[m]: the service cluster that is the parent of m
    Asleep,     \* clusters that hibernate
    Nothing     \* no cluster, no name

ASSUME OcmAssumption ==
    /\ Nothing \notin Fleet \cup Unlisted \cup Names
    /\ Fleet \cap Unlisted = {}
    /\ Names \cup Fleet \subseteq Keys
    /\ NameOf \in [Fleet \cup Unlisted -> Names]
    /\ Matches \in [Keys -> SUBSET Fleet]
    /\ \A c \in Fleet : c \in Matches[NameOf[c]]        \* "name like" (ocm.go:551)
    /\ Hosted \subseteq Fleet
    /\ ManagerOf \in [Hosted -> Fleet \cup Unlisted \cup {Nothing}]
    /\ ShardOf \in [Fleet -> SUBSET Fleet]
    /\ Managers \subseteq (Fleet \cup Unlisted) \ Hosted
    /\ ServiceOf \in [Managers -> Fleet \cup Unlisted \cup {Nothing}]
    /\ Asleep \subseteq Fleet

-----------------------------------------------------------------------------
\* The clusters GetManagingCluster may mean.  A Hypershift().Get() that is not
\* answered is taken for "not hosted", whatever the cluster, and the hive of its
\* provision shard for its manager: the first cluster with the URL.
ManagersMeant(c, answered) ==
    IF answered /\ c \in Hosted THEN {ManagerOf[c]} \ {Nothing} ELSE ShardOf[c]

\* GetManagingCluster returns id, name and isHostedControlPlane; "prompted" and
\* "unanswered" say how it came by them.
Manager == [id : Fleet, name : Names, hosted : BOOLEAN,
            prompted : BOOLEAN, unanswered : BOOLEAN]

\* Mutant: of several clusters of the manager's name the first is taken.
FirstManagingClusters(c) ==
    {r \in Manager :
        \E answered \in BOOLEAN : \E m \in ManagersMeant(c, answered) :
            /\ r.hosted = (answered /\ c \in Hosted)
            /\ r.unanswered = (~answered /\ c \in Hosted)
            /\ r.name = NameOf[m]
            /\ r.id \in Matches[r.name]
            /\ ~r.prompted}

\* The manager is looked up by its name, as a key; when several clusters match,
\* the user is prompted for one.
ManagingClusters(c) ==
    {r \in Manager :
        \E answered \in BOOLEAN : \E m \in ManagersMeant(c, answered) :
            /\ r.hosted = (answered /\ c \in Hosted)
            /\ r.unanswered = (~answered /\ c \in Hosted)
            /\ r.name = NameOf[m]
            /\ r.id \in Matches[r.name]
            /\ r.prompted = (Matches[r.name] # {r.id})}

\* The management clusters GetServiceCluster may mean, its first half.
ManagementMeant(c, answered) ==
    IF answered /\ c \in Hosted THEN {ManagerOf[c]} \ {Nothing}
    ELSE Managers \cap {c}

\* The parent of a management cluster called n: that of the first entry the fleet
\* manager has of that name; without an entry or a service cluster for its
\* parent, Nothing.
Parents(n) ==
    LET entries == {m \in Managers : NameOf[m] = n} IN
    IF entries = {} THEN {Nothing} ELSE {ServiceOf[m] : m \in entries}

\* GetServiceCluster: the first cluster OCM lists by the name of the parent.  A
\* name it does not list leaves the id empty.
ServiceClusters(c) ==
    {r \in [id : Fleet \cup {Nothing}, name : Names \cup {Nothing}] :
        \E answered \in BOOLEAN : \E m \in ManagementMeant(c, answered) :
            \E s \in Parents(NameOf[m]) :
                /\ r.name = IF s = Nothing THEN Nothing ELSE NameOf[s]
                /\ LET listed == {x \in Fleet : NameOf[x] = r.name} IN
                   IF listed = {} THEN r.id = Nothing ELSE r.id \in listed}
=============================================================================
