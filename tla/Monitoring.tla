------------------------------ MODULE Monitoring ------------------------------
(***************************************************************************)
(* "ocm backplane monitoring" (pkg/monitoring/monitoring.go): RunMonitoring *)
(* checks the cluster of the current context and then serves a proxy to    *)
(* its monitoring until it is killed.  It reads the kubeconfig up to four  *)
(* times on the way, while the commands of Kubeconfig run in the other     *)
(* terminals; its own terminal runs nothing else.                          *)
(***************************************************************************)
EXTENDS Kubeconfig

CONSTANTS
    Deprecated  \* clusters at 4.11 or later, where the UIs are not served

ASSUME MonitoringAssumption == Deprecated \subseteq Clusters

VARIABLES
    monitor     \* monitor[t]: the monitoring command of terminal t

monitoringVars == <<vars, monitor>>

Off == [step |-> "off", host |-> None, url |-> None, version |-> None,
        domain |-> None, undisturbed |-> FALSE]

Readings == Clusters \cup {None}

MonitoringTypeOK ==
    /\ TypeOK
    /\ monitor \in [Terminals ->
          [step    : {"off", "url", "version", "domain", "test", "serving"},
           host    : Readings,      \* of cfg, for the route and the Grafana user
           url     : Readings,      \* of the URL the proxy forwards to
           version : Readings,      \* of the version check, if there was one
           domain  : Readings,      \* of the check of --origin, if there was one
           undisturbed : BOOLEAN]]  \* history: works on a cluster's own file alone

MonitoringInit == Init /\ monitor = [t \in Terminals |-> Off]

-----------------------------------------------------------------------------
\* Mutant: the default kubeconfig is read, not the one $KUBECONFIG names.
HostInDefault(t) ==
    LET rc == disk[Default] IN
    IF rc.current \in rc.ctxs \ {Foreign} THEN rc.current ELSE None

\* The cluster in the host of the current context; None: no backplane URL.
HostOf(t) ==
    LET rc == disk[env[t]] IN
    IF rc.current \in rc.ctxs \ {Foreign} THEN rc.current ELSE None

\* Nobody else uses the file of t.
OnOwnFile(t, e) == e[t] \in Clusters /\ \A u \in Terminals \ {t} : e[u] # e[t]

Reads(t, from, to) ==
    /\ monitor[t].step = from
    /\ HostOf(t) # None
    /\ UNCHANGED vars
    /\ monitor' = [monitor EXCEPT ![t] =
         CASE from = "url"     -> [@ EXCEPT !.step = to, !.url = HostOf(t)]
           [] from = "version" -> [@ EXCEPT !.step = to, !.version = HostOf(t)]
           [] from = "domain"  -> [@ EXCEPT !.step = to, !.domain = HostOf(t)]]

Skips(t, from, to) ==
    /\ monitor[t].step = from
    /\ monitor' = [monitor EXCEPT ![t].step = to]
    /\ UNCHANGED vars

\* cfg is built; it must be of backplane.
StartMonitoring(t) ==
    /\ cmd[t].pc = "idle" /\ monitor[t].step = "off"
    /\ left > 0
    /\ HostOf(t) # None
    /\ left' = left - 1
    /\ monitor' = [monitor EXCEPT ![t] = [Off EXCEPT !.step = "url", !.host = HostOf(t),
                                            !.undisturbed = OnOwnFile(t, env)
                                                            /\ HostOf(t) = env[t]]]
    /\ UNCHANGED <<disk, env, cmd, now, lastUsed>>

\* getBackplaneMonitoringURL.
FindURL(t) == Reads(t, "url", "version")

\* validateClusterVersion, in the namespace openshift-monitoring only, and of
\* consequence for all UIs but thanos.
ValidateVersion(t) ==
    \/ HostOf(t) \notin Deprecated /\ Reads(t, "version", "domain")
    \/ Skips(t, "version", "domain")

\* serveURL: with --origin the base domain must be that of the cluster.
ServeURL(t) == Reads(t, "domain", "test") \/ Skips(t, "domain", "test")

\* The Grafana user, the request that tests the monitoring stack, the port.
TestAndListen(t) == Skips(t, "test", "serving")

\* It fails, as it may anywhere, or is killed, as it must be once it serves.
MonitoringEnds(t) ==
    /\ monitor[t].step # "off"
    /\ monitor' = [monitor EXCEPT ![t] = Off]
    /\ UNCHANGED vars

\* The other terminals, and the clock; to log out of a named cluster any of
\* them will do.
KubeconfigStep ==
    /\ Next
    /\ \A t \in Terminals : monitor[t].step # "off" => cmd'[t] = cmd[t]
    /\ monitor' = [t \in Terminals |->
         [monitor[t] EXCEPT !.undisturbed = @ /\ OnOwnFile(t, env')]]

MonitoringNext ==
    \/ KubeconfigStep
    \/ \E t \in Terminals :
         \/ StartMonitoring(t) \/ FindURL(t) \/ ValidateVersion(t) \/ ServeURL(t)
         \/ TestAndListen(t) \/ MonitoringEnds(t)

MonitoringSpec == MonitoringInit /\ [][MonitoringNext]_monitoringVars

-----------------------------------------------------------------------------
(* Properties *)

\* What a terminal that works on a cluster's own file serves is that cluster,
\* and everything checked before is of that cluster too, whatever the other
\* terminals log in to or out of between the four readings (monitoring.go:66,
\* 212, 359, 311; README "Login to multiple clusters").  On the default
\* kubeconfig nothing of the kind holds.
ServesTheClusterItChecked ==
    \A t \in Terminals :
        LET m == monitor[t] IN
        (m.step = "serving" /\ m.undisturbed) =>
            /\ m.url = env[t] /\ m.host = env[t]
            /\ {m.version, m.domain} \subseteq {env[t], None}
            /\ m.version \notin Deprecated
=============================================================================
