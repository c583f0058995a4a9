------------------------------- MODULE Console -------------------------------
(***************************************************************************)
(* "ocm backplane console" (cmd/ocm-backplane/console/console.go): the     *)
(* main goroutine removes what an earlier run left, starts a goroutine     *)
(* that runs the console and monitoring-plugin containers, and waits for   *)
(* Ctrl-C to remove them again.  The two goroutines, other runs of the     *)
(* command and a login in another terminal, which changes the current      *)
(* cluster, interleave; the cluster is read again at every stage.          *)
(***************************************************************************)
EXTENDS Naturals, Sequences

CONSTANTS
    Clusters,
    Modern,    \* clusters at 4.14 or later, which need the monitoring plugin
    Runs,      \* runs of the console command
    None,      \* nobody, no cluster
    JoinsNetwork, \* the engine is podman: the plugin joins the console's network
    MaxSwitches   \* bound: how often other terminals change the cluster

ASSUME ConsoleAssumption == /\ Modern \subseteq Clusters
                            /\ JoinsNetwork \in BOOLEAN
                            /\ MaxSwitches \in Nat
                            /\ None \notin Clusters \cup Runs

VARIABLES
    current,   \* the cluster of the current context, None: logged out
    switches,  \* how often that has changed
    owner,     \* owner[k]: the run that started container k, None: no such
    main,      \* main[p]: where the main goroutine of run p is
    runner,    \* runner[p]: where its runContainers goroutine is
    needPlugin,\* o.needMonitorPlugin
    queue,     \* the containers a clean-up still has to look at
    cluster,   \* the cluster a clean-up read from the kubeconfig
    runsOn,    \* the cluster the step of runContainers under way has read
    signalled, \* a signal is in the channel sigs
    settled,   \* history: runContainers was through when the signal came
    gone       \* history: the runs that were over when the leftovers were listed

world  == <<current, switches, owner>>
memory == <<needPlugin, queue, cluster, runsOn, signalled, settled, gone>>
vars   == <<world, main, runner, memory>>

\* The containers are named after their cluster.
ConsoleOf(c) == <<"console", c>>
PluginOf(c)  == <<"monitoring-plugin", c>>
Containers   == UNION {{ConsoleOf(c), PluginOf(c)} : c \in Clusters}

MainStates == {"start", "list", "preclean", "prestop", "cleanUp", "notify",
               "await", "clean", "stop", "exited", "killed"}

RunnerStates == {"none", "name", "runConsole", "pluginName", "runPlugin",
                 "printURL", "done", "blocked", "dead"}

Over == {"exited", "killed"}   \* an exit may be with an error

TypeOK ==
    /\ current \in Clusters \cup {None}
    /\ switches \in 0..MaxSwitches
    /\ owner \in [Containers -> Runs \cup {None}]
    /\ main \in [Runs -> MainStates]
    /\ runner \in [Runs -> RunnerStates]
    /\ needPlugin \in [Runs -> BOOLEAN]
    /\ queue \in [Runs -> {<<>>} \cup {<<k>> : k \in Containers}
                                 \cup Containers \X Containers]
    /\ cluster \in [Runs -> Clusters \cup {None}]
    /\ runsOn \in [Runs -> Clusters \cup {None}]
    /\ signalled \in [Runs -> BOOLEAN]
    /\ settled \in [Runs -> BOOLEAN]
    /\ gone \in [Runs -> SUBSET Runs]

Init ==
    /\ current \in Clusters
    /\ switches = 0
    /\ owner = [k \in Containers |-> None]
    /\ main = [p \in Runs |-> "start"]
    /\ runner = [p \in Runs |-> "none"]
    /\ needPlugin = [p \in Runs |-> FALSE]
    /\ queue = [p \in Runs |-> <<>>]
    /\ cluster = [p \in Runs |-> None]
    /\ runsOn = [p \in Runs |-> None]
    /\ signalled = [p \in Runs |-> FALSE]
    /\ settled = [p \in Runs |-> FALSE]
    /\ gone = [p \in Runs |-> {}]

\* The main goroutine moves to s.
Goto(p, s) ==
    /\ main' = [main EXCEPT ![p] = s]
    /\ UNCHANGED runner

\* The process ends, and its other goroutine and its memory with it.
End(p, s) ==
    /\ main' = [main EXCEPT ![p] = s]
    /\ runner' = [runner EXCEPT ![p] = "dead"]
    /\ needPlugin' = [needPlugin EXCEPT ![p] = FALSE]
    /\ queue' = [queue EXCEPT ![p] = <<>>]
    /\ cluster' = [cluster EXCEPT ![p] = None]
    /\ runsOn' = [runsOn EXCEPT ![p] = None]
    /\ signalled' = [signalled EXCEPT ![p] = FALSE]
    /\ settled' = [settled EXCEPT ![p] = FALSE]
    /\ gone' = [gone EXCEPT ![p] = {}]
    /\ UNCHANGED world

-----------------------------------------------------------------------------
(* The main goroutine *)

\* isRunningHigherOrEqualTo: FALSE also when OCM does not answer, or answers
\* with no version.
MayBeModern(c) == {b \in BOOLEAN : b => c \in Modern}

\* The options are worked out from the current cluster, and the images pulled.
Prepare(p) ==
    /\ main[p] = "start"
    /\ current # None
    /\ \E need \in MayBeModern(current) :
          needPlugin' = [needPlugin EXCEPT ![p] = need]
    /\ Goto(p, "list")
    /\ UNCHANGED <<world, queue, cluster, runsOn, signalled, settled, gone>>

\* The runs that are over; what they started and did not stop is still there.
Finished == {q \in Runs : main[q] \in Over}

\* Mutant: the plugin is looked for only when this run needs one.
ListNeededLeftovers(p) ==
    /\ main[p] = "list"
    /\ current # None
    /\ cluster' = [cluster EXCEPT ![p] = current]
    /\ queue' = [queue EXCEPT ![p] =
                    (IF needPlugin[p] THEN <<PluginOf(current)>> ELSE <<>>)
                       \o <<ConsoleOf(current)>>]
    /\ gone' = [gone EXCEPT ![p] = Finished]
    /\ Goto(p, "preclean")
    /\ UNCHANGED <<world, needPlugin, runsOn, signalled, settled>>

\* beforeStartCleanUp reads the cluster and lists its two containers.
ListLeftovers(p) ==
    /\ main[p] = "list"
    /\ current # None
    /\ cluster' = [cluster EXCEPT ![p] = current]
    /\ queue' = [queue EXCEPT ![p] = <<PluginOf(current), ConsoleOf(current)>>]
    /\ gone' = [gone EXCEPT ![p] = Finished]
    /\ Goto(p, "preclean")
    /\ UNCHANGED <<world, needPlugin, runsOn, signalled, settled>>

\* Any step of the main goroutine that talks to OCM, the cluster or the
\* container engine, or reads the kubeconfig, may fail; run returns the error.
Fail(p) ==
    /\ main[p] \in {"start", "list", "preclean", "prestop", "cleanUp", "clean",
                   "stop"}
    /\ End(p, "exited")

\* ContainerIsExist, in beforeStartCleanUp and in the clean-up at the end.
CheckContainer(p) ==
    /\ main[p] \in {"preclean", "clean"}
    /\ queue[p] # <<>>
    /\ IF owner[Head(queue[p])] # None
         THEN /\ Goto(p, IF main[p] = "preclean" THEN "prestop" ELSE "stop")
              /\ UNCHANGED queue
         ELSE /\ queue' = [queue EXCEPT ![p] = Tail(@)]
              /\ UNCHANGED <<main, runner>>
    /\ UNCHANGED <<world, needPlugin, cluster, runsOn, signalled, settled, gone>>

\* StopContainer; the engine refuses when the container has gone meanwhile.
StopContainer(p) ==
    /\ main[p] \in {"prestop", "stop"}
    /\ owner[Head(queue[p])] # None
    /\ owner' = [owner EXCEPT ![Head(queue[p])] = None]
    /\ queue' = [queue EXCEPT ![p] = Tail(@)]
    /\ Goto(p, IF main[p] = "prestop" THEN "preclean" ELSE "clean")
    /\ UNCHANGED <<current, switches, needPlugin, cluster, runsOn, signalled,
                   settled, gone>>

\* "go o.runContainers(ce, errs)", and "if len(errs) != 0", which is never so:
\* errs is unbuffered and its length is always 0.
SpawnRunner(p) ==
    /\ main[p] = "preclean" /\ queue[p] = <<>>
    /\ runner' = [runner EXCEPT ![p] = "name"]
    /\ main' = [main EXCEPT ![p] = "cleanUp"]
    /\ UNCHANGED <<world, memory>>

\* Mutant: the containers are removed in the wrong order.
ListConsoleFirst(p) ==
    /\ main[p] = "cleanUp"
    /\ current # None
    /\ cluster' = [cluster EXCEPT ![p] = current]
    /\ queue' = [queue EXCEPT ![p] = <<ConsoleOf(current)>> \o
                    IF needPlugin[p] THEN <<PluginOf(current)>> ELSE <<>>]
    /\ Goto(p, "notify")
    /\ UNCHANGED <<world, needPlugin, runsOn, signalled, settled, gone>>

\* Mutant: the monitoring plugin is forgotten.
ListConsoleOnly(p) ==
    /\ main[p] = "cleanUp"
    /\ current # None
    /\ cluster' = [cluster EXCEPT ![p] = current]
    /\ queue' = [queue EXCEPT ![p] = <<ConsoleOf(current)>>]
    /\ Goto(p, "notify")
    /\ UNCHANGED <<world, needPlugin, runsOn, signalled, settled, gone>>

\* Mutant: the error of getClusterID is ignored.
ListContainersAnyway(p) ==
    /\ main[p] = "cleanUp"
    /\ cluster' = [cluster EXCEPT ![p] = current]
    /\ queue' = [queue EXCEPT ![p] =
                    (IF needPlugin[p] THEN <<PluginOf(current)>> ELSE <<>>)
                       \o <<ConsoleOf(current)>>]
    /\ Goto(p, "notify")
    /\ UNCHANGED <<world, needPlugin, runsOn, signalled, settled, gone>>

\* cleanUp reads the cluster again and lists the containers to remove, the
\* plugin first.
ListContainers(p) ==
    /\ main[p] = "cleanUp"
    /\ current # None
    /\ cluster' = [cluster EXCEPT ![p] = current]
    /\ queue' = [queue EXCEPT ![p] =
                    (IF needPlugin[p] THEN <<PluginOf(current)>> ELSE <<>>)
                       \o <<ConsoleOf(current)>>]
    /\ Goto(p, "notify")
    /\ UNCHANGED <<world, needPlugin, runsOn, signalled, settled, gone>>

Notify(p) ==
    /\ main[p] = "notify"
    /\ Goto(p, "await")
    /\ UNCHANGED <<world, memory>>

\* Mutant: main waits for an error of runContainers as well.
ReceiveSignalAndError(p) ==
    /\ main[p] = "await"
    /\ signalled[p] /\ runner[p] = "blocked"
    /\ settled' = [settled EXCEPT ![p] = TRUE]
    /\ Goto(p, "clean")
    /\ UNCHANGED <<world, needPlugin, queue, cluster, runsOn, signalled, gone>>

ReceiveSignal(p) ==
    /\ main[p] = "await"
    /\ signalled[p]
    /\ settled' = [settled EXCEPT ![p] = runner[p] \in {"done", "blocked"}]
    /\ Goto(p, "clean")
    /\ UNCHANGED <<world, needPlugin, queue, cluster, runsOn, signalled, gone>>

Exit(p) ==
    /\ main[p] = "clean" /\ queue[p] = <<>>
    /\ End(p, "exited")

-----------------------------------------------------------------------------
(* The runContainers goroutine *)

RunnerStep(p, from, to) ==
    /\ runner[p] = from
    /\ runner' = [runner EXCEPT ![p] = to]
    /\ UNCHANGED <<current, switches, main, needPlugin, queue, cluster, signalled,
                   settled, gone>>

\* The cluster is read once for the console and once for the plugin.
ReadCluster(p) ==
    /\ current # None
    /\ \/ RunnerStep(p, "name", "runConsole")
       \/ needPlugin[p] /\ RunnerStep(p, "pluginName", "runPlugin")
    /\ runsOn' = [runsOn EXCEPT ![p] = current]
    /\ UNCHANGED owner

\* The engine starts the container, if no container has its name.
RunContainer(p, k) ==
    /\ owner[k] = None
    /\ owner' = [owner EXCEPT ![k] = p]
    /\ runsOn' = [runsOn EXCEPT ![p] = None]

RunConsoleContainer(p) ==
    /\ RunnerStep(p, "runConsole", "pluginName")
    /\ RunContainer(p, ConsoleOf(runsOn[p]))

RunMonitorPlugin(p) ==
    \/ /\ needPlugin[p]
       /\ RunnerStep(p, "runPlugin", "printURL")
       /\ JoinsNetwork => owner[ConsoleOf(runsOn[p])] # None
       /\ RunContainer(p, PluginOf(runsOn[p]))
    \/ /\ ~needPlugin[p]
       /\ RunnerStep(p, "pluginName", "printURL")
       /\ UNCHANGED <<owner, runsOn>>

PrintURL(p) ==
    /\ RunnerStep(p, "printURL", "done")
    /\ UNCHANGED <<owner, runsOn>>

\* Any of these steps may fail.  "errs <- err" then waits for ever for a
\* receiver, also where the code means to go on to the next step.
ReportError(p) ==
    /\ \/ \E s \in {"name", "runConsole", "runPlugin", "printURL"} :
             RunnerStep(p, s, "blocked")
       \/ needPlugin[p] /\ RunnerStep(p, "pluginName", "blocked")
    /\ runsOn' = [runsOn EXCEPT ![p] = None]
    /\ UNCHANGED owner

-----------------------------------------------------------------------------
(* The rest of the world *)

\* Ctrl-C.  Until signal.Notify is called it kills the process.
Signal(p) ==
    /\ main[p] \notin Over \cup {"start"}
    /\ IF main[p] \in {"await", "clean", "stop"}
         THEN /\ signalled' = [signalled EXCEPT ![p] = TRUE]
              /\ UNCHANGED <<world, main, runner, needPlugin, queue, cluster,
                             runsOn, settled, gone>>
         ELSE End(p, "killed")

\* Login or logout in another terminal.
SwitchCluster ==
    /\ switches < MaxSwitches
    /\ switches' = switches + 1
    /\ \E c \in Clusters \cup {None} : c # current /\ current' = c
    /\ UNCHANGED <<memory, owner, main, runner>>

MainSteps(p) ==
    \/ Prepare(p) \/ ListLeftovers(p) \/ Fail(p)
    \/ CheckContainer(p) \/ StopContainer(p) \/ SpawnRunner(p)
    \/ ListContainers(p) \/ Notify(p) \/ ReceiveSignal(p) \/ Exit(p)

RunnerSteps(p) ==
    \/ ReadCluster(p) \/ RunConsoleContainer(p) \/ RunMonitorPlugin(p)
    \/ PrintURL(p) \/ ReportError(p)

Next ==
    \/ \E p \in Runs : MainSteps(p) \/ RunnerSteps(p) \/ Signal(p)
    \/ SwitchCluster

Spec == Init /\ [][Next]_vars

\* Both goroutines run; nobody has to press Ctrl-C or change the cluster.
FairSpec == /\ Spec
            /\ \A p \in Runs : WF_vars(MainSteps(p)) /\ WF_vars(RunnerSteps(p))

-----------------------------------------------------------------------------
(* Properties *)

\* What runs that were killed, or that failed half way, left of their containers
\* on a cluster is gone when a later run there starts its own, whatever the other
\* runs do meanwhile and whether or not OCM lets this run know that the cluster
\* has a plugin.
\* (console.go:627-654)
PrecleanRemovesLeftovers ==
    \A p \in Runs : (main[p] = "preclean" /\ queue[p] = <<>>) =>
        {owner[PluginOf(cluster[p])], owner[ConsoleOf(cluster[p])]} \cap gone[p] = {}

\* When the containers were up, or had failed to come up, at Ctrl-C, a clean-up
\* about to succeed leaves no container of this run on the cluster it read.
\* (console.go:658-699)
CleanUpIsComplete ==
    \A p \in Runs : (main[p] = "clean" /\ queue[p] = <<>> /\ settled[p]) =>
        /\ owner[PluginOf(cluster[p])] # p
        /\ owner[ConsoleOf(cluster[p])] # p

\* "forcing order of removal": the clean-up does not take the console away under
\* a running plugin of the same run, which shares its network.
PluginIsStoppedFirst ==
    [][\A p \in Runs, c \in Clusters :
          (/\ main[p] = "stop" /\ queue'[p] # queue[p] /\ settled[p]
           /\ owner[ConsoleOf(c)] = p /\ owner'[ConsoleOf(c)] = None)
              => owner[PluginOf(c)] # p]_vars

\* After Ctrl-C the command ends, even if runContainers is blocked on errs.
SignalEndsTheRun ==
    \A p \in Runs : (main[p] = "await" /\ signalled[p]) ~> (main[p] \in Over)
=============================================================================
