---------------------------- MODULE ConsoleProofs ----------------------------
(***************************************************************************)
(* Theorems about Console, for any clusters, any number of runs and any    *)
(* switches of the cluster: type correctness, and what the clean-up        *)
(* removes and in which order.                                             *)
(***************************************************************************)
EXTENDS Console, TLAPS, SequenceTheorems

\* What a clean-up on cluster c may still have to look at.
Pending(c) == {<<PluginOf(c), ConsoleOf(c)>>, <<ConsoleOf(c)>>, <<>>}

\* Run p by itself: it owns nothing before its goroutine is started, and no
\* plugin unless it needs one; a clean-up looks at the containers of the cluster
\* it read, and once nothing can be started any more those it has been past are
\* not the run's.
RunOK(p) ==
    /\ main[p] \in {"start", "list", "preclean", "prestop"} => runner[p] = "none"
    /\ main[p] \in Over => runner[p] = "dead"
    /\ runner[p] = "none" => \A k \in Containers : owner[k] # p
    /\ main[p] \notin Over =>
          \A c \in Clusters : owner[PluginOf(c)] = p => needPlugin[p]
    /\ main[p] \in {"preclean", "prestop", "notify", "await", "clean", "stop"} =>
          cluster[p] \in Clusters /\ queue[p] \in Pending(cluster[p])
    /\ main[p] \in {"prestop", "stop"} => queue[p] # <<>>
    /\ main[p] \in {"notify", "await"} =>
          /\ needPlugin[p] => queue[p] = <<PluginOf(cluster[p]), ConsoleOf(cluster[p])>>
          /\ queue[p] # <<>>
    /\ (main[p] \in {"clean", "stop"} /\ settled[p]) =>
          /\ runner[p] \in {"done", "blocked"}
          /\ owner[PluginOf(cluster[p])] = p =>
                queue[p] = <<PluginOf(cluster[p]), ConsoleOf(cluster[p])>>
          /\ owner[ConsoleOf(cluster[p])] = p => queue[p] # <<>>

IInv == TypeOK /\ \A p \in Runs : RunOK(p)

\* The two containers of a cluster are there, and two.
LEMMA ContainerFacts ==
    ASSUME NEW c \in Clusters
    PROVE  /\ PluginOf(c) \in Containers /\ ConsoleOf(c) \in Containers
           /\ \A x : PluginOf(c) # ConsoleOf(x)
           /\ \A x : ConsoleOf(x) = ConsoleOf(c) => x = c
<1> QED BY DEF PluginOf, ConsoleOf, Containers

\* A clean-up's queue, and what is left when its head has been looked at.
LEMMA QueueFacts ==
    ASSUME NEW k, NEW l
    PROVE  /\ Head(<<k, l>>) = k /\ Tail(<<k, l>>) = <<l>>
           /\ Head(<<l>>) = l /\ Tail(<<l>>) = <<>>
           /\ <<k, l>> # <<>> /\ <<l>> # <<>> /\ <<k, l>> # <<l>>
<1> QED OBVIOUS

\* The plugin, if any, and then the console.
LEMMA ConcatFacts ==
    ASSUME NEW k, NEW l
    PROVE  <<k>> \o <<l>> = <<k, l>> /\ <<>> \o <<l>> = <<l>>
<1> DEFINE S == {k, l}
<1>1. <<k>> \in Seq(S) /\ <<l>> \in Seq(S) /\ <<k, l>> \in Seq(S)
  OBVIOUS
<1>2. /\ <<k>> \o <<l>> \in Seq(S) /\ Len(<<k>> \o <<l>>) = 2
      /\ (<<k>> \o <<l>>)[1] = k /\ (<<k>> \o <<l>>)[2] = l
  BY <1>1, ConcatProperties
<1>3. <<k>> \o <<l>> = <<k, l>>
  <2> DEFINE s == <<k>> \o <<l>>
             t == <<k, l>>
  <2>1. s \in Seq(S) /\ t \in Seq(S) /\ Len(s) = 2 /\ Len(t) = 2
        /\ s[1] = t[1] /\ s[2] = t[2]
    BY <1>1, <1>2
  <2> HIDE DEF s, t
  <2>2. \A i \in 1..Len(s) : s[i] = t[i]
    BY <2>1
  <2>3. s = t
    BY <2>1, <2>2, SeqEqual
  <2> QED BY <2>3 DEF s, t
<1> QED BY <1>1, <1>3, ConcatEmptySeq

Queues == {<<>>} \cup {<<k>> : k \in Containers} \cup Containers \X Containers

\* Those queues are of their type, with what is left of them.
LEMMA PendingFacts ==
    ASSUME NEW c \in Clusters, NEW q \in Pending(c)
    PROVE  /\ q \in Queues
           /\ q # <<>> =>
                /\ Tail(q) \in Pending(c)
                /\ Head(q) \in {PluginOf(c), ConsoleOf(c)}
                /\ Head(q) = ConsoleOf(c) => q = <<ConsoleOf(c)>> /\ Tail(q) = <<>>
                /\ Head(q) = PluginOf(c) => q = <<PluginOf(c), ConsoleOf(c)>>
                /\ q = <<PluginOf(c), ConsoleOf(c)>> =>
                      Head(q) = PluginOf(c) /\ Tail(q) = <<ConsoleOf(c)>>
<1> DEFINE P == PluginOf(c)
           C == ConsoleOf(c)
<1>1. P \in Containers /\ C \in Containers /\ P # C
  BY ContainerFacts
<1>2. q \in {<<P, C>>, <<C>>, <<>>} /\ Pending(c) = {<<P, C>>, <<C>>, <<>>}
  BY DEF Pending
<1> HIDE DEF P, C
<1>3. q \in Queues
  BY <1>1, <1>2 DEF Queues
<1>4. q # <<>> =>
        /\ Tail(q) \in {<<P, C>>, <<C>>, <<>>}
        /\ Head(q) \in {P, C}
        /\ Head(q) = C => q = <<C>> /\ Tail(q) = <<>>
        /\ Head(q) = P => q = <<P, C>>
        /\ q = <<P, C>> => Head(q) = P /\ Tail(q) = <<C>>
  BY <1>1, <1>2, QueueFacts
<1> QED BY <1>2, <1>3, <1>4 DEF P, C

\* What p has to do with is not touched, but for containers others start or stop.
LEMMA RunUntouched ==
    ASSUME NEW p \in Runs, RunOK(p),
           main'[p] = main[p], runner'[p] = runner[p], needPlugin'[p] = needPlugin[p],
           queue'[p] = queue[p], cluster'[p] = cluster[p], settled'[p] = settled[p],
           \A k \in Containers : owner'[k] = p => owner[k] = p
    PROVE  RunOK(p)'
<1>1. \A c \in Clusters : PluginOf(c) \in Containers /\ ConsoleOf(c) \in Containers
  BY ContainerFacts
<1> QED BY <1>1 DEF RunOK

\* It is enough to look at the run that makes the step.
LEMMA OwnStep ==
    ASSUME IInv, NEW p \in Runs, TypeOK', RunOK(p)',
           \A q \in Runs \ {p} :
              /\ main'[q] = main[q] /\ runner'[q] = runner[q]
              /\ needPlugin'[q] = needPlugin[q] /\ queue'[q] = queue[q]
              /\ cluster'[q] = cluster[q] /\ settled'[q] = settled[q],
           \A k \in Containers : owner'[k] \in {owner[k], p, None}
    PROVE  IInv'
<1>1. None \notin Runs
  BY ConsoleAssumption
<1>2. ASSUME NEW q \in Runs, q # p PROVE RunOK(q)'
  BY <1>1, <1>2, RunUntouched DEF IInv
<1> QED BY <1>2 DEF IInv

\* It holds at the start.
LEMMA InitIInv == Init => IInv
<1> SUFFICES ASSUME Init PROVE IInv
  OBVIOUS
<1>1. TypeOK
  <2>1. <<>> \in Queues
    BY DEF Queues
  <2> QED BY <2>1, ConsoleAssumption DEF Init, TypeOK, MainStates, RunnerStates, Queues
<1>2. ASSUME NEW p \in Runs PROVE RunOK(p)
  <2>1. \A c \in Clusters : PluginOf(c) \in Containers
    BY ContainerFacts
  <2> QED BY <2>1, ConsoleAssumption DEF Init, RunOK, Over
<1> QED BY <1>1, <1>2 DEF IInv

\* The process ends: what it owned stays behind.
LEMMA EndStep ==
    ASSUME IInv, NEW p \in Runs, NEW s \in Over, End(p, s)
    PROVE  IInv'
<1>1. <<>> \in Queues
  BY DEF Queues
<1>2. TypeOK'
  BY <1>1, ConsoleAssumption
  DEF IInv, TypeOK, End, world, MainStates, RunnerStates, Over, Queues
<1>3. main'[p] = s /\ runner'[p] = "dead" /\ owner' = owner
  BY DEF IInv, TypeOK, End, world
<1>4. RunOK(p)'
  BY <1>3 DEF RunOK, Over
<1>5. \A q \in Runs \ {p} :
         /\ main'[q] = main[q] /\ runner'[q] = runner[q]
         /\ needPlugin'[q] = needPlugin[q] /\ queue'[q] = queue[q]
         /\ cluster'[q] = cluster[q] /\ settled'[q] = settled[q]
  BY DEF IInv, TypeOK, End
<1> QED BY <1>2, <1>3, <1>4, <1>5, OwnStep

\* The main goroutine goes from one stage to the next and starts nothing.
LEMMA PrepareStep == ASSUME IInv, NEW p \in Runs, Prepare(p) PROVE IInv'
<1>1. TypeOK'
  <2>1. \E need \in BOOLEAN : needPlugin' = [needPlugin EXCEPT ![p] = need]
    BY DEF Prepare, MayBeModern
  <2>2. needPlugin' \in [Runs -> BOOLEAN]
    BY <2>1 DEF IInv, TypeOK
  <2> QED BY <2>2 DEF IInv, TypeOK, Prepare, Goto, world, MainStates
<1>2. /\ main[p] = "start" /\ main'[p] = "list" /\ runner' = runner /\ owner' = owner
  BY DEF IInv, TypeOK, Prepare, Goto, world
<1>3. RunOK(p)'
  <2>1. runner[p] = "none" /\ \A k \in Containers : owner[k] # p
    BY <1>2 DEF IInv, RunOK
  <2>2. \A c \in Clusters : PluginOf(c) \in Containers
    BY ContainerFacts
  <2> QED BY <1>2, <2>1, <2>2 DEF RunOK, Over
<1>4. \A q \in Runs \ {p} :
         /\ main'[q] = main[q] /\ runner'[q] = runner[q]
         /\ needPlugin'[q] = needPlugin[q] /\ queue'[q] = queue[q]
         /\ cluster'[q] = cluster[q] /\ settled'[q] = settled[q]
  BY DEF IInv, TypeOK, Prepare, Goto
<1> QED BY <1>1, <1>2, <1>3, <1>4, OwnStep

\* A clean-up lists the containers of the cluster it reads.
LEMMA ListStep ==
    ASSUME IInv, NEW p \in Runs, ListLeftovers(p) \/ ListContainers(p)
    PROVE  IInv'
<1> DEFINE all == <<PluginOf(current), ConsoleOf(current)>>
<1>1. current \in Clusters
  BY DEF IInv, TypeOK, ListLeftovers, ListContainers
<1>2. queue'[p] \in Pending(current) \ {<<>>} /\ (needPlugin[p] => queue'[p] = all)
  <2>1. CASE ListLeftovers(p)
    BY <2>1, QueueFacts DEF IInv, TypeOK, ListLeftovers, Pending
  <2>2. CASE ListContainers(p)
    <3>1. queue'[p] = (IF needPlugin[p] THEN <<PluginOf(current)>> ELSE <<>>)
                         \o <<ConsoleOf(current)>>
      BY <2>2 DEF IInv, TypeOK, ListContainers
    <3>2. CASE needPlugin[p]
      <4>1. queue'[p] = all
        BY <3>1, <3>2, ConcatFacts
      <4> QED BY <4>1, QueueFacts DEF Pending
    <3>3. CASE ~needPlugin[p]
      <4>1. queue'[p] = <<ConsoleOf(current)>>
        BY <3>1, <3>3, ConcatFacts
      <4> QED BY <3>3, <4>1, QueueFacts DEF Pending
    <3> QED BY <3>2, <3>3
  <2> QED BY <2>1, <2>2
<1>3. queue'[p] \in Queues
  BY <1>1, <1>2, PendingFacts
<1>4. /\ \/ main[p] = "list" /\ main' = [main EXCEPT ![p] = "preclean"]
         \/ main[p] = "cleanUp" /\ main' = [main EXCEPT ![p] = "notify"]
      /\ cluster' = [cluster EXCEPT ![p] = current]
      /\ \E new : queue' = [queue EXCEPT ![p] = new]
      /\ runner' = runner /\ owner' = owner /\ needPlugin' = needPlugin
      /\ current' = current /\ switches' = switches /\ runsOn' = runsOn
      /\ signalled' = signalled /\ settled' = settled
      /\ gone' = gone \/ gone' = [gone EXCEPT ![p] = Finished]
  BY DEF ListLeftovers, ListContainers, Goto, world
<1>5. TypeOK'
  BY <1>1, <1>3, <1>4 DEF IInv, TypeOK, MainStates, Queues, Finished
<1>6. RunOK(p)'
  <2>1. /\ main'[p] \in {"preclean", "notify"} /\ cluster'[p] = current
        /\ main[p] = "list" \/ main'[p] = "notify"
    BY <1>4 DEF IInv, TypeOK
  <2>2. RunOK(p) /\ main[p] \in {"list", "cleanUp"}
    BY <1>4 DEF IInv
  <2> QED BY <1>1, <1>2, <1>4, <2>1, <2>2 DEF RunOK, Over
<1>7. \A q \in Runs \ {p} :
         /\ main'[q] = main[q] /\ runner'[q] = runner[q]
         /\ needPlugin'[q] = needPlugin[q] /\ queue'[q] = queue[q]
         /\ cluster'[q] = cluster[q] /\ settled'[q] = settled[q]
  BY <1>4 DEF IInv, TypeOK
<1> QED BY <1>4, <1>5, <1>6, <1>7, OwnStep

\* A container that is not there is passed over.
LEMMA CheckStep == ASSUME IInv, NEW p \in Runs, CheckContainer(p) PROVE IInv'
<1> DEFINE c == cluster[p]
<1>1. /\ main[p] \in {"preclean", "clean"} /\ queue[p] # <<>>
      /\ c \in Clusters /\ queue[p] \in Pending(c)
      /\ owner' = owner /\ runner' = runner /\ needPlugin' = needPlugin
      /\ cluster' = cluster /\ settled' = settled
      /\ current' = current /\ switches' = switches /\ runsOn' = runsOn
      /\ signalled' = signalled /\ gone' = gone
  BY DEF IInv, RunOK, CheckContainer, Goto, world
<1>2. RunOK(p)
  BY DEF IInv
<1>3. CASE owner[Head(queue[p])] # None
  <2>1. /\ queue' = queue
        /\ main' = [main EXCEPT ![p] = IF main[p] = "preclean" THEN "prestop" ELSE "stop"]
    BY <1>3 DEF CheckContainer, Goto
  <2>2. TypeOK'
    BY <1>1, <2>1 DEF IInv, TypeOK, MainStates
  <2>3. main'[p] = IF main[p] = "preclean" THEN "prestop" ELSE "stop"
    BY <2>1 DEF IInv, TypeOK
  <2>4. RunOK(p)'
    BY <1>1, <1>2, <2>1, <2>3 DEF RunOK, Over
  <2> QED BY <1>1, <2>1, <2>2, <2>4, OwnStep DEF IInv, TypeOK
<1>4. CASE owner[Head(queue[p])] = None
  <2>1. /\ main' = main /\ queue' = [queue EXCEPT ![p] = Tail(queue[p])]
    BY <1>4 DEF CheckContainer
  <2>2. Tail(queue[p]) \in Pending(c) /\ Tail(queue[p]) \in Queues
    BY <1>1, PendingFacts
  <2>3. TypeOK'
    BY <1>1, <2>1, <2>2 DEF IInv, TypeOK, Queues
  <2>4. queue'[p] = Tail(queue[p])
    BY <2>1 DEF IInv, TypeOK
  <2>5. owner[Head(queue[p])] # p
    BY <1>4, ConsoleAssumption
  <2>6. /\ owner[PluginOf(c)] = p /\ queue[p] = <<PluginOf(c), ConsoleOf(c)>> => FALSE
        /\ owner[ConsoleOf(c)] = p => Tail(queue[p]) # <<>>
    <3>1. queue[p] = <<PluginOf(c), ConsoleOf(c)>> => Head(queue[p]) = PluginOf(c)
      BY <1>1, PendingFacts
    <3>2. queue[p] \in {<<PluginOf(c), ConsoleOf(c)>>, <<ConsoleOf(c)>>, <<>>}
      BY <1>1 DEF Pending
    <3>3. queue[p] = <<ConsoleOf(c)>> => Head(queue[p]) = ConsoleOf(c)
      BY QueueFacts
    <3>4. queue[p] = <<PluginOf(c), ConsoleOf(c)>> => Tail(queue[p]) # <<>>
      BY QueueFacts
    <3> QED BY <1>1, <2>5, <3>1, <3>2, <3>3, <3>4
  <2>7. RunOK(p)'
    BY <1>1, <1>2, <2>1, <2>2, <2>4, <2>6 DEF RunOK, Over
  <2> QED BY <1>1, <2>1, <2>3, <2>7, OwnStep DEF IInv, TypeOK
<1> QED BY <1>3, <1>4

\* A container is stopped, whoever started it.
LEMMA StopStep == ASSUME IInv, NEW p \in Runs, StopContainer(p) PROVE IInv'
<1> DEFINE c == cluster[p]
           k == Head(queue[p])
<1>1. /\ main[p] \in {"prestop", "stop"} /\ queue[p] # <<>>
      /\ c \in Clusters /\ queue[p] \in Pending(c) /\ RunOK(p)
  BY DEF IInv, RunOK, StopContainer
<1>2. /\ owner' = [owner EXCEPT ![k] = None]
      /\ queue' = [queue EXCEPT ![p] = Tail(queue[p])]
      /\ main' = [main EXCEPT ![p] = IF main[p] = "prestop" THEN "preclean" ELSE "clean"]
      /\ runner' = runner /\ needPlugin' = needPlugin
      /\ cluster' = cluster /\ settled' = settled
      /\ current' = current /\ switches' = switches /\ runsOn' = runsOn
      /\ signalled' = signalled /\ gone' = gone
  BY DEF StopContainer, Goto
<1>3. /\ Tail(queue[p]) \in Pending(c) /\ Tail(queue[p]) \in Queues
      /\ k \in {PluginOf(c), ConsoleOf(c)} /\ k \in Containers
  BY <1>1, PendingFacts, ContainerFacts
<1>4. TypeOK'
  BY <1>2, <1>3 DEF IInv, TypeOK, MainStates, Queues
<1>5. /\ queue'[p] = Tail(queue[p])
      /\ main'[p] = IF main[p] = "prestop" THEN "preclean" ELSE "clean"
      /\ \A l \in Containers : owner'[l] = IF l = k THEN None ELSE owner[l]
  BY <1>2 DEF IInv, TypeOK
<1>6. PluginOf(c) \in Containers /\ ConsoleOf(c) \in Containers
  BY <1>1, ContainerFacts
<1>7. /\ owner'[PluginOf(c)] = p /\ queue[p] = <<PluginOf(c), ConsoleOf(c)>> => FALSE
      /\ owner'[ConsoleOf(c)] = p => Tail(queue[p]) # <<>>
  <2>1. queue[p] = <<PluginOf(c), ConsoleOf(c)>> => k = PluginOf(c)
    BY <1>1, PendingFacts
  <2>2. queue[p] \in {<<PluginOf(c), ConsoleOf(c)>>, <<ConsoleOf(c)>>}
    BY <1>1 DEF Pending
  <2>3. queue[p] = <<ConsoleOf(c)>> => k = ConsoleOf(c)
    BY QueueFacts
  <2>4. queue[p] = <<PluginOf(c), ConsoleOf(c)>> => Tail(queue[p]) # <<>>
    BY QueueFacts
  <2>5. owner'[k] # p
    BY <1>3, <1>5, ConsoleAssumption
  <2> QED BY <2>1, <2>2, <2>3, <2>4, <2>5
<1> HIDE DEF k
<1>8. RunOK(p)'
  <2>1. \A d \in Clusters : PluginOf(d) \in Containers
    BY ContainerFacts
  <2>2. \A l \in Containers : owner'[l] = p => owner[l] = p
    BY <1>5, ConsoleAssumption
  <2> QED BY <1>1, <1>2, <1>3, <1>5, <1>6, <1>7, <2>1, <2>2 DEF RunOK, Over
<1>9. \A l \in Containers : owner'[l] \in {owner[l], None}
  BY <1>5
<1> QED BY <1>2, <1>4, <1>8, <1>9, OwnStep DEF IInv, TypeOK

\* The goroutine is started; the signal handler is installed.
LEMMA SpawnStep ==
    ASSUME IInv, NEW p \in Runs, SpawnRunner(p) \/ Notify(p)
    PROVE  IInv'
<1>1. /\ \/ /\ main[p] = "preclean" /\ main' = [main EXCEPT ![p] = "cleanUp"]
            /\ runner' = [runner EXCEPT ![p] = "name"]
         \/ /\ main[p] = "notify" /\ main' = [main EXCEPT ![p] = "await"]
            /\ runner' = runner
      /\ owner' = owner /\ needPlugin' = needPlugin /\ queue' = queue
      /\ cluster' = cluster /\ settled' = settled
      /\ current' = current /\ switches' = switches /\ runsOn' = runsOn
      /\ signalled' = signalled /\ gone' = gone
  BY DEF SpawnRunner, Notify, Goto, world, memory
<1>2. TypeOK'
  BY <1>1 DEF IInv, TypeOK, MainStates, RunnerStates
<1>3. /\ \/ /\ main[p] = "preclean" /\ main'[p] = "cleanUp" /\ runner'[p] = "name"
         \/ /\ main[p] = "notify" /\ main'[p] = "await" /\ runner'[p] = runner[p]
      /\ RunOK(p)
  BY <1>1 DEF IInv, TypeOK
<1>4. RunOK(p)'
  BY <1>1, <1>3 DEF RunOK, Over
<1> QED BY <1>1, <1>2, <1>4, OwnStep DEF IInv, TypeOK

\* Ctrl-C is received with the whole list to go through.
LEMMA ReceiveStep == ASSUME IInv, NEW p \in Runs, ReceiveSignal(p) PROVE IInv'
<1> DEFINE through == runner[p] \in {"done", "blocked"}
<1>1. /\ main[p] = "await" /\ main' = [main EXCEPT ![p] = "clean"]
      /\ settled' = [settled EXCEPT ![p] = through]
      /\ runner' = runner /\ owner' = owner /\ needPlugin' = needPlugin
      /\ queue' = queue /\ cluster' = cluster
      /\ current' = current /\ switches' = switches /\ runsOn' = runsOn
      /\ signalled' = signalled /\ gone' = gone
  BY DEF ReceiveSignal, Goto, world
<1>2. through \in BOOLEAN
  OBVIOUS
<1>3. TypeOK'
  BY <1>1, <1>2 DEF IInv, TypeOK, MainStates
<1>4. main'[p] = "clean" /\ settled'[p] = through /\ RunOK(p)
  BY <1>1 DEF IInv, TypeOK
<1>5. RunOK(p)'
  BY <1>1, <1>4 DEF RunOK, Over
<1> QED BY <1>1, <1>3, <1>5, OwnStep DEF IInv, TypeOK

\* The goroutine goes on, or reports an error that nobody receives; only while it
\* is not through does it start containers, a plugin only if one is needed.
LEMMA RunnerStepsStep == ASSUME IInv, NEW p \in Runs, RunnerSteps(p) PROVE IInv'
<1>1. /\ runner[p] \in {"name", "runConsole", "pluginName", "runPlugin", "printURL"}
      /\ \E to \in RunnerStates \ {"none"} : runner' = [runner EXCEPT ![p] = to]
      /\ main' = main /\ needPlugin' = needPlugin /\ queue' = queue
      /\ cluster' = cluster /\ settled' = settled
      /\ current' = current /\ switches' = switches /\ signalled' = signalled
      /\ gone' = gone
  BY DEF RunnerSteps, ReadCluster, RunConsoleContainer, RunMonitorPlugin, PrintURL,
         ReportError, RunnerStep, RunnerStates
<1>2. runsOn' \in [Runs -> Clusters \cup {None}]
  BY DEF RunnerSteps, ReadCluster, RunConsoleContainer, RunMonitorPlugin, PrintURL,
         ReportError, RunContainer, IInv, TypeOK
<1>3. \/ owner' = owner
      \/ owner' = [owner EXCEPT ![ConsoleOf(runsOn[p])] = p]
      \/ needPlugin[p] /\ owner' = [owner EXCEPT ![PluginOf(runsOn[p])] = p]
  BY DEF RunnerSteps, ReadCluster, RunConsoleContainer, RunMonitorPlugin, PrintURL,
         ReportError, RunContainer
<1>4. /\ owner' \in [Containers -> Runs \cup {None}]
      /\ \A k \in Containers : owner'[k] \in {owner[k], p}
  BY <1>3 DEF IInv, TypeOK
<1>5. \A c \in Clusters : owner'[PluginOf(c)] = p => owner[PluginOf(c)] = p \/ needPlugin[p]
  <2> SUFFICES ASSUME NEW c \in Clusters, ~needPlugin[p]
               PROVE  owner'[PluginOf(c)] = owner[PluginOf(c)]
    OBVIOUS
  <2>1. PluginOf(c) # ConsoleOf(runsOn[p]) /\ PluginOf(c) \in Containers
    BY ContainerFacts
  <2>2. owner' = owner \/ owner' = [owner EXCEPT ![ConsoleOf(runsOn[p])] = p]
    BY <1>3
  <2> QED BY <2>1, <2>2 DEF IInv, TypeOK
<1>6. TypeOK'
  <2>1. runner' \in [Runs -> RunnerStates]
    BY <1>1 DEF IInv, TypeOK
  <2> QED BY <1>1, <1>2, <1>4, <2>1 DEF IInv, TypeOK
<1>7. RunOK(p) /\ runner'[p] # "none"
  BY <1>1 DEF IInv, TypeOK
<1>8. RunOK(p)'
  BY <1>1, <1>5, <1>7 DEF RunOK, Over
<1> QED BY <1>1, <1>4, <1>6, <1>8, OwnStep DEF IInv, TypeOK

\* What happens outside touches no run, unless Ctrl-C kills it.
LEMMA OutsideStep ==
    ASSUME IInv,
           SwitchCluster \/ UNCHANGED vars \/ \E p \in Runs : Signal(p)
    PROVE  IInv'
<1>1. ASSUME main' = main, runner' = runner, owner' = owner, needPlugin' = needPlugin,
             queue' = queue, cluster' = cluster, settled' = settled, TypeOK'
      PROVE  IInv'
  BY <1>1, RunUntouched DEF IInv
<1>2. CASE SwitchCluster
  <2>1. TypeOK'
    BY <1>2, ConsoleAssumption DEF IInv, TypeOK, SwitchCluster, memory
  <2> QED BY <1>1, <1>2, <2>1 DEF SwitchCluster, memory
<1>3. CASE UNCHANGED vars
  BY <1>1, <1>3 DEF IInv, TypeOK, vars, world, memory
<1>4. ASSUME NEW p \in Runs, Signal(p) PROVE IInv'
  <2>1. CASE main[p] \in {"await", "clean", "stop"}
    <3>1. TypeOK'
      BY <1>4, <2>1 DEF IInv, TypeOK, Signal, world
    <3> QED BY <1>1, <1>4, <2>1, <3>1 DEF Signal, world
  <2>2. CASE main[p] \notin {"await", "clean", "stop"}
    BY <1>4, <2>2, EndStep DEF Signal, Over
  <2> QED BY <2>1, <2>2
<1> QED BY <1>2, <1>3, <1>4

\* Every step preserves the invariant.
LEMMA NextIInv == IInv /\ [Next]_vars => IInv'
<1>1. ASSUME IInv, NEW p \in Runs, Fail(p) \/ Exit(p) PROVE IInv'
  BY <1>1, EndStep DEF Fail, Exit, Over
<1> QED BY <1>1, PrepareStep, ListStep, CheckStep, StopStep, SpawnStep, ReceiveStep,
           RunnerStepsStep, OutsideStep DEF Next, MainSteps

\* It always holds.
LEMMA Invariance == FairSpec => []IInv
<1> QED BY InitIInv, NextIInv, PTL DEF FairSpec, Spec

\* Type correctness, for any number of runs.
THEOREM TypeCorrect == FairSpec => []TypeOK
<1>1. IInv => TypeOK
  BY DEF IInv
<1> QED BY <1>1, Invariance, PTL

\* However many runs and switches interleave, a clean-up that ends well after
\* the containers were up leaves none of its own on its cluster
\* (console.go:658-699).
THEOREM CleanUpComplete == FairSpec => []CleanUpIsComplete
<1>1. IInv => CleanUpIsComplete
  <2> SUFFICES ASSUME IInv, NEW p \in Runs,
                      main[p] = "clean", queue[p] = <<>>, settled[p]
               PROVE  /\ owner[PluginOf(cluster[p])] # p
                      /\ owner[ConsoleOf(cluster[p])] # p
    BY DEF CleanUpIsComplete
  <2>1. RunOK(p)
    BY DEF IInv
  <2>2. <<PluginOf(cluster[p]), ConsoleOf(cluster[p])>> # <<>>
    BY QueueFacts
  <2> QED BY <2>1, <2>2 DEF RunOK
<1> QED BY <1>1, Invariance, PTL

\* A run's pre-clean, which others may start and stop containers under: the runs
\* that were over when it began have no container any more among those it has
\* been past.
LeftoversOK(p) ==
    main[p] \in {"preclean", "prestop"} =>
        \A q \in gone[p] :
            /\ main[q] \in Over
            /\ owner[PluginOf(cluster[p])] = q =>
                  queue[p] = <<PluginOf(cluster[p]), ConsoleOf(cluster[p])>>
            /\ owner[ConsoleOf(cluster[p])] = q => queue[p] # <<>>

\* A run that is over starts nothing more.
LEMMA OverStartsNothing ==
    ASSUME IInv, Next, NEW q \in Runs, main[q] \in Over
    PROVE  /\ main'[q] \in Over
           /\ \A k \in Containers : owner'[k] = q => owner[k] = q
<1>1. runner[q] = "dead" /\ q # None
  BY ConsoleAssumption DEF IInv, RunOK
<1>2. ASSUME NEW p \in Runs, MainSteps(p)
      PROVE  /\ main'[q] \in Over
             /\ \A k \in Containers : owner'[k] = q => owner[k] = q
  <2>1. main[p] \notin Over /\ p # q
    BY <1>2 DEF MainSteps, Prepare, ListLeftovers, Fail, CheckContainer, StopContainer,
         SpawnRunner, ListContainers, Notify, ReceiveSignal, Exit, Over
  <2>2. main'[q] = main[q]
    BY <1>2, <2>1
    DEF MainSteps, Prepare, ListLeftovers, Fail, CheckContainer, StopContainer,
        SpawnRunner, ListContainers, Notify, ReceiveSignal, Exit, Goto, End, IInv, TypeOK
  <2>3. owner' = owner \/ owner' = [owner EXCEPT ![Head(queue[p])] = None]
    BY <1>2
    DEF MainSteps, Prepare, ListLeftovers, Fail, CheckContainer, StopContainer,
        SpawnRunner, ListContainers, Notify, ReceiveSignal, Exit, Goto, End, world, memory
  <2> QED BY <1>1, <2>2, <2>3 DEF IInv, TypeOK
<1>3. ASSUME NEW p \in Runs, RunnerSteps(p)
      PROVE  /\ main'[q] \in Over
             /\ \A k \in Containers : owner'[k] = q => owner[k] = q
  <2>1. main' = main /\ runner[p] # "dead"
    BY <1>3 DEF RunnerSteps, ReadCluster, RunConsoleContainer, RunMonitorPlugin, PrintURL,
         ReportError, RunnerStep
  <2>2. \/ owner' = owner
        \/ \E k : owner' = [owner EXCEPT ![k] = p]
    BY <1>3 DEF RunnerSteps, ReadCluster, RunConsoleContainer, RunMonitorPlugin, PrintURL,
         ReportError, RunContainer
  <2> QED BY <1>1, <2>1, <2>2 DEF IInv, TypeOK
<1>4. ASSUME NEW p \in Runs, Signal(p) PROVE main'[q] \in Over /\ owner' = owner
  BY <1>4 DEF Signal, End, world, Over, IInv, TypeOK
<1>5. CASE SwitchCluster
  BY <1>5 DEF SwitchCluster
<1> QED BY <1>2, <1>3, <1>4, <1>5 DEF Next

\* What a run's own pre-clean does to what is left.
LEMMA OwnPreclean ==
    ASSUME IInv, NEW p \in Runs, LeftoversOK(p), MainSteps(p),
           \A q \in Runs : main[q] \in Over => main'[q] \in Over
    PROVE  LeftoversOK(p)'
<1> DEFINE c == cluster[p]
           P == PluginOf(c)
           C == ConsoleOf(c)
<1>1. CASE ListLeftovers(p)
  <2>1. /\ gone'[p] = Finished /\ cluster'[p] = current /\ owner' = owner
        /\ queue'[p] = <<PluginOf(current), ConsoleOf(current)>>
    BY <1>1 DEF ListLeftovers, IInv, TypeOK, world
  <2> QED BY <2>1, QueueFacts DEF LeftoversOK, Finished
<1>2. CASE CheckContainer(p) \/ StopContainer(p)
  <2>1. SUFFICES ASSUME main'[p] \in {"preclean", "prestop"}, NEW q \in gone'[p]
                 PROVE  /\ main'[q] \in Over
                        /\ owner'[P] = q => queue'[p] = <<P, C>>
                        /\ owner'[C] = q => queue'[p] # <<>>
    BY <1>2 DEF LeftoversOK, CheckContainer, StopContainer
  <2>2. /\ main[p] \in {"preclean", "prestop"} /\ gone' = gone /\ queue[p] # <<>>
        /\ c \in Clusters /\ queue[p] \in Pending(c)
        /\ \/ owner' = owner /\ queue' = queue
           \/ owner[Head(queue[p])] = None /\ owner' = owner
              /\ queue'[p] = Tail(queue[p])
           \/ owner' = [owner EXCEPT ![Head(queue[p])] = None]
              /\ queue'[p] = Tail(queue[p])
    BY <1>2, <2>1 DEF CheckContainer, StopContainer, Goto, world, IInv, TypeOK, RunOK
  <2>3. /\ q \in Runs /\ q # None /\ main[q] \in Over
        /\ owner[P] = q => queue[p] = <<P, C>>
        /\ P \in Containers /\ C \in Containers
    BY <2>1, <2>2, ConsoleAssumption, ContainerFacts DEF LeftoversOK, IInv, TypeOK
  <2>4. /\ queue[p] \in {<<P, C>>, <<C>>}
        /\ queue[p] = <<P, C>> => Head(queue[p]) = P /\ Tail(queue[p]) # <<>>
        /\ queue[p] = <<C>> => Head(queue[p]) = C
    <3>1. queue[p] \in {<<P, C>>, <<C>>}
      BY <2>2 DEF Pending
    <3> QED BY <3>1, QueueFacts
  <2>5. P # C
    BY <2>2, ContainerFacts
  <2> HIDE DEF c, P, C
  <2> QED BY <2>2, <2>3, <2>4, <2>5 DEF IInv, TypeOK
<1>3. CASE ~(ListLeftovers(p) \/ CheckContainer(p) \/ StopContainer(p))
  <2>1. main'[p] \notin {"preclean", "prestop"}
    BY <1>3 DEF MainSteps, Prepare, Fail, SpawnRunner, ListContainers, Notify,
         ReceiveSignal, Exit, Goto, End, IInv, TypeOK
  <2> QED BY <2>1 DEF LeftoversOK
<1> QED BY <1>1, <1>2, <1>3

\* Every step keeps it, of whatever run.
LEMMA LeftoversStep ==
    ASSUME IInv, [Next]_vars, NEW p \in Runs, LeftoversOK(p)
    PROVE  LeftoversOK(p)'
<1>1. CASE UNCHANGED vars
  BY <1>1 DEF LeftoversOK, vars, world, memory
<1>2. CASE Next
  <2>1. \A q \in Runs : main[q] \in Over =>
           /\ main'[q] \in Over
           /\ \A k \in Containers : owner'[k] = q => owner[k] = q
    BY <1>2, OverStartsNothing
  <2>2. ASSUME main'[p] = main[p], queue'[p] = queue[p], cluster'[p] = cluster[p],
               gone'[p] = gone[p]
        PROVE  LeftoversOK(p)'
    <3> SUFFICES ASSUME main[p] \in {"preclean", "prestop"}, NEW q \in gone[p]
                 PROVE  /\ main'[q] \in Over
                        /\ owner'[PluginOf(cluster[p])] = q =>
                              queue[p] = <<PluginOf(cluster[p]), ConsoleOf(cluster[p])>>
                        /\ owner'[ConsoleOf(cluster[p])] = q => queue[p] # <<>>
      BY <2>2 DEF LeftoversOK
    <3>1. q \in Runs /\ cluster[p] \in Clusters
      BY DEF IInv, TypeOK, RunOK
    <3>2. PluginOf(cluster[p]) \in Containers /\ ConsoleOf(cluster[p]) \in Containers
      BY <3>1, ContainerFacts
    <3> QED BY <2>1, <3>1, <3>2 DEF LeftoversOK
  <2>3. ASSUME NEW r \in Runs, MainSteps(r) PROVE LeftoversOK(p)'
    <3>1. CASE r = p
      BY <2>1, <2>3, <3>1, OwnPreclean
    <3>2. CASE r # p
      <4>1. /\ main'[p] = main[p] /\ queue'[p] = queue[p] /\ cluster'[p] = cluster[p]
            /\ gone'[p] = gone[p]
        BY <2>3, <3>2
        DEF MainSteps, Prepare, ListLeftovers, Fail, CheckContainer, StopContainer,
            SpawnRunner, ListContainers, Notify, ReceiveSignal, Exit, Goto, End, memory,
            IInv, TypeOK
      <4> QED BY <2>2, <4>1
    <3> QED BY <3>1, <3>2
  <2>4. ASSUME NEW r \in Runs, RunnerSteps(r) PROVE LeftoversOK(p)'
    <3>1. main' = main /\ queue' = queue /\ cluster' = cluster /\ gone' = gone
      BY <2>4 DEF RunnerSteps, ReadCluster, RunConsoleContainer, RunMonitorPlugin,
           PrintURL, ReportError, RunnerStep
    <3> QED BY <2>2, <3>1
  <2>5. ASSUME NEW r \in Runs, Signal(r) PROVE LeftoversOK(p)'
    <3>1. CASE r = p /\ main[r] \notin {"await", "clean", "stop"}
      BY <2>5, <3>1 DEF Signal, End, LeftoversOK, IInv, TypeOK
    <3>2. CASE ~(r = p /\ main[r] \notin {"await", "clean", "stop"})
      <4>1. /\ main'[p] = main[p] /\ queue'[p] = queue[p] /\ cluster'[p] = cluster[p]
            /\ gone'[p] = gone[p]
        BY <2>5, <3>2 DEF Signal, End, IInv, TypeOK
      <4> QED BY <2>2, <4>1
    <3> QED BY <3>1, <3>2
  <2>6. CASE SwitchCluster
    BY <2>2, <2>6 DEF SwitchCluster, memory
  <2> QED BY <1>2, <2>3, <2>4, <2>5, <2>6 DEF Next
<1> QED BY <1>1, <1>2

\* A crash between the start of the containers and the installation of the signal
\* handler, or a failure after it, leaves containers behind; whatever such runs
\* left on a cluster, the pre-clean of a later run there removes
\* (console.go:627-654).
THEOREM PrecleanCompletes == FairSpec => []PrecleanRemovesLeftovers
<1> DEFINE Left == \A p \in Runs : LeftoversOK(p)
<1>1. Init => Left
  BY DEF Init, LeftoversOK
<1>2. IInv /\ Left /\ [Next]_vars => Left'
  BY LeftoversStep
<1>3. IInv /\ Left => PrecleanRemovesLeftovers
  <2> SUFFICES ASSUME IInv, Left, NEW p \in Runs, main[p] = "preclean", queue[p] = <<>>,
                      NEW q \in gone[p]
               PROVE  /\ owner[PluginOf(cluster[p])] # q
                      /\ owner[ConsoleOf(cluster[p])] # q
    BY DEF PrecleanRemovesLeftovers
  <2>1. <<PluginOf(cluster[p]), ConsoleOf(cluster[p])>> # <<>>
    BY QueueFacts
  <2> QED BY <2>1 DEF LeftoversOK
<1> QED BY <1>1, <1>2, <1>3, Invariance, PTL DEF FairSpec, Spec

\* The console is never taken away under the plugin of the same run
\* (console.go:672-686).
THEOREM PluginFirst == FairSpec => PluginIsStoppedFirst
<1> DEFINE First(p, c) ==
       (/\ main[p] = "stop" /\ queue'[p] # queue[p] /\ settled[p]
        /\ owner[ConsoleOf(c)] = p /\ owner'[ConsoleOf(c)] = None)
          => owner[PluginOf(c)] # p
<1>1. IInv /\ [Next]_vars => [\A p \in Runs, c \in Clusters : First(p, c)]_vars
  <2> SUFFICES ASSUME IInv, Next, NEW p \in Runs, NEW c \in Clusters,
                      main[p] = "stop", queue'[p] # queue[p], settled[p],
                      owner[ConsoleOf(c)] = p, owner'[ConsoleOf(c)] = None
               PROVE  owner[PluginOf(c)] # p
    OBVIOUS
  <2>1. owner' # owner /\ queue' # queue
    BY ConsoleAssumption
  <2>2. PICK q \in Runs : StopContainer(q)
    BY <2>1 DEF Next, MainSteps, RunnerSteps, Prepare, ListLeftovers, Fail, CheckContainer,
         SpawnRunner, ListContainers, Notify, ReceiveSignal, Exit, ReadCluster,
         RunConsoleContainer, RunMonitorPlugin, PrintURL, ReportError, RunnerStep,
         Signal, SwitchCluster, End, world, memory
  <2>3. q = p
    BY <2>2 DEF StopContainer, IInv, TypeOK
  <2>4. /\ RunOK(p) /\ cluster[p] \in Clusters /\ queue[p] \in Pending(cluster[p])
        /\ queue[p] # <<>>
    BY DEF IInv, RunOK
  <2>5. Head(queue[p]) = ConsoleOf(c)
    BY <2>2, <2>3, ConsoleAssumption DEF StopContainer, IInv, TypeOK
  <2>6. c = cluster[p] /\ queue[p] = <<ConsoleOf(c)>>
    <3>1. Head(queue[p]) \in {PluginOf(cluster[p]), ConsoleOf(cluster[p])}
          /\ (Head(queue[p]) = ConsoleOf(cluster[p]) => queue[p] = <<ConsoleOf(cluster[p])>>)
      BY <2>4, PendingFacts
    <3>2. c = cluster[p]
      BY <2>4, <2>5, <3>1, ContainerFacts
    <3> QED BY <2>5, <3>1, <3>2
  <2>7. <<PluginOf(c), ConsoleOf(c)>> # <<ConsoleOf(c)>>
    BY QueueFacts
  <2> QED BY <2>4, <2>6, <2>7 DEF RunOK
<1> QED BY <1>1, Invariance, PTL DEF FairSpec, Spec, PluginIsStoppedFirst
-----------------------------------------------------------------------------
(* Why a run ends after Ctrl-C.                                                *)

\* How many steps the main goroutine has left at s with l containers to look at,
\* and how many the runContainers goroutine.
MainStepsLeft(s, l) ==
    CASE s = "start"    -> 15             [] s = "list"    -> 14
      [] s = "preclean" -> 9 + 2 * l [] s = "prestop" -> 8 + 2 * l
      [] s = "cleanUp"  -> 8              [] s = "notify"  -> 7
      [] s = "await"    -> 6              [] s = "clean"   -> 1 + 2 * l
      [] s = "stop"     -> 2 * l     [] OTHER         -> 0

RunnerStepsLeft(s) ==
    CASE s = "none" -> 7       [] s = "name" -> 6      [] s = "runConsole" -> 5
      [] s = "pluginName" -> 4 [] s = "runPlugin" -> 3 [] s = "printURL" -> 2
      [] s = "dead" -> 0       [] OTHER -> 1

\* No step takes a goroutine of a run back, or the signal out of its channel, be
\* it its own, the other goroutine's, another run's or another terminal's.  So
\* main ends after at most five steps of its own from the receipt of Ctrl-C, also
\* when runContainers is blocked on errs or containers come and go meanwhile.
NoTurningBack(p) ==
    /\ main'[p] # main[p] \/ queue'[p] # queue[p] =>
          MainStepsLeft(main'[p], Len(queue'[p])) < MainStepsLeft(main[p], Len(queue[p]))
    /\ runner'[p] # runner[p] =>
          RunnerStepsLeft(runner'[p]) < RunnerStepsLeft(runner[p])
    /\ signalled[p] => signalled'[p] \/ main'[p] \in Over

StepsAreFew ==
    \A p \in Runs : /\ MainStepsLeft(main[p], Len(queue[p])) \in 0..15
                    /\ main[p] \in {"clean", "stop"} =>
                          MainStepsLeft(main[p], Len(queue[p])) <= 5

NobodyTurnsBack == [][\A p \in Runs : NoTurningBack(p)]_vars

\* A list of containers has at most two, and one less when its head is done.
LEMMA QueueLengths ==
    ASSUME IInv, NEW p \in Runs,
           main[p] \in {"preclean", "prestop", "notify", "await", "clean", "stop"}
    PROVE  /\ Len(queue[p]) \in 0..2
           /\ queue[p] # <<>> =>
                 Len(queue[p]) \in 1..2 /\ Len(Tail(queue[p])) = Len(queue[p]) - 1
           /\ main[p] \in {"prestop", "stop"} => queue[p] # <<>>
<1>1. RunOK(p)
  BY DEF IInv
<1> DEFINE P == PluginOf(cluster[p])
           C == ConsoleOf(cluster[p])
<1>2. queue[p] \in {<<P, C>>, <<C>>, <<>>}
  BY <1>1 DEF RunOK, Pending
<1>3. main[p] \in {"prestop", "stop"} => queue[p] # <<>>
  BY <1>1 DEF RunOK
<1> HIDE DEF P, C
<1>4. /\ Len(<<P, C>>) = 2 /\ Len(<<C>>) = 1 /\ Len(<<>>) = 0
      /\ Tail(<<P, C>>) = <<C>> /\ Tail(<<C>>) = <<>>
  OBVIOUS
<1> QED BY <1>2, <1>3, <1>4

\* What each stage has left, and how that compares with the stage before.
LEMMA MainStepsFacts ==
    /\ \A l \in 0..2, s \in MainStates :
          /\ MainStepsLeft(s, l) \in 0..15
          /\ s \notin Over => 0 < MainStepsLeft(s, l) \/ (s = "stop" /\ l = 0)
          /\ s \in {"clean", "stop"} => MainStepsLeft(s, l) <= 5
    /\ \A l \in 0..2 : /\ MainStepsLeft("clean", l) < MainStepsLeft("await", l)
                       /\ MainStepsLeft("cleanUp", l) < MainStepsLeft("preclean", l)
    /\ \A l \in 1..2 : /\ MainStepsLeft("prestop", l) < MainStepsLeft("preclean", l)
                       /\ MainStepsLeft("stop", l) < MainStepsLeft("clean", l)
    /\ \A l \in 1..2 :
          /\ MainStepsLeft("preclean", l - 1) < MainStepsLeft("prestop", l)
          /\ MainStepsLeft("preclean", l - 1) < MainStepsLeft("preclean", l)
          /\ MainStepsLeft("clean", l - 1) < MainStepsLeft("stop", l)
          /\ MainStepsLeft("clean", l - 1) < MainStepsLeft("clean", l)
<1> QED BY DEF MainStepsLeft, MainStates, Over

\* Stages at which nothing, or two containers, are to be looked at.
LEMMA MainStepsElsewhere ==
    ASSUME NEW l
    PROVE  /\ MainStepsLeft("start", l) = 15 /\ MainStepsLeft("list", l) = 14
           /\ MainStepsLeft("preclean", 2) = 13 /\ MainStepsLeft("cleanUp", l) = 8
           /\ MainStepsLeft("notify", l) = 7 /\ MainStepsLeft("await", l) = 6
           /\ \A s \in Over : MainStepsLeft(s, l) = 0
<1> QED BY DEF MainStepsLeft, Over

LEMMA FewSteps == IInv => StepsAreFew
<1> SUFFICES ASSUME IInv, NEW p \in Runs
             PROVE  /\ MainStepsLeft(main[p], Len(queue[p])) \in 0..15
                    /\ main[p] \in {"clean", "stop"} =>
                          MainStepsLeft(main[p], Len(queue[p])) <= 5
  BY DEF StepsAreFew
<1>1. main[p] \in MainStates
  BY DEF IInv, TypeOK
<1>2. CASE main[p] \in {"preclean", "prestop", "notify", "await", "clean", "stop"}
  <2>1. Len(queue[p]) \in 0..2
    BY <1>2, QueueLengths
  <2> QED BY <1>1, <2>1, MainStepsFacts
<1>3. CASE main[p] \notin {"preclean", "prestop", "notify", "await", "clean", "stop"}
  <2>1. main[p] \in {"start", "list", "cleanUp"} \cup Over
    BY <1>1, <1>3 DEF MainStates, Over
  <2>2. CASE main[p] \in Over
    BY <2>2, MainStepsElsewhere DEF Over
  <2>3. CASE main[p] \in {"start", "list", "cleanUp"}
    BY <2>3, MainStepsElsewhere
  <2> QED BY <2>1, <2>2, <2>3
<1> QED BY <1>2, <1>3

\* A run that is over, or is not looked at, does not move.
LEMMA OthersStand ==
    ASSUME NEW p \in Runs,
           main'[p] = main[p], queue'[p] = queue[p], runner'[p] = runner[p],
           signalled'[p] = signalled[p]
    PROVE  NoTurningBack(p)
<1> QED BY DEF NoTurningBack

\* The end of the process ends both goroutines.
LEMMA EndAdvances ==
    ASSUME IInv, NEW p \in Runs, main[p] \notin Over, NEW s \in Over, End(p, s)
    PROVE  NoTurningBack(p)
<1>1. main'[p] = s /\ runner'[p] = "dead"
  BY DEF End, IInv, TypeOK
<1>2. 0 < MainStepsLeft(main[p], Len(queue[p]))
  <2>1. CASE main[p] \in {"start", "list", "cleanUp", "notify", "await"}
    BY <2>1, MainStepsElsewhere
  <2>2. CASE main[p] \in {"preclean", "prestop", "clean", "stop"}
    <3>1. Len(queue[p]) \in 0..2 /\ (main[p] = "stop" => Len(queue[p]) # 0)
      BY <2>2, QueueLengths
    <3>2. main[p] \in MainStates
      BY DEF IInv, TypeOK
    <3> QED BY <2>2, <3>1, <3>2, MainStepsFacts
  <2> QED BY <2>1, <2>2 DEF IInv, TypeOK, MainStates, Over
<1>3. MainStepsLeft(main'[p], Len(queue'[p])) = 0
  BY <1>1, MainStepsElsewhere
<1>4. runner[p] # "dead" => RunnerStepsLeft(runner[p]) > 0
  BY DEF IInv, TypeOK, RunnerStates, RunnerStepsLeft
<1>5. RunnerStepsLeft(runner'[p]) = 0
  BY <1>1 DEF RunnerStepsLeft
<1> QED BY <1>1, <1>2, <1>3, <1>4, <1>5 DEF NoTurningBack

\* Every step of the main goroutine brings it on.
LEMMA MainAdvances ==
    ASSUME IInv, NEW p \in Runs, MainSteps(p)
    PROVE  NoTurningBack(p)
<1> DEFINE L == Len(queue[p])
<1>1. CASE Prepare(p) \/ ListLeftovers(p)
  <2>1. CASE Prepare(p)
    <3>1. /\ main[p] = "start" /\ main'[p] = "list" /\ runner' = runner
          /\ signalled' = signalled
      BY <2>1 DEF Prepare, Goto, IInv, TypeOK
    <3> QED BY <3>1, MainStepsElsewhere DEF NoTurningBack
  <2>2. CASE ListLeftovers(p)
    <3>1. /\ main[p] = "list" /\ main'[p] = "preclean" /\ runner' = runner
          /\ signalled' = signalled
          /\ queue'[p] = <<PluginOf(current), ConsoleOf(current)>>
      BY <2>2 DEF ListLeftovers, Goto, IInv, TypeOK
    <3>2. Len(queue'[p]) = 2
      BY <3>1
    <3> QED BY <3>1, <3>2, MainStepsElsewhere DEF NoTurningBack
  <2> QED BY <1>1, <2>1, <2>2
<1>2. CASE Fail(p) \/ Exit(p)
  <2>1. \E s \in Over : End(p, s) /\ main[p] \notin Over
    BY <1>2 DEF Fail, Exit, Over
  <2> QED BY <2>1, EndAdvances
<1>3. CASE CheckContainer(p)
  <2>1. /\ main[p] \in {"preclean", "clean"} /\ queue[p] # <<>> /\ runner' = runner
        /\ signalled' = signalled
        /\ \/ queue' = queue /\ main[p] = "preclean" /\ main'[p] = "prestop"
           \/ queue' = queue /\ main[p] = "clean" /\ main'[p] = "stop"
           \/ main' = main /\ queue'[p] = Tail(queue[p])
    BY <1>3 DEF CheckContainer, Goto, IInv, TypeOK
  <2>2. L \in 1..2 /\ Len(Tail(queue[p])) = L - 1
    BY <2>1, QueueLengths
  <2>3. MainStepsLeft(main'[p], Len(queue'[p])) < MainStepsLeft(main[p], L)
    BY <2>1, <2>2, MainStepsFacts
  <2> QED BY <2>1, <2>3 DEF NoTurningBack
<1>4. CASE StopContainer(p)
  <2>1. /\ \/ main[p] = "prestop" /\ main'[p] = "preclean"
           \/ main[p] = "stop" /\ main'[p] = "clean"
        /\ queue'[p] = Tail(queue[p]) /\ runner' = runner /\ signalled' = signalled
    BY <1>4 DEF StopContainer, Goto, IInv, TypeOK
  <2>2. L \in 1..2 /\ Len(Tail(queue[p])) = L - 1
    BY <2>1, QueueLengths
  <2>3. MainStepsLeft(main'[p], Len(queue'[p])) < MainStepsLeft(main[p], L)
    BY <2>1, <2>2, MainStepsFacts
  <2> QED BY <2>1, <2>3 DEF NoTurningBack
<1>5. CASE SpawnRunner(p)
  <2>1. /\ main[p] = "preclean" /\ main'[p] = "cleanUp" /\ queue' = queue
        /\ runner[p] = "none" /\ runner'[p] = "name" /\ signalled' = signalled
    BY <1>5 DEF SpawnRunner, IInv, TypeOK, RunOK, memory
  <2>2. L \in 0..2
    BY <2>1, QueueLengths
  <2>3. MainStepsLeft(main'[p], Len(queue'[p])) < MainStepsLeft(main[p], L)
    BY <2>1, <2>2, MainStepsFacts
  <2> QED BY <2>1, <2>3 DEF NoTurningBack, RunnerStepsLeft
<1>6. CASE ListContainers(p)
  <2>1. /\ main[p] = "cleanUp" /\ main'[p] = "notify" /\ runner' = runner
        /\ signalled' = signalled
    BY <1>6 DEF ListContainers, Goto, IInv, TypeOK
  <2> QED BY <2>1, MainStepsElsewhere DEF NoTurningBack
<1>7. CASE Notify(p)
  <2>1. /\ main[p] = "notify" /\ main'[p] = "await" /\ runner' = runner
        /\ signalled' = signalled
    BY <1>7 DEF Notify, Goto, memory, IInv, TypeOK
  <2> QED BY <2>1, MainStepsElsewhere DEF NoTurningBack
<1>8. CASE ReceiveSignal(p)
  <2>1. /\ main[p] = "await" /\ main'[p] = "clean" /\ queue' = queue
        /\ runner' = runner /\ signalled' = signalled
    BY <1>8 DEF ReceiveSignal, Goto, IInv, TypeOK
  <2>2. L \in 0..2
    BY <2>1, QueueLengths
  <2>3. MainStepsLeft(main'[p], Len(queue'[p])) < MainStepsLeft(main[p], L)
    BY <2>1, <2>2, MainStepsFacts
  <2> QED BY <2>1, <2>3 DEF NoTurningBack
<1> QED BY <1>1, <1>2, <1>3, <1>4, <1>5, <1>6, <1>7, <1>8 DEF MainSteps

\* So does every step of runContainers.
LEMMA RunnerAdvances ==
    ASSUME IInv, NEW p \in Runs, RunnerSteps(p)
    PROVE  NoTurningBack(p)
<1>1. main' = main /\ queue' = queue /\ signalled' = signalled
  BY DEF RunnerSteps, ReadCluster, RunConsoleContainer, RunMonitorPlugin, PrintURL,
         ReportError, RunnerStep
<1>2. \/ runner[p] = "name" /\ runner'[p] = "runConsole"
      \/ runner[p] = "runConsole" /\ runner'[p] = "pluginName"
      \/ runner[p] = "pluginName" /\ runner'[p] \in {"runPlugin", "printURL"}
      \/ runner[p] = "runPlugin" /\ runner'[p] = "printURL"
      \/ runner[p] = "printURL" /\ runner'[p] = "done"
      \/ /\ runner[p] \in {"name", "runConsole", "pluginName", "runPlugin", "printURL"}
         /\ runner'[p] = "blocked"
  BY DEF RunnerSteps, ReadCluster, RunConsoleContainer, RunMonitorPlugin, PrintURL,
         ReportError, RunnerStep, IInv, TypeOK
<1> QED BY <1>1, <1>2 DEF NoTurningBack, RunnerStepsLeft

\* A run takes at most fifteen steps of its main goroutine, five of them after
\* Ctrl-C, and seven of the other, and nothing another run, terminal or goroutine
\* does adds to them.  Main waits for a signal and for nothing else.
THEOREM EveryRunIsBounded == FairSpec => []StepsAreFew /\ NobodyTurnsBack
<1>1. IInv /\ [Next]_vars => [\A p \in Runs : NoTurningBack(p)]_vars
  <2> SUFFICES ASSUME IInv, Next, NEW p \in Runs PROVE NoTurningBack(p)
    OBVIOUS
  <2>1. ASSUME NEW q \in Runs, MainSteps(q) PROVE NoTurningBack(p)
    <3>1. CASE q = p
      BY <2>1, <3>1, MainAdvances
    <3>2. CASE q # p
      <4>1. /\ main'[p] = main[p] /\ queue'[p] = queue[p] /\ runner'[p] = runner[p]
            /\ signalled'[p] = signalled[p]
        BY <2>1, <3>2
        DEF MainSteps, Prepare, ListLeftovers, Fail, CheckContainer, StopContainer,
            SpawnRunner, ListContainers, Notify, ReceiveSignal, Exit, Goto, End, memory,
            IInv, TypeOK
      <4> QED BY <4>1, OthersStand
    <3> QED BY <3>1, <3>2
  <2>2. ASSUME NEW q \in Runs, RunnerSteps(q) PROVE NoTurningBack(p)
    <3>1. CASE q = p
      BY <2>2, <3>1, RunnerAdvances
    <3>2. CASE q # p
      <4>1. /\ main'[p] = main[p] /\ queue'[p] = queue[p] /\ runner'[p] = runner[p]
            /\ signalled'[p] = signalled[p]
        BY <2>2, <3>2
        DEF RunnerSteps, ReadCluster, RunConsoleContainer, RunMonitorPlugin, PrintURL,
            ReportError, RunnerStep, IInv, TypeOK
      <4> QED BY <4>1, OthersStand
    <3> QED BY <3>1, <3>2
  <2>3. ASSUME NEW q \in Runs, Signal(q) PROVE NoTurningBack(p)
    <3>1. CASE main[q] \in {"await", "clean", "stop"}
      BY <2>3, <3>1 DEF Signal, NoTurningBack, IInv, TypeOK
    <3>2. CASE main[q] \notin {"await", "clean", "stop"}
      <4>1. End(q, "killed") /\ main[q] \notin Over /\ "killed" \in Over
        BY <2>3, <3>2 DEF Signal, Over
      <4>2. CASE q = p
        BY <4>1, <4>2, EndAdvances
      <4>3. CASE q # p
        BY <4>1, <4>3, OthersStand DEF End, IInv, TypeOK
      <4> QED BY <4>2, <4>3
    <3> QED BY <3>1, <3>2
  <2>4. CASE SwitchCluster
    BY <2>4, OthersStand DEF SwitchCluster, memory
  <2> QED BY <2>1, <2>2, <2>3, <2>4 DEF Next
<1> QED BY <1>1, FewSteps, Invariance, PTL DEF FairSpec, Spec, NobodyTurnsBack
=============================================================================
