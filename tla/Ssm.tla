--------------------------------- MODULE Ssm ---------------------------------
(***************************************************************************)
(* ocm-backplane cloud ssm (cmd/ocm-backplane/cloud/ssm.go): the command   *)
(* obtains credentials as cloud credentials does, which is RoleChain, looks *)
(* the node up in the kubeconfig that is current by then, starts a session *)
(* with AWS and hands it to the session-manager-plugin, a child process to *)
(* which a goroutine passes SIGINT on.                                     *)
(***************************************************************************)
EXTENDS RoleChain

CONSTANTS
    MaxInterrupts   \* bound of the model: SIGINTs the command is sent

ASSUME SsmAssumption == MaxInterrupts \in Nat

VARIABLES
    stage,       \* what startSSMsession does next; "off": another cloud command
    plugin,      \* the process of the plugin
    process,     \* pluginCmd.Process is set
    handler,     \* the goroutine that waits for a signal
    signals,     \* a SIGINT waits in the channel, which holds one
    interrupts,  \* history: SIGINTs the command was sent
    passedOn,    \* history: SIGINTs the goroutine has passed on
    early        \* history: SIGINTs sent before pluginCmd.Process was set

child == <<plugin, process, handler, signals>>
history == <<interrupts, passedOn, early>>
ssmVars == <<stage, child, history>>
allVars == <<vars, ssmVars>>

Failing == {"validate", "fetch", "node", "session", "plugin"}

SsmTypeOK ==
    /\ TypeOK
    /\ stage \in Failing \cup {"off", "chain", "notify", "started",
                               "wait", "ended", "failed", "killed"}
    /\ plugin \in {"none", "running", "ended"}
    /\ process \in BOOLEAN
    /\ handler \in {"none", "waiting", "done"}
    /\ signals \in BOOLEAN
    /\ interrupts \in 0..MaxInterrupts
    /\ passedOn \in 0..1
    /\ early \in 0..MaxInterrupts

SsmInit ==
    /\ Init
    /\ stage \in {"off", "validate"}
    /\ stage = "validate" => op = "credentials"
    /\ plugin = "none" /\ process = FALSE
    /\ handler = "none" /\ signals = FALSE
    /\ interrupts = 0 /\ passedOn = 0 /\ early = 0

-----------------------------------------------------------------------------
(* startSSMsession up to the session *)

Go(from, to) ==
    /\ stage = from
    /\ stage' = to
    /\ UNCHANGED <<child, history>>

\* The plugin is installed, the node named, and there is a proxy URL with scheme
\* and host; without a proxy that works, and in GovCloud, it is an error (Fails).
Validate == Go("validate", "fetch") /\ UNCHANGED vars

\* fetchCloudCredentials up to GetCloudCredentials: the current cluster, looked
\* up at OCM.
FetchCredentials == Go("fetch", "chain") /\ UNCHANGED vars

\* A step of GetCloudCredentials, for ssm or for another command.
CloudStep ==
    /\ stage \in {"off", "chain"}
    /\ Next
    /\ UNCHANGED ssmVars

\* Credentials of another cloud are an error; roles are assumed at AWS only.
CredentialsCome(aws) ==
    /\ pc = "done"
    /\ call.made => aws
    /\ Go("chain", IF aws THEN "node" ELSE "failed")
    /\ UNCHANGED vars

CredentialsFail == pc = "failed" /\ Go("chain", "failed") /\ UNCHANGED vars

\* getCurrentKubeconfig and getInstanceID read the kubeconfig anew: after a login
\* elsewhere the node is looked up in another cluster.
GetInstanceID == Go("node", "session") /\ UNCHANGED vars

\* StartSession; an incomplete answer is an error (Fails).
StartSession == Go("session", "notify") /\ UNCHANGED vars

\* An error before the credentials were asked for leaves nothing of RoleChain.
Fails ==
    /\ stage \in Failing
    /\ stage' = "failed"
    /\ pc' = IF stage \in {"validate", "fetch"} THEN "failed" ELSE pc
    /\ UNCHANGED <<child, history, inputs, answers, loop>>

-----------------------------------------------------------------------------
(* The plugin and the signals *)

\* signal.Notify and the goroutine, before the plugin.
Notify ==
    /\ stage = "notify"
    /\ stage' = "plugin"
    /\ handler' = "waiting"
    /\ UNCHANGED <<vars, plugin, process, signals, history>>

\* pluginCmd.Run starts the process ...
StartPlugin ==
    /\ stage = "plugin"
    /\ stage' = "started"
    /\ plugin' = "running"
    /\ UNCHANGED <<vars, process, handler, signals, history>>

\* ... and sets pluginCmd.Process, which the goroutine reads without a lock: until
\* the write is seen, it reads nil.
SetProcess ==
    /\ stage = "started"
    /\ stage' = "wait"
    /\ process' = TRUE
    /\ UNCHANGED <<vars, plugin, handler, signals, history>>

PluginEnds ==
    /\ plugin = "running"
    /\ plugin' = "ended"
    /\ UNCHANGED <<vars, stage, process, handler, signals, history>>

\* Run returns and so does the command, with the goroutine.
CommandEnds ==
    /\ stage = "wait"
    /\ plugin = "ended"
    /\ stage' = "ended"
    /\ UNCHANGED <<vars, child, history>>

\* A SIGINT from before signal.Notify kills the command; later ones wait in the
\* channel, and are dropped if one does already.
Interrupt ==
    /\ stage \in {"session", "notify", "plugin", "started", "wait"}
    /\ interrupts < MaxInterrupts
    /\ interrupts' = interrupts + 1
    /\ early' = IF process THEN early ELSE early + 1
    /\ IF handler = "none"
         THEN stage' = "killed" /\ UNCHANGED signals
         ELSE signals' = TRUE /\ UNCHANGED stage
    /\ UNCHANGED <<vars, plugin, process, handler, passedOn>>

\* Mutant: the process is looked at before the signal is waited for.
PassOnLooksFirst ==
    /\ handler = "waiting" /\ stage \in {"plugin", "started", "wait"}
    /\ signals \/ ~process
    /\ handler' = "done"
    /\ signals' = FALSE
    /\ passedOn' = IF process /\ plugin = "running" THEN 1 ELSE 0
    /\ UNCHANGED <<vars, stage, plugin, process, interrupts, early>>

\* The goroutine takes one signal and is done, whether there is a process to
\* pass it on to or not.
PassOn ==
    /\ handler = "waiting" /\ stage \in {"plugin", "started", "wait"}
    /\ signals
    /\ handler' = "done"
    /\ signals' = FALSE
    /\ passedOn' = IF process /\ plugin = "running" THEN 1 ELSE 0
    /\ UNCHANGED <<vars, stage, plugin, process, interrupts, early>>

SsmFinished == stage \in {"ended", "failed", "killed"} /\ UNCHANGED allVars

CommandSteps ==
    \/ Validate \/ FetchCredentials \/ CloudStep
    \/ \E aws \in BOOLEAN : CredentialsCome(aws)
    \/ CredentialsFail \/ GetInstanceID \/ StartSession \/ Fails
    \/ Notify \/ StartPlugin \/ SetProcess \/ CommandEnds

SsmNext == CommandSteps \/ PluginEnds \/ PassOn \/ Interrupt \/ SsmFinished

SsmSpec == SsmInit /\ [][SsmNext]_allVars

\* Requests are answered and both goroutines run; the plugin need not end, and
\* nobody need press Ctrl-C.
SsmFairSpec ==
    /\ SsmSpec
    /\ WF_allVars(CommandSteps)
    /\ WF_allVars(PassOn)

-----------------------------------------------------------------------------
(* Properties *)

\* Ctrl-C never ends the command over the head of a running plugin, which would
\* fight the shell for the terminal: whoever waits for the command waits for the
\* plugin (ssm.go:270-299).
OutlivesThePlugin == plugin = "running" => stage \in {"started", "wait"}

\* The first SIGINT of all is passed on if it arrives when the goroutine can know
\* the process, unless the plugin has ended by itself (ssm.go:283-296).
FirstInterruptIsPassedOn ==
    (plugin = "running" /\ interrupts > 0 /\ early = 0) ~>
        (passedOn = 1 \/ plugin = "ended")
=============================================================================
