# A TLA+ model of backplane-cli

`ocm backplane` (openshift/backplane-cli) is the command line with which SREs
reach OpenShift clusters through the backplane API. It is a program of short
commands: most of them ask OCM and the backplane API for something and print or
store the answer. What makes it hard to test is what these commands share: the
goroutines inside one process, the files in the home directory that several
terminals read and write, the containers on the machine, the jobs and tickets
at remote services. This directory models those parts in TLA+, checks them with
TLC on small instances, and proves the safety properties of all of them with
TLAPS for all instances.

Paths below are relative to `src/`; `PROJECT.json` maps every definition that
models code to its lines.

## 1. Inventory

| Component | Code | State | Operations | Interacts with |
|---|---|---|---|---|
| Proxy selection | `pkg/cli/config/config.go` | the call's goroutines, channel, WaitGroup, context | `getFirstWorkingProxyURL` | every command, through `GetBackplaneConfiguration` |
| OCM connection cache | `pkg/ocm/ocm.go` | cached connection, mutex, one watcher goroutine per connection | `SetupOCMConnection`, timeout | every OCM query |
| OCM queries | `pkg/ocm/ocm.go` | none | look-ups of the target, managing and service cluster; tokens, access requests | connection cache; login, remediation and all commands with a cluster |
| Login, logout, elevate | `cmd/ocm-backplane/{login,logout,elevate}`, `pkg/login`, `pkg/elevate` | kubeconfig files, elevation reasons in them, `$KUBECONFIG` of the terminal | login (by cluster, incident or issue; `--manager`, `--service`, `--multi`), logout, elevate | each other through the files; console, monitoring and managed jobs read the current cluster |
| Monitoring | `pkg/monitoring`, `cmd/ocm-backplane/monitoring` | a proxy that serves until it is killed | check and serve | kubeconfig, read up to four times |
| Console | `cmd/ocm-backplane/console`, `pkg/container` | containers of the machine, two goroutines, the signal channel | run, clean-up | kubeconfig, other runs |
| Managed jobs | `cmd/ocm-backplane/managedJob` | the job at the API | create (`--wait`, `--logs`, `--raw`), delete, get, logs | backplane API |
| Test jobs | `cmd/ocm-backplane/testJob` | none; the objects of a rendered manifest on the cluster | create, render, get, logs | backplane API; `oc apply` and `oc delete` of what it renders |
| Remediation | `pkg/remediation`, `cmd/ocm-backplane/remediation` | instance at the API, context in the kubeconfig | create, delete | OCM queries, kubeconfig |
| Access requests | `pkg/accessrequest`, `cmd/ocm-backplane/accessrequest`, `pkg/jira` | request at OCM, issue at Jira | create, get, expire | OCM, Jira, elevation reasons |
| Cloud credentials | `cmd/ocm-backplane/cloud`, `pkg/awsutil` | chain of temporary credentials | credentials, console | OCM, STS, proxy selection |
| SSM session | `cmd/ocm-backplane/cloud/ssm.go` | child process, signal goroutine | start | cloud credentials |
| Configuration file | `cmd/ocm-backplane/config`, `pkg/cli/config` | `config.json` | get, set, refresh | every command |
| Session | `pkg/cli/session` | session directory | set up, start, delete | login |
| Upgrade | `internal/upgrade`, `internal/github` | the binary and its backup | upgrade | GitHub |
| PagerDuty | `pkg/pagerduty` | none | alerts of an incident | login |
| Health check, session detector, scripts, rendering, status, version | `pkg/healthcheck`, `cmd/ocm-backplane/script`, ... | none of their own | one pass each | |

Hard behaviours and the properties that make each component correct:

- *Proxy selection.* Testers report over an unbuffered channel that the caller
  closes. Correct if nobody can send on the closed channel, no goroutine is left
  behind, the call returns, and the first proxy is only fallen back to when
  nothing better can come.
- *OCM connection.* Callers and timeout watchers race for the cache. Correct if
  there is never more than one open connection, each one handed out is open, and
  each is closed in the end.
- *Kubeconfig.* Commands read, change in memory and write back with nothing that
  locks the file in between. Correct if the file stays usable, other tools'
  contexts survive, impersonation never reaches a shared file, elevations use
  live reasons of their own cluster, and terminals on a cluster's own file are
  left alone.
- *Login's cluster.* What is given, a key, an incident or an issue, may stand for
  several clusters, and a request that is not answered is read as an answer.
  Correct if a login ends at the cluster that was asked for, or at the very
  manager or service cluster of it.
- *Monitoring.* The proxy reads the kubeconfig four times while others write it.
  Correct if a terminal with a file of its own serves the cluster it checked.
- *Console.* Two goroutines, other runs and logins elsewhere, and a signal at
  any time. Correct if the clean-up removes what the run started, in the right
  order, and Ctrl-C ends the command.
- *Managed jobs.* Polls with a timeout against an API that may refuse, and a job
  others may delete. Correct if `--wait` reports the job's real end, logs are of
  a job that started, and the command ends.
- *Test jobs.* Objects are applied one by one, each may be refused, and their names
  are only as unique as a second. Correct if a script never has rights it does not
  declare, and its pod has all of those it declares.
- *Remediation.* The instance exists at the server before the cluster is looked up
  again and the kubeconfig is written. Correct if the user learns the id of every
  instance that is there, whichever of these fails.
- *Access requests.* A command checks for a request at OCM, makes an issue at
  Jira, posts the request and moves the issue on, and may be refused, lose an
  answer or be interrupted between any two of these, while others do the same.
  Correct if only overlapping commands make two active requests for a cluster,
  every request notifies in the right project, no issue stays behind unsettled
  and none says "error" of a request that somebody was told of.
- *Cloud credentials.* A chain of roles, each assumed with the credentials of
  the one before and repeated when refused. Correct if the result went through
  the whole chain, every role has its own retries, and the customer's role is
  never assumed without its policy or from an address that was not checked.
- *SSM session.* The same chain, and then a child process to which a goroutine
  passes Ctrl-C on. Correct if the command never ends over the head of its
  plugin, and the first signal reaches the plugin.
- *Configuration file.* `set` and `refresh` read, change and write one file
  without a lock. Correct if a command nobody overtakes keeps every setting that
  is not its own.
- *Session.* A directory made anew by every command and shared by the terminals
  that give it the same name. Correct if a shell starts on the cluster its
  command was given, whatever earlier sessions left.
- *Upgrade.* The binary is renamed away, written and the old one removed.
  Correct if a whole binary is left wherever that is cut short.

`PROJECT.json` lists every hazard at its line.

## 2. Modules and plan

| Module | Status | What |
|---|---|---|
| `ProxyChoice` | done | abstract: one answer, from what passed or the first |
| `ProxySelection` | done | the goroutines; implements `ProxyChoice` |
| `ProxySelectionProofs` | done | safety and refinement theorems |
| `ConnectionLease` | done | abstract: at most one live connection, lent while it is live, never live again |
| `OcmConnection`, `OcmConnectionProofs` | done | cache, mutex and watchers; implements `ConnectionLease`; theorems |
| `Kubeconfig` | done | login, logout, elevate on shared files |
| `Monitoring`, `KubeconfigProofs` | done | the monitoring proxy among the commands of `Kubeconfig`; theorems about both |
| `Console`, `ConsoleProofs` | done | containers, two goroutines, signals; theorems |
| `OcmQueries` | done | what OCM knows, and the look-ups as sets of results; used by the next two |
| `LoginTarget` | done | login up to its kubeconfig: key, target, manager, service cluster |
| `Remediation` | done | create and delete of instances by several users |
| `ManagedJob` | done | create with wait and logs |
| `TestJob` | done | create, render, and what oc does with a manifest |
| `Remote`, `RemoteProofs` | done | composes the last four; theorems about it |
| `AccessRequest`, `AccessRequestProofs` | done | create and expire by several people; OCM and Jira with partial failure; theorems |
| `RoleChain` | done | credentials and console: the assumed roles and their retries |
| `Ssm`, `RoleChainProofs` | done | the session command on top of `RoleChain`, its plugin and signals; implements `RoleChain`; theorems about both |
| `ConfigFile` | done | set and refresh as unlocked read-modify-writes |
| `Session` | done | set-up, login and shell of a directory two terminals share |
| `Upgrade` | done | crash between backup, write and removal |
| `MCLocalFiles`, `LocalFilesProofs` | done | runs `ConfigFile`, `Session` and `Upgrade`; theorems about them |
| `Console`, continued | next | the API URL of the container, read apart from its name (`console.go:500`) |

The order is by how much of the program depends on the component and how many
actors it has. Every module that is proved about has its parameters as CONSTANTS
with a named assumption where one is needed, one action per step of the code and
no RECURSIVE operator. The runs keep to two or three of every actor (section 4).
Components that meet are composed: `Monitoring` extends `Kubeconfig` and `Ssm`
extends `RoleChain`. Those that do not meet share a run, in which a variable
`subject` says at the start which of them a behaviour is of (`Remote`,
`MCLocalFiles`).

## 3. How the modules correspond to the code

Each operation of the code is one action, or one per point where another
goroutine, terminal or service can come in between. Every module defines, before
some of its actions, a variant marked `Mutant:`; no specification uses them. They
are plausible mistakes with which the properties were tried out: replacing the
action by its variant makes the named property fail.

**ProxySelection** (`config.go:270-383`). `pc` is the line the caller is at,
`tester[i]` the goroutine of proxy `i` (`testing`, blocked in `sending`, `sent`
with its deferred `wg.Done()` to come, `done`). The unbuffered channel is a
rendezvous: `ReceiveResult` and `DrainResult` move a sender on. `GiveUp` may fire
with a result at hand, since `select` picks either ready case. URLs, logging and
HTTP are abstracted to `pass` or `fail`; a proxy that does not parse is one not
in `parsed`.

**ProxyChoice** is what a caller relies on: `answer` is given once, from
`{1} \cup good`, and no test passes after it. The refinement maps `good` to the
proxies whose test passed and `answer` to `chosen` when the call has returned.

**OcmConnection** (`ocm.go:63-137`). `mutex` is `ocmConnectionMutex`, `cached` is
`ocmConnection`. A watcher's `Close` and its reset of the cache are two actions,
both under the mutex. `StopUsing` may come after the connection was closed: the
code promises nothing about the use. Its callers see the connections as
`ConnectionLease` has them: `live` is `open`, `spent` is `made`, and `loan` is
what is `handed` to a caller that is `using` it; the mutex, the cache and the
watchers are hidden.

**Kubeconfig** (`login.go:362-456`, `logout.go:28-105`, `kubeConfig.go`,
`elevate.go`). `disk[f]` is what a reader sees of file `f`, `cmd[t]` the command
of terminal `t` with the configuration `rc` it holds in memory. Reading and
changing in memory is one action (`Login`, `Logout`, `Elevate`), writing another
(`SaveReasons`, `SaveKubeConfig`), so commands of different terminals interleave
between them. A login with `--multi` first makes the cluster's file empty
(`CreateFile`, `os.Create`) and then writes it, and another terminal may read it in
between, or find it empty for good when the login is interrupted. A context keeps its reasons and the time of their last use.
Abstractions: one user per OCM account, which is what `GetUsernameFromJWT` gives;
`clientcmd.ModifyConfig` and `clientcmd.WriteToFile` make the file what the command
has in memory, in one step; the base URL test of logout is "not the foreign context". `lastUsed` is a
history variable for one property.

**Monitoring** (`monitoring.go:59-384`). Extends `Kubeconfig`. `monitor[t]` is the
command of terminal `t` with the cluster that each of its four readings of the
kubeconfig found: for the route (`StartMonitoring`), the URL (`FindURL`), the
version (`ValidateVersion`) and `--origin` (`ServeURL`), the last two of which
depend on the options. The commands of the other terminals and the clock are
`KubeconfigStep`. A terminal that monitors runs nothing else, since the command is
in its foreground. `undisturbed` is a history variable: the terminal has worked
on a cluster's own file, and nobody else on that file.

**Console** (`console.go:190-267`, `:483-708`, `:910-917`). `main[p]` and
`runner[p]` are the two goroutines of run `p`. Every reading of the current
cluster is a step of its own, because a login elsewhere (`SwitchCluster`) may
come in between. `owner` says which run started a container: a name is in use or
free. `errs <- err` blocks for ever (`blocked`), since nothing receives. Whether the
run needs the plugin is OCM's answer, and no when OCM does not answer
(`MayBeModern`). With podman the plugin joins the network of the console container,
which must be there (`JoinsNetwork`); with docker both use the host's. `settled` and
`gone` are history variables: the runner was through when the signal came, and the
runs that were over when the leftovers were listed.

**OcmQueries** (`ocm.go:154-298`). No state: the constants say what OCM knows, and
each look-up is the set of results it may return, the empty set being an error.
A `Hypershift().Get()` that is not answered is taken for "not hosted", as in the
code, and the look-up goes on for the hive, which a hosted cluster may have as
well; a service cluster OCM does not list leaves the id empty without an error.
OCM says which cluster is above another by its name only, and the code looks that
name up. The constants say which cluster was meant (`ManagerOf`, `ShardOf`,
`ServiceOf`), so that what the look-up found can be compared with it: names may be
shared, and there are clusters OCM does not list. A `Manager` also says how it was
come by: `prompted` when the user chose among several, `unanswered` after a
request of a hosted cluster that was not answered.

**LoginTarget** (`login.go:147-360`, `pagerduty.go`). `phase` is the place in
`runLogin`. The key comes from one of four sources; several clusters may match it
and the user chooses. With `--manager` and `--service` the service cluster is
looked up for the manager, which is then refused for not being hosted unless its
own manager is. An error of the hibernation check is ignored. A PagerDuty request
that fails on the way ends in a dereferenced nil (`PagerDutyUnreachable`). `prompted` and
`unanswered` are history variables, kept from the look-ups.

**Remediation** (`remediation.go:96-265`, `pkg/remediation`). `work[u]` is the
command of user `u` with the cluster and the kubeconfig it has in memory.
`CreateRemediation` finds the cluster; `LookUpAgain` looks it up a second time with
the option as it was typed. Without an option the first look-up takes the current
cluster and the second whatever has no external id yet (`Installing`); with an
ambiguous one the user chooses twice, so that the context can be of another
cluster than the instance. `DeleteRemediation` leaves the context where it is.
`orphaned` is a history variable: the instance's answer was lost, or Ctrl-C came.

**ManagedJob** (`createManagedJob.go:75-338`). The job runs on its own at the
server and may be deleted by others. `CreateRefused` is the API error that `--raw`
prints and `createJob` then returns as neither a job nor an error, so that
`--wait` and `--logs` dereference nil. `GoOn` is the sequence of stages after
creation.

**TestJob** (`renderTestJob.go`, `createTestJob.go`). `ObjectsOf` is the manifest
of a script: the account, a Role and RoleBinding for each namespace, with the
rules of all its entries, the cluster-wide ones and, last, the pod. `oc[u]` is what
user `u` does with the manifest: oc takes the objects one after the other and
goes on after one that is refused. All objects of a manifest are named after
`second`. `create` reads two fields of the metadata that `render` does without,
and does not return where they are missing (`CreateAccepts`). oc and the clock
are outside the program. `renders` and `spoilt` are history variables.

**AccessRequest** (`createAccessRequest.go:66-134`, `expireAccessRequest.go`,
`accessRequest.go`, `ocm.go:447-535`). `cmd[p]` is the command of person `p`,
`requests` and `issues` what the services hold. Each request of the command to a
service is one action, together with what the command does with the answer; a
lost answer changes the service and looks like a refusal. `given` is the option
`--notification-issue`: absent, a key, or a URL. The last is another case because
the project is taken from the option as it was typed (`getProjectFromIssueID`),
so that an issue given as a URL is found but has no transitions. People have an
issue of their own in each project (1 and 2) and may give any other there is, also
one that another command has just made or has moved to the error status. Ctrl-C
(`Interrupt`) is modelled from the moment there is something to leave behind. The
connection to OCM, open 30 seconds, may be closed while the command prompts for
the reason: to the command that is one more refusal (`PostFails`). `seen`,
`answered` and `dropped` are history variables.

**RoleChain** (`common.go:78-586`, `sts.go:101-305`). One command; `pc` is the
request it makes next. Credentials are the path of roles they were obtained
through, from the seed, or invalid: the empty `aws.Credentials` of
`sts.go:169`. `client` is the STS client with the way its requests take (AWS
proxy, proxy, direct). AWS may refuse any attempt, and always refuses one made
without credentials. The seed client takes no proxy (`common.go:400`), although
the egress check does: `CustomerSessionsAreRestricted` therefore speaks of the
way only for roles after the first. `call` and `refusals` are history variables.

**Ssm** (`ssm.go:66-303`). Extends `RoleChain`: `stage` is what the command does
before, around and after `GetCloudCredentials`, and `CloudStep` a step of it.
`stage = "off"` is any other cloud command, so that one run has both. The
kubeconfig is read again after the credentials (`GetInstanceID`): a login
elsewhere in between makes the node one of another cluster, which AWS then refuses
(`Fails`). `handler` is the goroutine, `signals` its channel of capacity one,
`process` the field `pluginCmd.Process`, which the goroutine reads while `Run`
sets it; until the write is seen it reads nil, and the signal is lost
(`PassOn`). The terminal's own delivery of Ctrl-C to the plugin is outside the
program. `interrupts`, `passedOn` and `early` are history variables.

**ConfigFile** (`set.go:31-100`, `refresh.go:36-118`, `api_client.go`). `mem[c]`
is what command `c` holds in viper. `WriteConfigAs` is two actions: it opens and
truncates the file (`Open`) and writes it (`Write`); a file written by two at once
may be `garbled`. A missing and an unreadable file are both no settings to
`refresh`, as in the code. Viper's keys are a set, half of them the user's, half
the server's. A garbled file is never read as valid settings. `alone` and
`written` are history variables.

**Session** (`session.go:56-417`). `files` is the directory; the cluster's
kubeconfig directory is named after the cluster. `os.Stat` and `os.Create` of
`ensureFile` are two actions. `ensureFile` returns no file for one that exists,
and the writes to it then fail: that is an error for the scripts, `.ocenv` and
`.zshenv`, and goes unnoticed for `.history` (`KeepFile`). `os.RemoveAll` may leave
anything, as its error is printed and dropped. Login is one step, and what it does
to the kubeconfig is `Kubeconfig`. `alone` is a history variable.

**Upgrade** (`upgrade.go:61-168`, `writer.go:27-70`, `github.go`). `binary` and
`backup` are the two files; `os.WriteFile` creates the file and writes it.
`Restore(FALSE)` is the restoration that is logged to have failed, and `restored`
remembers it. The process may be killed between any two steps; that the machine
stops before the data is on the disk, against which `writer.go` has no fsync, is
not modelled. The release is always the version "new".

## 4. Runs

Passing runs:

| Run | Bounds | Shows |
|---|---|---|
| `proxy` | lists of up to 3 proxies | one can pass, one fail and one hang or not parse, in every order |
| `ocm` | 2 callers, 3 connections | a race of two callers, and a third connection while the first watcher is still to run |
| `kubeconfig` | 2 terminals, 2 clusters (one at 4.11), 2 reasons, 3 commands, retention 1 tick of 4 | every overtaking of one command by another, and a third command that sees the result; a reason can expire and be renewed; a login or logout between any two readings of a monitoring proxy |
| `console` | 2 runs, 2 clusters (one with plugin), 1 switch | two runs on one cluster, the second after the first was killed or has failed or while it works, and a login at every point of either |
| `remote` | 8 clusters and one not listed, of 7 names, 2 users, 2 instances, 2 scripts, 2 seconds, 2 manifests, 1 refused object | clusters with a hive, hosted, hosted without a manager yet, management, service; a management cluster that shares its name with a plain one, and a hive with a hosted one; a service cluster OCM does not list; ambiguous and unknown keys; two instances made, lost and deleted in every order; two manifests in one second and in two; of managed jobs all flags and all states |
| `accessrequest` | 2 people, 1 cluster, 3 commands | two creates that overlap in every way, one of them perhaps with the issue the other made, and a third command that meets what they left |
| `rolechain` | chains up to 3 roles, 3 addresses, 3 retries as in the code, 2 SIGINTs | refusals at every role, and every list of trusted addresses; a SIGINT at every point of a session, and a second one |
| `localfiles` | 3 commands, 3 keys, 2 values; 2 terminals, 2 clusters, one session name | a refresh overtaken by a set and by another refresh; two terminals in one directory, with and without a session left from before |

What they check:

- `proxy`: `NoSendOnClosedChannel`, `FallsBackOnlyWhenNoneIsLeft`,
  `ImplementsProxyChoice` (refinement with fairness), `EveryCallFinishes` (the
  caller returns and every goroutine ends).
- `ocm`: `ImplementsLease` (refinement: it includes that at most one connection is
  open, and adds that none is made while another is open, none is handed out
  once it is closed, and none comes back), `EveryConnectionIsClosed`. Deadlock is
  checked.
- `kubeconfig`: `NoImpersonationOnDisk`, `ElevatesOnlyWithLiveReasons`,
  `ForeignContextSurvives`, `MultiTerminalsAreIsolated`,
  `ServesTheClusterItChecked`. Three cases carry the weight: a write that
  overtakes another, a `--multi` file used by one terminal while another goes on
  with the default one, and a login between two readings of the proxy. Symmetry
  is of terminals only: the clusters differ in their version. It is sound, as no
  property is a liveness property and the initial states are symmetric.
- `console`: `PrecleanRemovesLeftovers` (what dead runs left on a cluster is gone
  when a later run there starts its own), `CleanUpIsComplete`,
  `PluginIsStoppedFirst`, `SignalEndsTheRun`. The clean-up's promise is about
  containers that were up, or had failed, when Ctrl-C came. The runs with
  `JoinsNetwork` are among those without, so the latter are checked; the proofs are
  of both.
- `remote`: `LandsWhereAsked` of login, `InstancesAreKnown` of remediation,
  `PodsHaveTheirRights` of test jobs, and of managed jobs `CommandAndJobAgree` and
  the liveness property `EndsOrStreams`. `LandsWhereAsked` compares the cluster
  found with the one OCM meant: a namesake of it is reached only by the user's
  choice, and a hosted cluster's hive only when OCM did not answer. For the service
  cluster, where the code takes the first of a name unasked, it is about names that
  nobody shares. `PodsHaveTheirRights` is about manifests
  that have their second to themselves and that oc got through: the run also
  reaches two manifests of one second, which do replace each other's objects.
  `CommandAndJobAgree` has three parts: `--wait` reports the end the job came to,
  logs are followed of a job that has started, and only `--raw` dereferences a
  job that was not made. No symmetry, because of the liveness property.
- `accessrequest`: `DuplicatesOnlyByOverlap`, `ErrorIssuesHaveNoKnownRequest`,
  `OwnIssuesAreSettled`, `NotifiesInItsProject`. The first is as much as a check
  followed by a create can promise: overlapping commands do make duplicates. A
  second cluster would add nothing but commands that never meet. Symmetry of
  people is sound, as no property is a liveness property.
  `ErrorIssuesHaveNoKnownRequest` is of all commands that use an issue: the request
  of somebody who was given an issue can come under the error of its maker, that
  of the maker itself cannot.
- `rolechain`: `EndsWithTheWholeChain`, `CustomerSessionsAreRestricted`,
  `EveryRoleHasItsRetries` (an action property), `EndsOnceAnswered`; and of the
  session command `FirstInterruptIsPassedOn`, a liveness property: a SIGINT that
  comes when the goroutine can know the process is passed on. Those that come
  earlier can be lost, and so is every one after the first.
- `localfiles`: `KeepsTheOtherSettings` and `StartsOnItsCluster` (action
  properties), `ABinaryIsLeft`. The three modules touch different files, so a
  behaviour runs the commands of one of them, chosen at the start (`subject`).
  Both action properties are of commands that nobody has overtaken; overlapping
  ones do undo each other's work. Symmetry of commands, values, terminals and
  clusters is sound, as no property is a liveness property. Deadlock checking is
  off since every command of `ConfigFile` runs once.

Every run also checks one type invariant. The bounded things (`MaxTime`,
`MaxCommands`, `MaxSwitches`, `Connections`, `MaxSeconds`, `MaxRenders`,
`MaxRefusals`) are what the environment does; deadlock checking is off only where
the commands really end or the budget runs out.

Runs that show a disagreement between the code and what it says of itself:

| Run | The text | What happens |
|---|---|---|
| `kubeconfig_reasons` | README.md:348, "the reason will be kept for 20min after its last usage" | a login to the same cluster replaces the context and drops its reasons |
| `kubeconfig_logout` | logout.go:20-22, removes "the current kubeconfig context" and "the reference to the current cluster" | the user, shared by the contexts of all clusters, is deleted as well |
| `rolechain_seed` | sts.go:157, "credentials from the previous step (or seedClient for the first)" | a retry of the first role takes the empty credentials instead of the seed client, and so cannot succeed |
| `login_service` | globalflags.go:40, "Login to service cluster for the given hosted cluster or management cluster" | a management cluster is refused for not being hosted, after its service cluster was found (login.go:288) |

## 5. Fairness

The program is fair, its surroundings are not: goroutines that can run do
(`WF` of each goroutine's steps), timers fire, `sync.Mutex` starves nobody (it
hands over in order after a millisecond, hence `SF` for taking it), and every
HTTP request ends with an answer or an error once its context is done. A proxy
need not answer before the timeout, a job need not end, nobody has to press
Ctrl-C or to call the OCM interface. In `ManagedJob` and `RoleChain` requests have no
timeout of their own; that they end at all is an assumption, named in the
modules. In `Ssm` the command and its goroutine are fair, the plugin and the user
are not. `AccessRequest`, `ConfigFile`, `Session`, `Upgrade`,
`Kubeconfig`, `Monitoring`, `LoginTarget`, `Remediation` and `TestJob` have safety
properties only and assume no fairness.

## 6. Proofs

`tlapm` checks eight modules. Each component has an inductive invariant, found as
a strengthening of what the run checks, of which are proved that it holds
initially, that every step preserves it and that it implies the properties; the
theorems of the specifications follow.

- `ProxySelectionProofs`. The properties alone are not inductive: that the
  channel is closed says nothing of the testers without knowing what `wg` counts.
  `IInv` adds that `wg` is the number of running testers (`WaitGroupInv`), that
  `failures` is the number of failures counted so far (`SpawnInv`, with the
  unparseable proxies), what each tester has reported (`ResultInv`), and what
  holds at each place of the caller (`CallerInv`). `ChannelSafe` follows since
  `wg = 0` means that the set of running testers is empty; `NoEarlyFallback`
  since `n` failures among `n` proxies leave no other. `Refinement` is the safety
  part of the refinement of `ProxyChoice`. Of termination, two halves are proved:
  `EveryCallIsBounded`, a call over `n` proxies has at most `4n + 10` steps, and
  `NoDeadlock`, a call that is not over has a goroutine whose guard holds. For the
  second, `LateResultsAreReceived` says that a tester which reports after the
  answer was given still meets a receiver. For every `MaxProxies`, from
  `MaxProxiesAssumption`.
- `OcmConnectionProofs`. `IInv` adds mutual exclusion (`MutexInv`), that the open
  connections are the cached one except while a watcher is between closing and
  clearing (`CacheInv`), and what a caller between check and unlock holds
  (`HandedInv`). With these, `KeepsThePromise` shows the refinement of
  `ConnectionLease`: a step that opens a connection finds none open, and the step
  that hands one out finds it open. Under `EveryConnectionIsClosed` lie four facts
  that need no fairness: an open connection has a watcher that is yet to close
  it, or a caller that is about to start one (`NoConnectionIsForgotten`), a
  watcher never turns back (`WatchersGetThere`), who holds the mutex waits for
  nobody (`HoldersGoOn`), and with its every step is nearer to letting go of it
  (`MutexComesBack`). For any callers and connections, from
  `IdentityAssumption`.
- `KubeconfigProofs`. A command works on a copy, so `IInv` says of the copies in
  memory that may still be written what it says of the files: the current context
  exists and nobody impersonates (`Sound`), stored reasons were used when they
  are stamped (`Recorded`), and a copy destined for the default file has the
  foreign context exactly if the file has it (`ForeignInv`). Five safety
  properties follow, one of them, `CurrentContextExists`, only proved here. They
  are theorems of `MonitoringSpec`, every step of which is one of `Kubeconfig` or
  changes nothing of it. `MonitoringInv` adds that an undisturbed monitor is on a
  file whose only backplane cluster is the one it is named after, which the
  isolation of `--multi` terminals keeps so between the readings.
  `ReasonsKeptAlone` and `UsersKeptAlone` are the refuted `ReasonsAreKept` and
  `ContextsKeepTheirUser` as far as they are true, for one terminal: reasons that
  still live are lost only with their context, or to a login to that cluster or
  with `--multi`, and the contexts of a file lose a user only to a logout. The hypothesis of
  one terminal (`Terminals = {t}`) is needed, since with two a copy read before
  the other's command is written after it; `FreshInv` is what it gives: a copy
  in memory is of the file as it is. For any terminals, clusters, reasons, retention time and bounds, from
  `KubeconfigAssumption` and `MonitoringAssumption`.
- `ConsoleProofs`. `RunOK` says of each run by itself that it owns nothing before
  its goroutine is started and a plugin only if it needs one, what the clean-up's
  list can still hold (`Pending`), and that once nothing is started any more what
  the clean-up has been past is not the run's. `EveryRunIsBounded` is the part of
  `SignalEndsTheRun` that needs no fairness: a run has at most fifteen steps of
  its main goroutine, at most five once it has received Ctrl-C, and seven of the
  other, and neither turns back. `PrecleanCompletes` needs an invariant of its own
  (`LeftoversOK`): a run that is over stays so and starts nothing, and the pre-clean
  has no container of such a run behind it. For any clusters and runs, with either
  engine.
- `RemoteProofs`. `LoginInv` says at each phase what the look-ups so far have
  found, whether the user chose it, and whether it rests on a request that was not
  answered; `JobInv` says what the command knows of the job, `RemediationInv` that an
  instance which is there is in the hands of a command, known or orphaned. For
  test jobs it has to be shown first what a manifest contains: that the entries
  which open a namespace are numbered one by one (`RankFacts`), that each
  namespace with rules has such an entry (`OpenedBy`), and that the pod comes last
  (`ObjectsFacts`). `TestJobInv` then says that a second with one manifest has one
  user and one script (`AgreeInv`), and how far oc has come (`WholeInv`): what it
  applied is there, what it deleted is not, and a pod has everything before it.
  `RemoteTypeCorrect` and `RemoteIsSafe` carry the four over to the composition.
  `OnlyUnhostedAreRefused` is the boundary of `login_service`: `--service` refuses
  a hosted cluster only after a request that was not answered. `ManagedJobAdvances` is what `EndsOrStreams` rests on: the
  stages only go forward, and what has been told of the job stays. For any fleet, names, users, instances and scripts, from `OcmAssumption`,
  `RemediationAssumption` and `TestJobAssumption`.
- `RoleChainProofs`. `IInv` says what the credentials are at each place of the
  loop: with `step` roles behind them after a success, `step - 1` before it,
  none before the first; that the check of the address is behind every attempt;
  and that a role was refused once more than it was retried while a retry is
  pending. `ChainOnlyAdvances` is what `EndsOnceAnswered` rests on: every step is
  to a later phase, role or retry, or the answer to an attempt.
  `WrongOnFirstRetriesOnly` and `FirstRoleIsNotRetried` say how far `sts.go:157` is
  true, which `rolechain_seed` refutes: the client is the wrong one on the retries
  of the first role and nowhere else, and none of these succeeds. Chains of any
  length, from `RoleChainAssumption`.
- `RoleChainProofs` also proves the sessions of `Ssm`. Every step of the session
  command is a step of `RoleChain` or none (`StepMaps`), for which `SsmInv` has
  to know that no request has been made where an error can precede the chain. So
  `SsmSpec => Spec`, and with it what is proved of `RoleChain` holds of
  sessions. `SsmInv` also says that a plugin runs only where there is a
  goroutine for its signals, from which `CommandOutlivesPlugin` follows.
  `InterruptIsHeld` is the safety part of `FirstInterruptIsPassedOn`: the first
  SIGINT stays in the channel until the goroutine takes it. For any number of signals, from `SsmAssumption` and `RoleChainAssumption`.
- `AccessRequestProofs`. `IInv` adds what a command at work has at hand
  (`CommandInv`: its issue exists, belongs to the right project and is its own
  exactly if none was given), that no active request of the cluster is as old as
  the check of a command that has not posted yet (`CheckedInv`), and, though any
  issue may be given to any command, that no two commands have made the same one
  and that nobody was told of a request of a command which gives up (`OwnInv`).
  `SettledInv` says of every command about to move an issue on that the request
  the issue then refers to notifies by it, and of an issue a command made that it
  is settled, or that its maker still has it in hand. For any people, clusters and number of
  commands, from `AccessRequestAssumption`.
- `LocalFilesProofs`. For the configuration file, `IInv` says that what a reader
  finds is what was last written (`FileInv`), that a command changes keys of its
  own kind (`ChangesInv`), and that one nobody has overtaken holds exactly what
  the file said, and has emptied the file itself when it writes (`AloneInv`). For
  the upgrade, `UpgradeInv` says at each step which of the two files is whole. For
  the session, `SessionInv` counts the terminals at work on the directory, and
  says that one which is alone there knows what is in it. For any commands, keys,
  values, terminals and clusters, from `SessionAssumption`: no cluster is called
  ".", which is what the directory's own entries are told apart by.

Every safety property that a passing run checks is a theorem. Only
model-checked is liveness under fairness (`EveryCallFinishes`,
`EveryConnectionIsClosed`, `SignalEndsTheRun`, `EndsOrStreams`,
`EndsOnceAnswered`, `FirstInterruptIsPassedOn`, the fairness part of
`ImplementsProxyChoice`), which is out of the prover's reach, as is `ENABLED`. The
theorems that these properties rest on speak of guards and of numbers of steps
instead: nothing runs for ever, and nobody is left waiting. That the steps
are taken is what fairness adds and TLC checks.

## 7. What is not modelled

Components without a module, with the reasons in `PROJECT.json`: the health check,
the session detector, the script catalogue, API clients and rendering, the
command line, status and version. Each is one pass of requests and printing, with
no state that another command or goroutine could see.

Left out of the modelled components: `--kube-path`; `get` and `logs` of managed
and test jobs, single requests; how `render` inlines a library into the script
(the first `source` line only); arguments, images, ports and URLs of containers;
the headers of forwarded requests; the content of jobs and logs; texts of issues,
keys and tokens of credentials.

What the properties leave out, because the code does not promise it, is in the
notes of the hazards in `PROJECT.json`: overlapping `set` and `refresh`, two
terminals in one session directory, manifests of one second, early signals of a
session, monitoring on the default kubeconfig, another tool writing the kubeconfig
under a command. Most of these the models do reach; no property is about them.

Known limits the models do not show: Ctrl-C during an elevated oc leaves the
temporary kubeconfig behind (`elevate.go:76`); `GetFreePort` gives its port up
before it is bound again (`util.go:68`); a pull secret is fetched once and not
again after it was rotated (`container/common.go:25`); a managed job whose
creation was not answered runs unknown to its user (`createManagedJob.go:206`).

`clientcmd`, the OCM SDK, the container engines, oc and the backplane API are
modelled by what the code sees of them.

## Running

    tlc -config MCKubeconfig.cfg MCKubeconfig
    tlapm KubeconfigProofs.tla
