---------------------------- MODULE AccessRequest ----------------------------
(***************************************************************************)
(* Access requests (cmd/ocm-backplane/accessrequest, pkg/accessrequest):   *)
(* a command keeps an access request at OCM and an issue at Jira in step,  *)
(* one request after the other, while other people run commands for the    *)
(* same cluster and the customer decides.  Both services may refuse, and   *)
(* an answer may be lost.                                                  *)
(***************************************************************************)
EXTENDS Integers, Sequences

CONSTANTS
    People,        \* each runs one command at a time
    Clusters,
    None,          \* no cluster
    MaxCommands    \* bound on the commands run

ASSUME AccessRequestAssumption ==
    /\ None \notin Clusters
    /\ MaxCommands \in Nat

VARIABLES
    isProd,    \* the OCM environment is production
    hasToken,  \* a Jira token is configured
    requests,  \* the access requests at OCM, in the order they were made
    issues,    \* the issues at Jira
    cmd,       \* cmd[p]: the command person p runs
    left       \* how many commands may still be run

vars == <<isProd, hasToken, requests, issues, cmd, left>>

Projects == {"prod", "test"}

Request == [cluster  : Clusters,
            issue    : Nat,
            state    : {"Pending", "Approved", "Ended"},  \* denied or expired
            answered : BOOLEAN,  \* history: its creator was told of it
            own      : BOOLEAN,  \* history: its creator had made the issue
            seen     : Nat]      \* history: requests there when it was checked

Issue == [project : Projects,
          owned   : BOOLEAN,     \* made by the command
          status  : {"new", "created", "approved", "error"},
          names   : Nat,         \* the request the description refers to, or 0
          dropped : BOOLEAN]     \* history: Jira refused, or Ctrl-C came

Idle == [pc |-> "idle", cluster |-> None, given |-> "none", issue |-> 0,
         retrieved |-> FALSE, req |-> 0, seen |-> 0]

Command == [pc        : {"idle", "check", "reason", "issue", "post", "update",
                         "transition", "onerror", "find", "decide"},
            cluster   : Clusters \cup {None},
            given     : {"none", "key", "url"},  \* --notification-issue
            issue     : Nat,
            retrieved : BOOLEAN,                 \* notificationIssue is not nil
            req       : Nat,
            seen      : Nat]

TypeOK ==
    /\ isProd \in BOOLEAN
    /\ hasToken \in BOOLEAN
    /\ requests \in Seq(Request)
    /\ issues \in Seq(Issue)
    /\ cmd \in [People -> Command]
    /\ left \in 0..MaxCommands
    /\ \A i \in DOMAIN requests : requests[i].issue \in DOMAIN issues
    /\ \A i \in DOMAIN issues : issues[i].names \in {0} \cup DOMAIN requests

NewIssue(project, owned) ==
    [project |-> project, owned |-> owned, status |-> "new", names |-> 0,
     dropped |-> FALSE]

\* People have an issue of their own in each project to begin with.
Init ==
    /\ isProd \in BOOLEAN
    /\ hasToken \in BOOLEAN
    /\ requests = <<>>
    /\ issues = <<NewIssue("prod", FALSE), NewIssue("test", FALSE)>>
    /\ cmd = [p \in People |-> Idle]
    /\ left = MaxCommands

IsActive(i) == requests[i].state \in {"Pending", "Approved"}

\* Mutant: approved requests are not searched for.
PendingOf(cluster) ==
    {i \in DOMAIN requests :
        requests[i].state = "Pending" /\ requests[i].cluster = cluster}

\* What the search of GetClusterActiveAccessRequest finds.
ActiveOf(cluster) ==
    {i \in DOMAIN requests : IsActive(i) /\ requests[i].cluster = cluster}

EnvProject == IF isProd THEN "prod" ELSE "test"

-----------------------------------------------------------------------------
(* accessrequest create *)

Begin(p, c) ==
    /\ cmd[p].pc = "idle"
    /\ left > 0
    /\ left' = left - 1
    /\ cmd' = [cmd EXCEPT ![p] = c]
    /\ UNCHANGED <<isProd, hasToken, requests, issues>>

\* --notification-issue may name any issue there is: also one that another
\* command has made and still works on, or has moved to the error status.
Create(p, cluster, given, issue) ==
    Begin(p, [Idle EXCEPT !.pc = "check", !.cluster = cluster, !.given = given,
                          !.issue = IF given = "none" THEN 0 ELSE issue])

\* GetAccessRequest; an active one ends the command.
CheckActive(p) ==
    /\ cmd[p].pc = "check"
    /\ cmd' = IF ActiveOf(cmd[p].cluster) = {}
                THEN [cmd EXCEPT ![p].pc = "reason", ![p].seen = Len(requests)]
                ELSE [cmd EXCEPT ![p] = Idle]
    /\ UNCHANGED <<isProd, hasToken, requests, issues, left>>

\* The reason: an option, the elevation reason of the kubeconfig, or a prompt.
GiveReason(p) ==
    /\ cmd[p].pc = "reason"
    /\ cmd' = [cmd EXCEPT ![p].pc = "issue"]
    /\ UNCHANGED <<isProd, hasToken, requests, issues, left>>

\* Mutant: the command goes on without an issue.
MakeIssueAnyway(p, lost) ==
    /\ cmd[p].pc = "issue" /\ cmd[p].given = "none"
    /\ hasToken
    /\ issues' = Append(issues, [NewIssue(EnvProject, TRUE) EXCEPT !.dropped = lost])
    /\ cmd' = [cmd EXCEPT ![p].pc = "post", ![p].retrieved = ~lost,
                          ![p].issue = IF lost THEN 0 ELSE Len(issues')]
    /\ UNCHANGED <<isProd, hasToken, requests, left>>

\* createNotificationIssue; when the answer is lost the command fails and the
\* issue stays as it is.
MakeIssue(p, lost) ==
    /\ cmd[p].pc = "issue" /\ cmd[p].given = "none"
    /\ hasToken
    /\ issues' = Append(issues, [NewIssue(EnvProject, TRUE) EXCEPT !.dropped = lost])
    /\ cmd' = IF lost THEN [cmd EXCEPT ![p] = Idle]
              ELSE [cmd EXCEPT ![p].pc = "post", ![p].retrieved = TRUE,
                               ![p].issue = Len(issues')]
    /\ UNCHANGED <<isProd, hasToken, requests, left>>

\* Mutant: the project is checked by asking Jira only.
VerifyIssueAtJira(p) ==
    /\ cmd[p].pc = "issue" /\ cmd[p].given # "none"
    /\ cmd' = [cmd EXCEPT ![p].pc = "post", ![p].retrieved = hasToken]
    /\ UNCHANGED <<isProd, hasToken, requests, issues, left>>

\* verifyAndPossiblyRetrieveIssue; without a token the issue is not retrieved.
VerifyIssue(p) ==
    /\ cmd[p].pc = "issue" /\ cmd[p].given # "none"
    /\ issues[cmd[p].issue].project = EnvProject
    /\ cmd' = [cmd EXCEPT ![p].pc = "post", ![p].retrieved = hasToken]
    /\ UNCHANGED <<isProd, hasToken, requests, issues, left>>

Posted(p, answered) ==
    requests' = Append(requests, [cluster |-> cmd[p].cluster,
                                  issue |-> cmd[p].issue, state |-> "Pending",
                                  answered |-> answered,
                                  own |-> cmd[p].given = "none",
                                  seen |-> cmd[p].seen])

Post(p) ==
    /\ cmd[p].pc = "post"
    /\ Posted(p, TRUE)
    /\ cmd' = IF cmd[p].retrieved
                THEN [cmd EXCEPT ![p].pc = "update", ![p].req = Len(requests')]
                ELSE [cmd EXCEPT ![p] = Idle]
    /\ UNCHANGED <<isProd, hasToken, issues, left>>

\* Mutant: the issue is moved to the error status whoever made it.
PostFailsForAnyIssue(p, lost) ==
    /\ cmd[p].pc = "post"
    /\ IF lost THEN Posted(p, FALSE) ELSE UNCHANGED requests
    /\ cmd' = [cmd EXCEPT ![p].pc = "onerror"]
    /\ UNCHANGED <<isProd, hasToken, issues, left>>

\* Mutant: the command gives up at once.
PostFailsSilently(p, lost) ==
    /\ cmd[p].pc = "post"
    /\ IF lost THEN Posted(p, FALSE) ELSE UNCHANGED requests
    /\ cmd' = [cmd EXCEPT ![p] = Idle]
    /\ UNCHANGED <<isProd, hasToken, issues, left>>

\* OCM refuses (the connection may also have been closed since the prompt), or
\* its answer is lost.
PostFails(p, lost) ==
    /\ cmd[p].pc = "post"
    /\ IF lost THEN Posted(p, FALSE) ELSE UNCHANGED requests
    /\ cmd' = IF cmd[p].given = "none" THEN [cmd EXCEPT ![p].pc = "onerror"]
                                       ELSE [cmd EXCEPT ![p] = Idle]
    /\ UNCHANGED <<isProd, hasToken, issues, left>>

\* updateNotificationIssueDescription; Jira's refusal is only logged.
UpdateIssue(p, refused) ==
    /\ cmd[p].pc = "update"
    /\ issues' = IF refused THEN [issues EXCEPT ![cmd[p].issue].dropped = TRUE]
                 ELSE [issues EXCEPT ![cmd[p].issue].names = cmd[p].req]
    /\ cmd' = [cmd EXCEPT ![p].pc = "transition"]
    /\ UNCHANGED <<isProd, hasToken, requests, left>>

\* transitionIssue; the names of the transitions are those of the project the
\* option starts with, none for an issue that was given as a URL.
Transition(p, refused) ==
    /\ cmd[p].pc \in {"transition", "onerror"}
    /\ LET i == cmd[p].issue IN
       issues' = IF refused THEN [issues EXCEPT ![i].dropped = TRUE]
                 ELSE IF cmd[p].given = "url" THEN issues
                 ELSE [issues EXCEPT ![i].status =
                          IF cmd[p].pc = "onerror" THEN "error" ELSE "created"]
    /\ cmd' = [cmd EXCEPT ![p] = Idle]
    /\ UNCHANGED <<isProd, hasToken, requests, left>>

-----------------------------------------------------------------------------
(* accessrequest expire, and what else can happen *)

Expire(p, cluster) ==
    Begin(p, [Idle EXCEPT !.pc = "find", !.cluster = cluster])

\* The first of the list OCM answers with, whose order it chooses.
FindActive(p) ==
    /\ cmd[p].pc = "find"
    /\ \E i \in ActiveOf(cmd[p].cluster) :
          cmd' = [cmd EXCEPT ![p].pc = "decide", ![p].req = i]
    /\ UNCHANGED <<isProd, hasToken, requests, issues, left>>

\* CreateAccessRequestDecision; OCM takes no decision on a request that is not
\* active any more.
Decide(p) ==
    /\ cmd[p].pc = "decide"
    /\ requests' = IF IsActive(cmd[p].req)
                     THEN [requests EXCEPT ![cmd[p].req].state = "Ended"]
                     ELSE requests
    /\ cmd' = [cmd EXCEPT ![p] = Idle]
    /\ UNCHANGED <<isProd, hasToken, issues, left>>

\* Errors that end the command before it has changed anything.
Fail(p) ==
    /\ cmd[p].pc \in {"check", "reason", "issue", "find", "decide"}
    /\ cmd' = [cmd EXCEPT ![p] = Idle]
    /\ UNCHANGED <<isProd, hasToken, requests, issues, left>>

\* Ctrl-C, which leaves both services as they are.
Interrupt(p) ==
    /\ cmd[p].pc \in {"post", "update", "transition", "onerror"}
    /\ cmd' = [cmd EXCEPT ![p] = Idle]
    /\ issues' = [issues EXCEPT ![cmd[p].issue].dropped = TRUE]
    /\ UNCHANGED <<isProd, hasToken, requests, left>>

\* The customer approves, and the backend moves the issue; it cannot find an
\* issue it does not know by its key.
Approve(i) ==
    /\ requests[i].state = "Pending"
    /\ requests' = [requests EXCEPT ![i].state = "Approved"]
    /\ \/ issues' = [issues EXCEPT ![requests[i].issue].status = "approved"]
       \/ UNCHANGED issues
    /\ UNCHANGED <<isProd, hasToken, cmd, left>>

\* The customer denies, or the deadline or the approval's duration is over.
EndRequest(i) ==
    /\ IsActive(i)
    /\ requests' = [requests EXCEPT ![i].state = "Ended"]
    /\ UNCHANGED <<isProd, hasToken, issues, cmd, left>>

Next ==
    \/ \E p \in People :
         \/ \E c \in Clusters :
              \/ \E given \in {"none", "key", "url"}, i \in DOMAIN issues :
                    Create(p, c, given, i)
              \/ Expire(p, c)
         \/ \E refused \in BOOLEAN :
              \/ MakeIssue(p, refused) \/ PostFails(p, refused)
              \/ UpdateIssue(p, refused) \/ Transition(p, refused)
         \/ CheckActive(p) \/ GiveReason(p) \/ VerifyIssue(p) \/ Post(p)
         \/ FindActive(p) \/ Decide(p) \/ Fail(p) \/ Interrupt(p)
    \/ \E i \in DOMAIN requests : Approve(i) \/ EndRequest(i)

Spec == Init /\ [][Next]_vars

-----------------------------------------------------------------------------
(* Properties *)

\* A cluster has two active requests only if they were made at the same time:
\* the second was checked for before the first was there.  A create that is
\* repeated, after its answer was lost or the first was approved, is refused
\* (createAccessRequest.go:105-115).
DuplicatesOnlyByOverlap ==
    \A i, j \in DOMAIN requests :
        (/\ i < j /\ IsActive(i) /\ IsActive(j)
         /\ requests[i].cluster = requests[j].cluster)
            => requests[j].seen < i

\* A command moves an issue to the error status only if it made the issue, and
\* only after a request nobody was told of: an issue in that status with a request
\* somebody knows of is one that a command made and another person has given to a
\* command as well (accessRequest.go:218-232, :237-243).
ErrorIssuesHaveNoKnownRequest ==
    \A i \in DOMAIN requests :
        LET issue == issues[requests[i].issue] IN
        requests[i].answered /\ issue.status = "error"
            => issue.owned /\ ~requests[i].own

\* The issue a command makes is not forgotten: unless Jira refused or Ctrl-C
\* came, it is new only while that command runs, and whoever moves it on to say
\* that a request was created has made it refer to a request that notifies by it,
\* though others may be using the issue too (accessRequest.go:236-248).
OwnIssuesAreSettled ==
    \A i \in DOMAIN issues :
        (issues[i].owned /\ ~issues[i].dropped) =>
            /\ issues[i].status = "new" =>
                 \E p \in People :
                    /\ cmd[p].given = "none" /\ cmd[p].issue = i
                    /\ cmd[p].pc \in {"post", "update", "transition", "onerror"}
            /\ issues[i].status = "created" =>
                 /\ issues[i].names \in DOMAIN requests
                 /\ requests[issues[i].names].issue = i

\* Every request notifies by an issue of the project of its environment, made or
\* given (createAccessRequest.go:53, accessRequest.go:86-110, :128-134).
NotifiesInItsProject ==
    \A i \in DOMAIN requests : issues[requests[i].issue].project = EnvProject
=============================================================================
