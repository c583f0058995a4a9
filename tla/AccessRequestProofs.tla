------------------------- MODULE AccessRequestProofs -------------------------
(***************************************************************************)
(* Theorems about AccessRequest, for any people, clusters and number of    *)
(* commands: type correctness, that only overlapping commands make two     *)
(* active requests for a cluster, that a request notifies in the project   *)
(* of its environment, that a command moves an issue to the error status   *)
(* only when it made it and told nobody of its request, and that an issue  *)
(* a command makes is settled, whoever else uses it.                       *)
(***************************************************************************)
EXTENDS AccessRequest, TLAPS, SequenceTheorems

Writing == {"post", "update", "transition", "onerror"}

\* What a command at work has at hand.
CommandOK(c) ==
    /\ c.pc # "idle" => c.cluster \in Clusters
    /\ c.pc \in {"check", "reason", "issue"} /\ c.given # "none" =>
          c.issue \in DOMAIN issues
    /\ c.pc \in Writing => /\ c.issue \in DOMAIN issues
                           /\ issues[c.issue].project = EnvProject
                           /\ c.given = "none" => issues[c.issue].owned
    /\ c.pc = "onerror" => c.given = "none"
    /\ c.pc \in {"update", "decide"} => c.req \in DOMAIN requests

CommandInv == \A p \in People : CommandOK(cmd[p])

\* No active request of the cluster is as old as the command's check.
Checked(c) ==
    c.pc \in {"reason", "issue", "post"} =>
        /\ c.seen <= Len(requests)
        /\ \A i \in DOMAIN requests :
              (IsActive(i) /\ requests[i].cluster = c.cluster) => c.seen < i

CheckedInv == \A p \in People : Checked(cmd[p])

\* No two commands have made the same issue, and one that made an issue has told
\* nobody of its request when it gives up and moves the issue to the error status.
\* Who was given the issue may have told of another.
Own(c) == c.given = "none" /\ c.pc \in Writing

OwnInv ==
    /\ \A p, q \in People :
          (Own(cmd[p]) /\ Own(cmd[q]) /\ p # q) => cmd[p].issue # cmd[q].issue
    /\ \A p \in People : Own(cmd[p]) =>
          /\ cmd[p].pc = "post" => /\ issues[cmd[p].issue].status # "error"
                                   /\ \A i \in DOMAIN requests :
                                         requests[i].issue = cmd[p].issue => ~requests[i].own
          /\ cmd[p].pc = "onerror" =>
                \A i \in DOMAIN requests :
                   requests[i].issue = cmd[p].issue /\ requests[i].own
                      => ~requests[i].answered
    /\ \A i \in DOMAIN issues : issues[i].status = "error" => issues[i].owned

\* An issue refers to a request that notifies by it.
NamesItsRequest(i) ==
    issues[i].names \in DOMAIN requests /\ requests[issues[i].names].issue = i

\* A command with an issue of its own has retrieved it, and so goes on after the
\* request is made.  Any command that goes on writes its request into its issue,
\* before it moves the issue on, unless Jira refuses; so does any other command
\* that uses the same issue.
Settling(c) ==
    /\ c.pc = "post" /\ c.given = "none" => c.retrieved
    /\ c.pc = "update" => c.req \in DOMAIN requests /\ requests[c.req].issue = c.issue
    /\ c.pc = "transition" => issues[c.issue].dropped \/ NamesItsRequest(c.issue)

SettledInv ==
    /\ \A p \in People : Settling(cmd[p])
    /\ OwnIssuesAreSettled

IInv ==
    /\ TypeOK /\ CommandInv /\ CheckedInv /\ OwnInv /\ SettledInv
    /\ DuplicatesOnlyByOverlap /\ NotifiesInItsProject
    /\ ErrorIssuesHaveNoKnownRequest

-----------------------------------------------------------------------------
(* The two sequences *)

\* An entry of a sequence of issues is changed for another issue.
LEMMA IssueChanged ==
    ASSUME issues \in Seq(Issue), NEW i \in DOMAIN issues, NEW e \in Issue,
           issues' = [issues EXCEPT ![i] = e]
    PROVE  /\ issues' \in Seq(Issue) /\ Len(issues') = Len(issues)
           /\ DOMAIN issues' = DOMAIN issues
           /\ issues'[i] = e
           /\ \A j \in DOMAIN issues : j # i => issues'[j] = issues[j]
  OBVIOUS

\* Only the state of a request changes.
LEMMA StateChanged ==
    ASSUME requests \in Seq(Request), NEW i \in DOMAIN requests,
           NEW state \in {"Pending", "Approved", "Ended"},
           requests' = [requests EXCEPT ![i].state = state]
    PROVE  /\ requests' \in Seq(Request) /\ Len(requests') = Len(requests)
           /\ DOMAIN requests' = DOMAIN requests
           /\ requests'[i].state = state
           /\ \A j \in DOMAIN requests :
                 /\ requests'[j].cluster = requests[j].cluster
                 /\ requests'[j].issue = requests[j].issue
                 /\ requests'[j].answered = requests[j].answered /\ requests'[j].own = requests[j].own
                 /\ requests'[j].seen = requests[j].seen
                 /\ j # i => requests'[j].state = requests[j].state
<1> DEFINE e == [requests[i] EXCEPT !.state = state]
<1>1. requests[i] \in Request
  OBVIOUS
<1>2. e \in Request
  BY <1>1 DEF Request
<1>3. requests' = [requests EXCEPT ![i] = e]
  OBVIOUS
<1>4. /\ e.cluster = requests[i].cluster /\ e.issue = requests[i].issue
      /\ e.answered = requests[i].answered /\ e.own = requests[i].own
      /\ e.seen = requests[i].seen
      /\ e.state = state
  BY <1>1 DEF Request
<1> HIDE DEF e
<1>5. /\ requests' \in Seq(Request) /\ Len(requests') = Len(requests)
      /\ DOMAIN requests' = DOMAIN requests
      /\ requests'[i] = e
      /\ \A j \in DOMAIN requests : j # i => requests'[j] = requests[j]
  BY <1>2, <1>3
<1> QED
  BY <1>4, <1>5

\* A request is added at the end.
LEMMA RequestAdded ==
    ASSUME requests \in Seq(Request), NEW r \in Request,
           requests' = Append(requests, r)
    PROVE  /\ requests' \in Seq(Request)
           /\ Len(requests') = Len(requests) + 1
           /\ DOMAIN requests' = DOMAIN requests \cup {Len(requests) + 1}
           /\ requests'[Len(requests) + 1] = r
           /\ \A j \in DOMAIN requests : requests'[j] = requests[j]
  BY AppendProperties

\* An issue is added at the end.
LEMMA IssueAdded ==
    ASSUME issues \in Seq(Issue), NEW e \in Issue, issues' = Append(issues, e)
    PROVE  /\ issues' \in Seq(Issue)
           /\ Len(issues') = Len(issues) + 1
           /\ DOMAIN issues' = DOMAIN issues \cup {Len(issues) + 1}
           /\ issues'[Len(issues) + 1] = e
           /\ \A j \in DOMAIN issues : issues'[j] = issues[j]
  BY AppendProperties

\* What every step leaves of the two services: requests keep all but their state
\* and never become active again, issues keep their project and their owner.
RequestsKept ==
    /\ Len(requests) <= Len(requests')
    /\ DOMAIN requests \subseteq DOMAIN requests'
    /\ \A j \in DOMAIN requests :
          /\ requests'[j].cluster = requests[j].cluster
          /\ requests'[j].issue = requests[j].issue
          /\ requests'[j].answered = requests[j].answered /\ requests'[j].own = requests[j].own
          /\ requests'[j].seen = requests[j].seen
          /\ requests'[j].state \in {"Pending", "Approved"} => IsActive(j)

IssuesKept ==
    /\ DOMAIN issues \subseteq DOMAIN issues'
    /\ \A j \in DOMAIN issues : /\ issues'[j].project = issues[j].project
                                /\ issues'[j].owned = issues[j].owned

Kept == RequestsKept /\ IssuesKept /\ isProd' = isProd /\ hasToken' = hasToken

\* The request of a post is typed and comes last.
LEMMA PostedKept ==
    ASSUME TypeOK, CommandInv, NEW p \in People, cmd[p].pc = "post",
           NEW answered \in BOOLEAN, Posted(p, answered)
    PROVE  /\ requests' \in Seq(Request) /\ RequestsKept
           /\ DOMAIN requests' = DOMAIN requests \cup {Len(requests) + 1}
           /\ Len(requests') = Len(requests) + 1
           /\ \A j \in DOMAIN requests : requests'[j] = requests[j]
           /\ LET r == requests'[Len(requests) + 1] IN
              /\ r.cluster = cmd[p].cluster /\ r.issue = cmd[p].issue
              /\ r.answered = answered /\ r.own = (cmd[p].given = "none")
              /\ r.seen = cmd[p].seen
              /\ r.issue \in DOMAIN issues
<1> DEFINE r == [cluster |-> cmd[p].cluster, issue |-> cmd[p].issue,
                 state |-> "Pending", answered |-> answered,
                 own |-> cmd[p].given = "none",
                 seen |-> cmd[p].seen]
<1>1. cmd[p] \in Command /\ CommandOK(cmd[p])
  BY DEF TypeOK, CommandInv
<1>2. r \in Request /\ cmd[p].issue \in DOMAIN issues
  BY <1>1 DEF Command, CommandOK, Writing, Request
<1>3. requests' = Append(requests, r) /\ requests \in Seq(Request)
  BY DEF Posted, TypeOK
<1>4. /\ r.cluster = cmd[p].cluster /\ r.issue = cmd[p].issue
      /\ r.answered = answered /\ r.own = (cmd[p].given = "none")
      /\ r.seen = cmd[p].seen
  OBVIOUS
<1> HIDE DEF r
<1>5. /\ requests' \in Seq(Request)
      /\ Len(requests') = Len(requests) + 1
      /\ DOMAIN requests' = DOMAIN requests \cup {Len(requests) + 1}
      /\ requests'[Len(requests) + 1] = r
      /\ \A j \in DOMAIN requests : requests'[j] = requests[j]
  BY <1>2, <1>3, RequestAdded
<1>6. RequestsKept
  BY <1>3, <1>5 DEF RequestsKept, IsActive
<1> QED
  BY <1>2, <1>4, <1>5, <1>6

\* Changing the status, the description or the mark of an issue.
LEMMA IssueMarked ==
    ASSUME TypeOK, NEW i \in DOMAIN issues,
           NEW s \in {"new", "created", "approved", "error"},
           NEW n \in {0} \cup DOMAIN requests,
           \/ issues' = [issues EXCEPT ![i].status = s]
           \/ issues' = [issues EXCEPT ![i].names = n]
           \/ issues' = [issues EXCEPT ![i].dropped = TRUE]
    PROVE  /\ issues' \in Seq(Issue) /\ IssuesKept
           /\ DOMAIN issues' = DOMAIN issues
           /\ \A j \in DOMAIN issues : issues'[j].names \in {0} \cup DOMAIN requests
           /\ \A j \in DOMAIN issues : j # i => issues'[j] = issues[j]
           /\ issues'[i].status \in {s, issues[i].status}
<1>1. issues \in Seq(Issue) /\ issues[i] \in Issue
  BY DEF TypeOK
<1>2. n \in Nat
  BY DEF TypeOK
<1>3. PICK e \in {[issues[i] EXCEPT !.status = s], [issues[i] EXCEPT !.names = n],
                  [issues[i] EXCEPT !.dropped = TRUE]} :
        issues' = [issues EXCEPT ![i] = e]
  OBVIOUS
<1>4. /\ e \in Issue
      /\ e.project = issues[i].project /\ e.owned = issues[i].owned
      /\ e.status \in {s, issues[i].status}
      /\ e.names \in {n, issues[i].names}
  BY <1>1, <1>2, <1>3 DEF Issue
<1>5. /\ issues' \in Seq(Issue) /\ DOMAIN issues' = DOMAIN issues
      /\ issues'[i] = e
      /\ \A j \in DOMAIN issues : j # i => issues'[j] = issues[j]
  BY <1>1, <1>3, <1>4, IssueChanged
<1> QED
  BY <1>4, <1>5 DEF IssuesKept, TypeOK

-----------------------------------------------------------------------------
(* Types, and what a step keeps *)

\* A step that changes nothing but commands.
LEMMA OnlyCommands ==
    ASSUME TypeOK, UNCHANGED <<isProd, hasToken, requests, issues>>
    PROVE  /\ Kept
           /\ requests' \in Seq(Request) /\ issues' \in Seq(Issue)
           /\ isProd' \in BOOLEAN /\ hasToken' \in BOOLEAN
           /\ \A i \in DOMAIN requests' : requests'[i].issue \in DOMAIN issues'
           /\ \A i \in DOMAIN issues' :
                 issues'[i].names \in {0} \cup DOMAIN requests'
<1>1. requests \in Seq(Request) /\ issues \in Seq(Issue)
  BY DEF TypeOK
<1> QED
  BY <1>1 DEF TypeOK, Kept, RequestsKept, IssuesKept, IsActive

\* Commands stay commands.
LEMMA CommandTyped ==
    ASSUME TypeOK, CommandInv, [Next]_vars
    PROVE  cmd' \in [People -> Command] /\ left' \in 0..MaxCommands
<1> USE DEF TypeOK
<1>1. Idle \in Command
  BY DEF Idle, Command
<1>2. ASSUME NEW c \in Clusters
      PROVE  /\ \A given \in {"none", "key", "url"}, i \in DOMAIN issues :
                   [Idle EXCEPT !.pc = "check", !.cluster = c, !.given = given,
                                !.issue = IF given = "none" THEN 0 ELSE i] \in Command
             /\ [Idle EXCEPT !.pc = "find", !.cluster = c] \in Command
  <2>1. ASSUME NEW given \in {"none", "key", "url"}, NEW i \in DOMAIN issues
        PROVE  (IF given = "none" THEN 0 ELSE i) \in Nat
    OBVIOUS
  <2>2. ASSUME NEW n \in Nat, NEW given \in {"none", "key", "url"}
        PROVE  [Idle EXCEPT !.pc = "check", !.cluster = c, !.given = given,
                            !.issue = n] \in Command
    BY DEF Idle, Command
  <2>3. [Idle EXCEPT !.pc = "find", !.cluster = c] \in Command
    BY DEF Idle, Command
  <2> QED
    BY <2>1, <2>2, <2>3
<1>3. ASSUME NEW p \in People, NEW c \in Command, Begin(p, c)
      PROVE  cmd' \in [People -> Command] /\ left' \in 0..MaxCommands
  BY <1>3, AccessRequestAssumption DEF Begin
<1>4. ASSUME NEW p \in People,
             CheckActive(p) \/ GiveReason(p) \/ VerifyIssue(p) \/ FindActive(p)
             \/ Decide(p) \/ Fail(p) \/ Interrupt(p) \/ Post(p)
             \/ \E b \in BOOLEAN : MakeIssue(p, b) \/ PostFails(p, b)
                                   \/ UpdateIssue(p, b) \/ Transition(p, b)
      PROVE  cmd' \in [People -> Command]
  <2> DEFINE Typed == cmd' \in [People -> Command]
  <2>1. cmd[p] \in Command /\ cmd \in [People -> Command]
    OBVIOUS
  <2>2. Len(requests) \in Nat /\ DOMAIN requests \subseteq Nat
    OBVIOUS
  <2>3. ASSUME NEW c \in Command, cmd' = [cmd EXCEPT ![p] = c]
        PROVE  Typed
    BY <2>1, <2>3
  <2>4. ASSUME NEW pc \in {"idle", "check", "reason", "issue", "post", "update",
                           "transition", "onerror", "find", "decide"},
               NEW r \in BOOLEAN, NEW n \in Nat
        PROVE  /\ [cmd[p] EXCEPT !.pc = pc] \in Command
               /\ [cmd[p] EXCEPT !.pc = pc, !.seen = n] \in Command
               /\ [cmd[p] EXCEPT !.pc = pc, !.req = n] \in Command
               /\ [cmd[p] EXCEPT !.pc = pc, !.retrieved = r] \in Command
               /\ [cmd[p] EXCEPT !.pc = pc, !.retrieved = r, !.issue = n] \in Command
    BY <2>1 DEF Command
  <2>5. CASE CheckActive(p)
    <3>1. cmd' \in {[cmd EXCEPT ![p] = [cmd[p] EXCEPT !.pc = "reason",
                                                      !.seen = Len(requests)]],
                    [cmd EXCEPT ![p] = Idle]}
      BY <2>1, <2>5 DEF CheckActive
    <3> QED
      BY <1>1, <2>2, <2>3, <2>4, <3>1
  <2>6. CASE GiveReason(p) \/ VerifyIssue(p)
    <3>1. \E pc \in {"issue", "post"}, r \in BOOLEAN :
             cmd' \in {[cmd EXCEPT ![p] = [cmd[p] EXCEPT !.pc = pc]],
                       [cmd EXCEPT ![p] = [cmd[p] EXCEPT !.pc = pc, !.retrieved = r]]}
      BY <2>1, <2>6 DEF GiveReason, VerifyIssue
    <3> QED
      BY <2>3, <2>4, <3>1
  <2>7. CASE FindActive(p)
    <3>1. PICK i \in DOMAIN requests :
             cmd' = [cmd EXCEPT ![p] = [cmd[p] EXCEPT !.pc = "decide", !.req = i]]
      BY <2>1, <2>7 DEF FindActive, ActiveOf
    <3>2. i \in Nat
      BY <2>2
    <3> QED
      BY <2>3, <2>4, <3>1, <3>2
  <2>8. CASE Decide(p) \/ Fail(p) \/ Interrupt(p)
    BY <1>1, <2>3, <2>8 DEF Decide, Fail, Interrupt
  <2>9. CASE Post(p)
    <3>1. Len(requests') \in Nat
      BY <2>9, PostedKept DEF Post
    <3>2. cmd' \in {[cmd EXCEPT ![p] = [cmd[p] EXCEPT !.pc = "update",
                                                      !.req = Len(requests')]],
                    [cmd EXCEPT ![p] = Idle]}
      BY <2>1, <2>9 DEF Post
    <3> QED
      BY <1>1, <2>3, <2>4, <3>1, <3>2
  <2>10. ASSUME NEW b \in BOOLEAN, MakeIssue(p, b)
         PROVE  Typed
    <3>1. [NewIssue(EnvProject, TRUE) EXCEPT !.dropped = b] \in Issue
      BY DEF NewIssue, EnvProject, Issue, Projects
    <3>2. Len(issues') \in Nat
      BY <2>10, <3>1, IssueAdded DEF MakeIssue
    <3>3. cmd' \in {[cmd EXCEPT ![p] = [cmd[p] EXCEPT !.pc = "post",
                                                      !.retrieved = TRUE,
                                                      !.issue = Len(issues')]],
                    [cmd EXCEPT ![p] = Idle]}
      BY <2>1, <2>10 DEF MakeIssue
    <3> QED
      BY <1>1, <2>3, <2>4, <3>2, <3>3
  <2>11. ASSUME NEW b \in BOOLEAN, PostFails(p, b)
         PROVE  Typed
    <3>1. cmd' \in {[cmd EXCEPT ![p] = [cmd[p] EXCEPT !.pc = "onerror"]],
                    [cmd EXCEPT ![p] = Idle]}
      BY <2>1, <2>11 DEF PostFails
    <3> QED
      BY <1>1, <2>3, <2>4, <3>1
  <2>12. ASSUME NEW b \in BOOLEAN, UpdateIssue(p, b)
         PROVE  Typed
    BY <2>1, <2>12 DEF UpdateIssue, Command
  <2>13. ASSUME NEW b \in BOOLEAN, Transition(p, b)
         PROVE  Typed
    BY <1>1, <2>3, <2>13 DEF Transition
  <2> QED
    BY <1>4, <2>5, <2>6, <2>7, <2>8, <2>9, <2>10, <2>11, <2>12, <2>13
<1>5. ASSUME NEW p \in People,
             CheckActive(p) \/ GiveReason(p) \/ VerifyIssue(p) \/ FindActive(p)
             \/ Decide(p) \/ Fail(p) \/ Interrupt(p) \/ Post(p)
             \/ \E b \in BOOLEAN : MakeIssue(p, b) \/ PostFails(p, b)
                                   \/ UpdateIssue(p, b) \/ Transition(p, b)
      PROVE  left' = left
  BY <1>5 DEF CheckActive, GiveReason, VerifyIssue, FindActive, Decide, Fail,
       Interrupt, Post, MakeIssue, PostFails, UpdateIssue, Transition
<1>6. ASSUME NEW i \in DOMAIN requests, Approve(i) \/ EndRequest(i)
      PROVE  cmd' = cmd /\ left' = left
  BY <1>6 DEF Approve, EndRequest
<1>7. CASE UNCHANGED vars
  BY <1>7 DEF vars
<1>8. ASSUME NEW p \in People, NEW c \in Clusters,
             \/ \E given \in {"none", "key", "url"}, i \in DOMAIN issues :
                   Create(p, c, given, i)
             \/ Expire(p, c)
      PROVE  cmd' \in [People -> Command] /\ left' \in 0..MaxCommands
  BY <1>2, <1>3, <1>8 DEF Create, Expire
<1> QED
  BY <1>4, <1>5, <1>6, <1>7, <1>8 DEF Next

\* The services stay typed, and keep what they should.
LEMMA ServicesTyped ==
    ASSUME TypeOK, CommandInv, [Next]_vars
    PROVE  /\ Kept
           /\ requests' \in Seq(Request) /\ issues' \in Seq(Issue)
           /\ isProd' \in BOOLEAN /\ hasToken' \in BOOLEAN
           /\ \A i \in DOMAIN requests' : requests'[i].issue \in DOMAIN issues'
           /\ \A i \in DOMAIN issues' :
                 issues'[i].names \in {0} \cup DOMAIN requests'
<1> DEFINE Goal == /\ Kept
                   /\ requests' \in Seq(Request) /\ issues' \in Seq(Issue)
                   /\ isProd' \in BOOLEAN /\ hasToken' \in BOOLEAN
                   /\ \A i \in DOMAIN requests' :
                         requests'[i].issue \in DOMAIN issues'
                   /\ \A i \in DOMAIN issues' :
                         issues'[i].names \in {0} \cup DOMAIN requests'
<1>1. CASE UNCHANGED <<isProd, hasToken, requests, issues>>
  BY <1>1, OnlyCommands
<1>2. ASSUME NEW p \in People, NEW answered \in BOOLEAN,
             Posted(p, answered), cmd[p].pc = "post",
             UNCHANGED <<isProd, hasToken, issues>>
      PROVE  Goal
  BY <1>2, PostedKept DEF TypeOK, Kept, IssuesKept
<1>3. ASSUME NEW i \in DOMAIN issues,
             NEW s \in {"new", "created", "approved", "error"},
             NEW n \in {0} \cup DOMAIN requests,
             \/ issues' = [issues EXCEPT ![i].status = s]
             \/ issues' = [issues EXCEPT ![i].names = n]
             \/ issues' = [issues EXCEPT ![i].dropped = TRUE],
             UNCHANGED <<isProd, hasToken, requests>>
      PROVE  Goal
  <2>1. /\ issues' \in Seq(Issue) /\ IssuesKept
        /\ DOMAIN issues' = DOMAIN issues
        /\ \A j \in DOMAIN issues : issues'[j].names \in {0} \cup DOMAIN requests
    BY <1>3, IssueMarked
  <2>2. RequestsKept
    BY <1>3 DEF TypeOK, RequestsKept, IsActive
  <2> QED
    BY <1>3, <2>1, <2>2 DEF TypeOK, Kept
<1>4. ASSUME NEW i \in DOMAIN requests, NEW state \in {"Approved", "Ended"},
             requests' = [requests EXCEPT ![i].state = state],
             IsActive(i)
      PROVE  /\ requests' \in Seq(Request) /\ RequestsKept
             /\ DOMAIN requests' = DOMAIN requests
  <2>1. requests \in Seq(Request) /\ state \in {"Pending", "Approved", "Ended"}
    BY DEF TypeOK
  <2>2. /\ requests' \in Seq(Request) /\ Len(requests') = Len(requests)
        /\ DOMAIN requests' = DOMAIN requests
        /\ \A j \in DOMAIN requests :
              /\ requests'[j].cluster = requests[j].cluster
              /\ requests'[j].issue = requests[j].issue
              /\ requests'[j].answered = requests[j].answered /\ requests'[j].own = requests[j].own
              /\ requests'[j].seen = requests[j].seen
              /\ j # i => requests'[j].state = requests[j].state
    BY <1>4, <2>1, StateChanged
  <2> QED
    BY <1>4, <2>1, <2>2 DEF RequestsKept, IsActive
<1>5. ASSUME NEW p \in People,
             \E b \in BOOLEAN : PostFails(p, b) \/ UpdateIssue(p, b)
                                \/ Transition(p, b)
      PROVE  Goal
  <2>1. cmd[p].pc = "post" \/ cmd[p].issue \in DOMAIN issues
    BY <1>5 DEF PostFails, UpdateIssue, Transition, CommandInv, CommandOK, Writing
  <2>2. ASSUME NEW b \in BOOLEAN, PostFails(p, b)
        PROVE  Goal
    BY <1>1, <1>2, <2>2 DEF PostFails
  <2>3. ASSUME NEW b \in BOOLEAN, UpdateIssue(p, b)
        PROVE  Goal
    <3>1. cmd[p].issue \in DOMAIN issues /\ cmd[p].req \in DOMAIN requests
      BY <2>1, <2>3 DEF UpdateIssue, CommandInv, CommandOK
    <3> QED
      BY <1>3, <2>3, <3>1 DEF UpdateIssue
  <2>4. ASSUME NEW b \in BOOLEAN, Transition(p, b)
        PROVE  Goal
    BY <1>1, <1>3, <2>1, <2>4 DEF Transition
  <2> QED
    BY <1>5, <2>2, <2>3, <2>4
<1>6. ASSUME NEW p \in People, NEW lost \in BOOLEAN, MakeIssue(p, lost)
      PROVE  Goal
  <2> DEFINE e == [NewIssue(EnvProject, TRUE) EXCEPT !.dropped = lost]
  <2>1. e \in Issue /\ e.names = 0
    BY DEF NewIssue, EnvProject, Issue, Projects
  <2> HIDE DEF e
  <2>2. /\ issues' \in Seq(Issue)
        /\ DOMAIN issues' = DOMAIN issues \cup {Len(issues) + 1}
        /\ issues'[Len(issues) + 1] = e
        /\ \A j \in DOMAIN issues : issues'[j] = issues[j]
    BY <1>6, <2>1, IssueAdded DEF MakeIssue, TypeOK, e
  <2>3. RequestsKept
    BY <1>6 DEF MakeIssue, TypeOK, RequestsKept, IsActive
  <2> QED
    BY <1>6, <2>1, <2>2, <2>3 DEF MakeIssue, TypeOK, Kept, IssuesKept
<1>7. ASSUME NEW p \in People, Decide(p)
      PROVE  Goal
  <2>1. cmd[p].req \in DOMAIN requests
    BY <1>7 DEF Decide, CommandInv, CommandOK
  <2>2. CASE ~IsActive(cmd[p].req)
    BY <1>1, <1>7, <2>2 DEF Decide
  <2>3. CASE IsActive(cmd[p].req)
    <3>1. /\ requests' \in Seq(Request) /\ RequestsKept
          /\ DOMAIN requests' = DOMAIN requests
      BY <1>4, <1>7, <2>1, <2>3 DEF Decide
    <3> QED
      BY <1>7, <3>1 DEF Decide, TypeOK, Kept, RequestsKept, IssuesKept
  <2> QED
    BY <2>2, <2>3
<1>8. ASSUME NEW i \in DOMAIN requests, EndRequest(i)
      PROVE  Goal
  <2>1. /\ requests' \in Seq(Request) /\ RequestsKept
        /\ DOMAIN requests' = DOMAIN requests
    BY <1>4, <1>8 DEF EndRequest
  <2> QED
    BY <1>8, <2>1 DEF EndRequest, TypeOK, Kept, RequestsKept, IssuesKept
<1>9. ASSUME NEW i \in DOMAIN requests, Approve(i)
      PROVE  Goal
  <2>1. /\ requests' \in Seq(Request) /\ RequestsKept
        /\ DOMAIN requests' = DOMAIN requests
    BY <1>4, <1>9 DEF Approve, IsActive
  <2>2. requests[i].issue \in DOMAIN issues
    BY DEF TypeOK
  <2>3. /\ issues' \in Seq(Issue) /\ IssuesKept
        /\ DOMAIN issues' = DOMAIN issues
        /\ \A j \in DOMAIN issues : issues'[j].names \in {0} \cup DOMAIN requests
    <3>1. CASE UNCHANGED issues
      BY <3>1 DEF TypeOK, IssuesKept
    <3>2. CASE issues' = [issues EXCEPT ![requests[i].issue].status = "approved"]
      BY <2>2, <3>2, IssueMarked
    <3> QED
      BY <1>9, <3>1, <3>2 DEF Approve
  <2> QED
    BY <1>9, <2>1, <2>3 DEF Approve, TypeOK, Kept, RequestsKept
<1>10. ASSUME NEW p \in People, Post(p)
       PROVE  Goal
  BY <1>2, <1>10 DEF Post
<1>11. ASSUME NEW p \in People, Interrupt(p)
       PROVE  Goal
  <2>1. cmd[p].issue \in DOMAIN issues
    BY <1>11 DEF Interrupt, CommandInv, CommandOK, Writing
  <2> QED
    BY <1>3, <1>11, <2>1 DEF Interrupt
<1> HIDE DEF Goal
<1>12. ASSUME NEW p \in People,
              \/ \E c : Begin(p, c)
              \/ CheckActive(p) \/ GiveReason(p) \/ VerifyIssue(p)
              \/ FindActive(p) \/ Fail(p)
       PROVE  Goal
  BY <1>1, <1>12 DEF Goal, Begin, CheckActive, GiveReason, VerifyIssue,
       FindActive, Fail
<1>13. CASE UNCHANGED vars
  BY <1>1, <1>13 DEF Goal, vars
<1>14. ASSUME NEW i \in DOMAIN requests, Approve(i) \/ EndRequest(i)
       PROVE  Goal
  BY <1>8, <1>9, <1>14
<1>15. ASSUME NEW p \in People,
              \/ \E c \in Clusters :
                   \/ \E given \in {"none", "key", "url"}, i \in DOMAIN issues :
                         Create(p, c, given, i)
                   \/ Expire(p, c)
       PROVE  Goal
  BY <1>12, <1>15 DEF Create, Expire
<1>16. ASSUME NEW p \in People,
              \E refused \in BOOLEAN :
                   \/ MakeIssue(p, refused) \/ PostFails(p, refused)
                   \/ UpdateIssue(p, refused) \/ Transition(p, refused)
       PROVE  Goal
  BY <1>5, <1>6, <1>16
<1>17. ASSUME NEW p \in People,
              \/ CheckActive(p) \/ GiveReason(p) \/ VerifyIssue(p) \/ Post(p)
              \/ FindActive(p) \/ Decide(p) \/ Fail(p) \/ Interrupt(p)
       PROVE  Goal
  BY <1>7, <1>10, <1>11, <1>12, <1>17
<1>18. ASSUME Next
       PROVE  Goal
  BY <1>14, <1>15, <1>16, <1>17, <1>18 DEF Next
<1> QED
  BY <1>13, <1>18 DEF Goal

\* Every step keeps the types.
LEMMA NextTyped ==
    ASSUME TypeOK, CommandInv, [Next]_vars
    PROVE  TypeOK'
  BY CommandTyped, ServicesTyped DEF TypeOK

-----------------------------------------------------------------------------
(* What a step does to the commands *)

\* What person p's command may do next.
Step(p) ==
    \/ \E c \in Clusters :
         \/ \E given \in {"none", "key", "url"}, i \in DOMAIN issues :
               Create(p, c, given, i)
         \/ Expire(p, c)
    \/ \E refused \in BOOLEAN :
         \/ MakeIssue(p, refused) \/ PostFails(p, refused)
         \/ UpdateIssue(p, refused) \/ Transition(p, refused)
    \/ CheckActive(p) \/ GiveReason(p) \/ VerifyIssue(p) \/ Post(p)
    \/ FindActive(p) \/ Decide(p) \/ Fail(p) \/ Interrupt(p)

\* A step is a person's, or leaves the commands alone.
LEMMA NextIsStep ==
    ASSUME [Next]_vars
    PROVE  (\E p \in People : Step(p)) \/ cmd' = cmd
  BY DEF Next, Step, vars, Approve, EndRequest

\* A person's step leaves the commands of the others alone.
LEMMA OthersKept ==
    ASSUME TypeOK, NEW p \in People, Step(p), NEW q \in People, q # p
    PROVE  cmd'[q] = cmd[q]
<1>1. DOMAIN cmd = People
  BY DEF TypeOK
<1>2. CASE \E c : Begin(p, c)
  BY <1>1, <1>2 DEF Begin
<1>3. CASE CheckActive(p) \/ GiveReason(p) \/ VerifyIssue(p) \/ Post(p)
           \/ FindActive(p) \/ Decide(p) \/ Fail(p) \/ Interrupt(p)
  BY <1>1, <1>3 DEF CheckActive, GiveReason, VerifyIssue, Post, FindActive,
       Decide, Fail, Interrupt
<1>4. CASE \E b \in BOOLEAN : MakeIssue(p, b) \/ PostFails(p, b)
                              \/ UpdateIssue(p, b) \/ Transition(p, b)
  BY <1>1, <1>4 DEF MakeIssue, PostFails, UpdateIssue, Transition
<1> QED
  BY <1>2, <1>3, <1>4 DEF Step, Create, Expire

\* The project's issue is added, as the command's own.
IssueMade ==
    \E e \in Issue : /\ e.project = EnvProject /\ e.owned /\ e.status = "new"
                     /\ issues' = Append(issues, e)

\* What a person's command has become: at rest, begun, or one step further, with
\* what it needs at hand.
LEMMA Stepped ==
    ASSUME TypeOK, CommandInv, NEW p \in People, Step(p)
    PROVE  LET c == cmd[p]  d == cmd'[p] IN
           \/ d.pc = "idle"
           \/ /\ d.pc \in {"check", "find"} /\ d.cluster \in Clusters
              /\ d.given # "none" => d.issue \in DOMAIN issues
           \/ /\ c.pc # "idle" /\ d.cluster = c.cluster /\ d.given = c.given
              /\ \/ /\ c.pc = "check" /\ d.pc = "reason" /\ d.issue = c.issue
                    /\ d.seen = Len(requests) /\ ActiveOf(c.cluster) = {}
                    /\ requests' = requests
                 \/ /\ c.pc = "reason" /\ d.pc = "issue" /\ d.issue = c.issue
                    /\ d.seen = c.seen
                 \/ /\ c.pc = "issue" /\ d.pc = "post" /\ d.seen = c.seen
                    /\ \/ /\ c.given = "none" /\ d.issue = Len(issues) + 1
                          /\ IssueMade
                       \/ /\ c.given # "none" /\ d.issue = c.issue
                          /\ issues[c.issue].project = EnvProject
                 \/ /\ c.pc = "post" /\ d.pc = "update" /\ d.issue = c.issue
                    /\ d.req = Len(requests')
                    /\ Posted(p, TRUE)
                 \/ /\ c.pc = "post" /\ d.pc = "onerror" /\ d.issue = c.issue
                    /\ c.given = "none"
                 \/ /\ c.pc = "update" /\ d.pc = "transition" /\ d.issue = c.issue
                 \/ /\ c.pc = "find" /\ d.pc = "decide"
                    /\ d.req \in DOMAIN requests
<1>1. DOMAIN cmd = People /\ cmd[p] \in Command
  BY DEF TypeOK
<1>2. Idle.pc = "idle"
  BY DEF Idle
<1>3. CASE \E c \in Clusters :
             \/ \E given \in {"none", "key", "url"}, i \in DOMAIN issues :
                   Create(p, c, given, i)
             \/ Expire(p, c)
  <2>1. PICK c \in Clusters :
             \/ \E given \in {"none", "key", "url"}, i \in DOMAIN issues :
                   Create(p, c, given, i)
             \/ Expire(p, c)
    BY <1>3
  <2>2. CASE Expire(p, c)
    BY <1>1, <2>2 DEF Expire, Begin, Idle
  <2>3. ASSUME NEW given \in {"none", "key", "url"}, NEW i \in DOMAIN issues,
               Create(p, c, given, i)
        PROVE  /\ cmd'[p].pc = "check" /\ cmd'[p].cluster \in Clusters
               /\ cmd'[p].given # "none" => cmd'[p].issue \in DOMAIN issues
    BY <1>1, <2>3 DEF Create, Begin, Idle
  <2> QED
    BY <2>1, <2>2, <2>3
<1>4. CASE CheckActive(p)
  <2>1. CASE cmd'[p] = Idle
    BY <1>2, <2>1
  <2>2. CASE cmd'[p] # Idle
    <3>1. /\ cmd[p].pc = "check" /\ requests' = requests
          /\ ActiveOf(cmd[p].cluster) = {}
          /\ cmd' = [cmd EXCEPT ![p] = [cmd[p] EXCEPT !.pc = "reason",
                                                      !.seen = Len(requests)]]
      BY <1>1, <1>4, <2>2 DEF CheckActive
    <3>2. cmd'[p] = [cmd[p] EXCEPT !.pc = "reason", !.seen = Len(requests)]
      BY <1>1, <3>1
    <3> QED
      BY <1>1, <3>1, <3>2 DEF Command
  <2> QED
    BY <2>1, <2>2
<1>5. CASE GiveReason(p) \/ VerifyIssue(p)
  <2>1. CASE GiveReason(p)
    <3>1. cmd[p].pc = "reason" /\ cmd'[p] = [cmd[p] EXCEPT !.pc = "issue"]
      BY <1>1, <2>1 DEF GiveReason
    <3> QED
      BY <1>1, <3>1 DEF Command
  <2>2. CASE VerifyIssue(p)
    <3>1. /\ cmd[p].pc = "issue" /\ cmd[p].given # "none"
          /\ issues[cmd[p].issue].project = EnvProject
          /\ cmd'[p] = [cmd[p] EXCEPT !.pc = "post", !.retrieved = hasToken]
      BY <1>1, <2>2 DEF VerifyIssue
    <3> QED
      BY <1>1, <3>1 DEF Command
  <2> QED
    BY <1>5, <2>1, <2>2
<1>6. CASE Post(p)
  BY <1>1, <1>2, <1>6 DEF Post, Command
<1>7. CASE FindActive(p)
  <2>1. PICK i \in DOMAIN requests :
           cmd' = [cmd EXCEPT ![p] = [cmd[p] EXCEPT !.pc = "decide", !.req = i]]
    BY <1>1, <1>7 DEF FindActive, ActiveOf
  <2>2. cmd'[p] = [cmd[p] EXCEPT !.pc = "decide", !.req = i]
    BY <1>1, <2>1
  <2> QED
    BY <1>1, <1>7, <2>2 DEF FindActive, Command
<1>8. CASE Decide(p) \/ Fail(p) \/ Interrupt(p)
  BY <1>1, <1>2, <1>8 DEF Decide, Fail, Interrupt
<1>9. ASSUME NEW b \in BOOLEAN, MakeIssue(p, b)
      PROVE  \/ cmd'[p].pc = "idle"
             \/ /\ cmd[p].pc = "issue" /\ cmd[p].given = "none"
                /\ cmd'[p].pc = "post" /\ cmd'[p].cluster = cmd[p].cluster
                /\ cmd'[p].given = cmd[p].given /\ cmd'[p].seen = cmd[p].seen
                /\ cmd'[p].issue = Len(issues) + 1
                /\ IssueMade
  <2> DEFINE e == [NewIssue(EnvProject, TRUE) EXCEPT !.dropped = b]
  <2>1. e \in Issue /\ e.project = EnvProject /\ e.owned /\ e.status = "new"
    BY DEF NewIssue, EnvProject, Issue, Projects
  <2>2. cmd[p].pc = "issue" /\ cmd[p].given = "none" /\ issues' = Append(issues, e)
    BY <1>9 DEF MakeIssue
  <2> HIDE DEF e
  <2>3. Len(issues') = Len(issues) + 1 /\ IssueMade
    BY <2>1, <2>2, IssueAdded DEF TypeOK, IssueMade
  <2>4. CASE b = TRUE
    BY <1>1, <1>2, <1>9, <2>4 DEF MakeIssue
  <2>5. CASE b = FALSE
    <3>1. cmd' = [cmd EXCEPT ![p] = [cmd[p] EXCEPT !.pc = "post",
                                !.retrieved = TRUE, !.issue = Len(issues')]]
      BY <1>1, <1>9, <2>5 DEF MakeIssue
    <3>2. cmd'[p] = [cmd[p] EXCEPT !.pc = "post", !.retrieved = TRUE,
                                   !.issue = Len(issues')]
      BY <1>1, <3>1
    <3>3. /\ cmd'[p].pc = "post" /\ cmd'[p].cluster = cmd[p].cluster
          /\ cmd'[p].given = cmd[p].given /\ cmd'[p].seen = cmd[p].seen
          /\ cmd'[p].issue = Len(issues')
      BY <1>1, <3>2 DEF Command
    <3> QED
      BY <2>2, <2>3, <3>3
  <2> QED
    BY <2>4, <2>5
<1>10. ASSUME NEW b \in BOOLEAN, PostFails(p, b) \/ Transition(p, b)
       PROVE  \/ cmd'[p].pc = "idle"
              \/ /\ cmd[p].pc = "post" /\ cmd'[p] = [cmd[p] EXCEPT !.pc = "onerror"]
                 /\ cmd[p].given = "none"
  BY <1>1, <1>2, <1>10 DEF PostFails, Transition
<1>11. ASSUME NEW b \in BOOLEAN, UpdateIssue(p, b)
       PROVE  /\ cmd[p].pc = "update"
              /\ cmd'[p] = [cmd[p] EXCEPT !.pc = "transition"]
  BY <1>1, <1>11 DEF UpdateIssue
<1>12. CASE \E b \in BOOLEAN : MakeIssue(p, b) \/ PostFails(p, b)
                               \/ UpdateIssue(p, b) \/ Transition(p, b)
  BY <1>1, <1>9, <1>10, <1>11, <1>12 DEF Command
<1> QED
  BY <1>3, <1>4, <1>5, <1>6, <1>7, <1>8, <1>12 DEF Step

\* A command always has at hand what its next request needs.
LEMMA NextCommand ==
    ASSUME TypeOK, CommandInv, [Next]_vars
    PROVE  CommandInv'
<1>1. TypeOK' /\ Kept
  BY NextTyped, ServicesTyped
<1>2. DOMAIN issues \subseteq DOMAIN issues'
  BY <1>1 DEF Kept, IssuesKept
<1>3. EnvProject' = EnvProject
  BY <1>1 DEF Kept, EnvProject
<1>4. ASSUME NEW q \in People, cmd'[q] = cmd[q]
      PROVE  CommandOK(cmd[q])'
  BY <1>1, <1>3, <1>4
  DEF CommandInv, CommandOK, Writing, Kept, IssuesKept, RequestsKept
<1>5. ASSUME NEW p \in People, Step(p)
      PROVE  CommandOK(cmd[p])'
  <2> DEFINE c == cmd[p]
             d == cmd'[p]
  <2>1. CommandOK(c)
    BY DEF CommandInv
  <2>2. CASE d.pc = "idle"
    BY <2>2 DEF CommandOK, Writing
  <2>3. CASE /\ d.pc \in {"check", "find"} /\ d.cluster \in Clusters
             /\ d.given # "none" => d.issue \in DOMAIN issues
    BY <1>2, <2>3 DEF CommandOK, Writing
  <2>4. CASE /\ c.pc = "issue" /\ d.pc = "post" /\ d.cluster = c.cluster
             /\ d.given = c.given
             /\ \/ /\ c.given = "none" /\ d.issue = Len(issues) + 1
                   /\ IssueMade
                \/ /\ c.given # "none" /\ d.issue = c.issue
                   /\ issues[c.issue].project = EnvProject
    <3>1. CASE c.given = "none"
      <4>1. PICK e \in Issue : /\ e.project = EnvProject /\ e.owned
                               /\ issues' = Append(issues, e)
        BY <2>4, <3>1 DEF IssueMade
      <4>2. d.issue \in DOMAIN issues' /\ issues'[d.issue] = e
        BY <2>4, <3>1, <4>1, IssueAdded DEF TypeOK
      <4> QED
        BY <1>3, <2>1, <2>4, <3>1, <4>1, <4>2 DEF CommandOK, Writing
    <3>2. CASE c.given # "none"
      <4>1. d.issue = c.issue /\ c.issue \in DOMAIN issues
        BY <2>1, <2>4, <3>2 DEF CommandOK
      <4>2. /\ d.issue \in DOMAIN issues'
            /\ issues'[d.issue].project = EnvProject
        BY <1>1, <2>4, <3>2, <4>1 DEF Kept, IssuesKept
      <4> QED
        BY <1>3, <2>1, <2>4, <3>2, <4>2 DEF CommandOK, Writing
    <3> QED
      BY <3>1, <3>2
  <2>5. CASE /\ d.cluster = c.cluster /\ d.given = c.given /\ d.issue = c.issue
             /\ \/ c.pc = "check" /\ d.pc = "reason"
                \/ c.pc = "reason" /\ d.pc = "issue"
    BY <1>2, <2>1, <2>5 DEF CommandOK, Writing
  <2>6. CASE /\ d.cluster = c.cluster /\ d.given = c.given /\ d.issue = c.issue
             /\ \/ /\ c.pc = "post" /\ d.pc = "update"
                   /\ d.req = Len(requests') /\ Posted(p, TRUE)
                \/ c.pc = "post" /\ d.pc = "onerror" /\ c.given = "none"
                \/ c.pc = "update" /\ d.pc = "transition"
    <3>1. /\ d.issue \in DOMAIN issues'
          /\ issues'[d.issue].project = EnvProject
          /\ d.given = "none" => issues'[d.issue].owned
      BY <1>1, <2>1, <2>6 DEF CommandOK, Writing, Kept, IssuesKept
    <3>2. d.pc = "update" => d.req \in DOMAIN requests'
      BY <2>6, PostedKept
    <3> QED
      BY <1>3, <2>1, <2>6, <3>1, <3>2 DEF CommandOK, Writing
  <2>7. CASE /\ c.pc = "find" /\ d.pc = "decide" /\ d.cluster = c.cluster
             /\ d.req \in DOMAIN requests
    BY <1>1, <2>1, <2>7 DEF CommandOK, Writing, Kept, RequestsKept
  <2> HIDE DEF c, d
  <2> QED
    BY <1>5, <2>2, <2>3, <2>4, <2>5, <2>6, <2>7, Stepped DEF c, d
<1>6. \A q \in People : CommandOK(cmd[q])'
  BY <1>4, <1>5, NextIsStep, OthersKept
<1> QED
  BY <1>6 DEF CommandInv

\* A request that is new after a step was posted by a command.
LEMMA NewRequest ==
    ASSUME TypeOK, CommandInv, [Next]_vars,
           NEW k \in DOMAIN requests', k \notin DOMAIN requests
    PROVE  \E p \in People :
              /\ cmd[p].pc = "post" /\ k = Len(requests) + 1
              /\ requests'[k].cluster = cmd[p].cluster
              /\ requests'[k].issue = cmd[p].issue
              /\ requests'[k].seen = cmd[p].seen
              /\ requests'[k].own = (cmd[p].given = "none")
              /\ cmd'[p].pc # "post"
              /\ cmd'[p].pc = "onerror" => ~requests'[k].answered
              /\ UNCHANGED issues
<1>1. ASSUME NEW p \in People, NEW answered \in BOOLEAN, Posted(p, answered),
             cmd[p].pc = "post"
      PROVE  /\ k = Len(requests) + 1
             /\ requests'[k].cluster = cmd[p].cluster
             /\ requests'[k].issue = cmd[p].issue
             /\ requests'[k].seen = cmd[p].seen
             /\ requests'[k].own = (cmd[p].given = "none")
             /\ requests'[k].answered = answered
  BY <1>1, PostedKept
<1>2. CASE UNCHANGED requests
  BY <1>2
<1>3. ASSUME NEW i \in DOMAIN requests, NEW s \in {"Approved", "Ended"},
             requests' = [requests EXCEPT ![i].state = s]
      PROVE  FALSE
  BY <1>3, StateChanged DEF TypeOK
<1>4. DOMAIN cmd = People /\ Idle.pc = "idle"
  BY DEF TypeOK, Idle
<1>5. ASSUME NEW p \in People, Post(p)
      PROVE  /\ Posted(p, TRUE) /\ cmd[p].pc = "post"
             /\ cmd'[p].pc \in {"update", "idle"} /\ UNCHANGED issues
  BY <1>4, <1>5 DEF Post, TypeOK, Command
<1>6. ASSUME NEW p \in People, NEW lost \in BOOLEAN, PostFails(p, lost)
      PROVE  /\ requests' = requests \/ Posted(p, FALSE)
             /\ cmd[p].pc = "post"
             /\ cmd'[p].pc \in {"onerror", "idle"} /\ UNCHANGED issues
  BY <1>4, <1>6 DEF PostFails, TypeOK, Command
<1>7. ASSUME NEW p \in People, Decide(p)
      PROVE  FALSE
  <2>1. cmd[p].req \in DOMAIN requests
    BY <1>7 DEF Decide, CommandInv, CommandOK
  <2> QED
    BY <1>2, <1>3, <1>7, <2>1 DEF Decide
<1>8. ASSUME NEW i \in DOMAIN requests, Approve(i) \/ EndRequest(i)
      PROVE  FALSE
  BY <1>3, <1>8 DEF Approve, EndRequest
<1>9. ASSUME NEW p \in People, Step(p)
      PROVE  \/ UNCHANGED requests \/ Post(p) \/ Decide(p)
             \/ \E lost \in BOOLEAN : PostFails(p, lost)
  BY <1>9 DEF Step, Create, Expire, Begin, MakeIssue, UpdateIssue, Transition,
       CheckActive, GiveReason, VerifyIssue, FindActive, Fail, Interrupt
<1>10. \/ UNCHANGED requests
       \/ \E p \in People : Step(p)
       \/ \E i \in DOMAIN requests : Approve(i) \/ EndRequest(i)
  BY DEF Next, Step, vars
<1>11. PICK p \in People : \/ Post(p)
                           \/ \E lost \in BOOLEAN : PostFails(p, lost)
  BY <1>2, <1>7, <1>8, <1>9, <1>10
<1>12. CASE Post(p)
  BY <1>1, <1>5, <1>12
<1>13. CASE \E lost \in BOOLEAN : PostFails(p, lost)
  BY <1>1, <1>2, <1>6, <1>13
<1> QED
  BY <1>11, <1>12, <1>13

\* Who moves an issue to another status: a command that ends so, or the customer
\* by approving.
LEMMA StatusChange ==
    ASSUME TypeOK, CommandInv, [Next]_vars,
           NEW j \in DOMAIN issues, issues'[j].status # issues[j].status
    PROVE  \/ \E p \in People :
                /\ cmd[p].pc = "onerror" /\ cmd[p].issue = j
                /\ issues'[j].status = "error" /\ requests' = requests
           \/ \E p \in People :
                /\ cmd[p].pc = "transition" /\ cmd[p].issue = j
                /\ issues'[j].status = "created"
           \/ \E i \in DOMAIN requests :
                /\ requests[i].issue = j /\ issues'[j].status = "approved"
<1>1. CASE UNCHANGED issues
  BY <1>1
<1>2. issues \in Seq(Issue)
  BY DEF TypeOK
<1>3. ASSUME NEW i \in DOMAIN issues, NEW x,
             \/ issues' = [issues EXCEPT ![i].names = x]
             \/ issues' = [issues EXCEPT ![i].dropped = x]
      PROVE  FALSE
  <2>1. CASE i # j
    BY <1>2, <1>3, <2>1
  <2>2. CASE i = j
    <3>1. issues[j] \in Issue
      BY <1>2
    <3>2. \/ issues'[j] = [issues[j] EXCEPT !.names = x]
          \/ issues'[j] = [issues[j] EXCEPT !.dropped = x]
      BY <1>2, <1>3, <2>2
    <3> QED
      BY <3>1, <3>2 DEF Issue
  <2> QED
    BY <2>1, <2>2
<1>4. ASSUME NEW i \in DOMAIN issues, NEW s,
             issues' = [issues EXCEPT ![i].status = s]
      PROVE  i = j /\ issues'[j].status = s
  BY <1>2, <1>4 DEF Issue
<1>5. ASSUME NEW p \in People, NEW b \in BOOLEAN, MakeIssue(p, b)
      PROVE  FALSE
  <2>1. [NewIssue(EnvProject, TRUE) EXCEPT !.dropped = b] \in Issue
    BY DEF NewIssue, EnvProject, Issue, Projects
  <2> QED
    BY <1>2, <1>5, <2>1, IssueAdded DEF MakeIssue
<1>6. ASSUME NEW p \in People, cmd[p].pc \in Writing
      PROVE  cmd[p].issue \in DOMAIN issues
  BY <1>6 DEF CommandInv, CommandOK
<1>7. ASSUME NEW p \in People, NEW b \in BOOLEAN, UpdateIssue(p, b)
      PROVE  FALSE
  BY <1>3, <1>6, <1>7 DEF UpdateIssue, Writing
<1>8. ASSUME NEW p \in People, Interrupt(p)
      PROVE  FALSE
  BY <1>3, <1>6, <1>8 DEF Interrupt, Writing
<1>9. ASSUME NEW p \in People, NEW b \in BOOLEAN, Transition(p, b)
      PROVE  /\ requests' = requests /\ cmd[p].issue = j
             /\ \/ cmd[p].pc = "onerror" /\ issues'[j].status = "error"
                \/ cmd[p].pc = "transition" /\ issues'[j].status = "created"
  <2>1. /\ cmd[p].pc \in {"transition", "onerror"} /\ requests' = requests
        /\ issues' = [issues EXCEPT ![cmd[p].issue].status =
                         IF cmd[p].pc = "onerror" THEN "error" ELSE "created"]
    BY <1>1, <1>3, <1>6, <1>9 DEF Transition, Writing
  <2> QED
    BY <1>4, <1>6, <2>1 DEF Writing
<1>10. ASSUME NEW i \in DOMAIN requests, Approve(i)
       PROVE  requests[i].issue = j /\ issues'[j].status = "approved"
  <2>1. requests[i].issue \in DOMAIN issues
    BY DEF TypeOK
  <2> QED
    BY <1>1, <1>4, <1>10, <2>1 DEF Approve
<1>11. ASSUME NEW p \in People, Step(p)
       PROVE  \E b \in BOOLEAN : Transition(p, b)
  BY <1>1, <1>5, <1>7, <1>8, <1>11
  DEF Step, Create, Expire, Begin, CheckActive, GiveReason, VerifyIssue, Post,
      PostFails, FindActive, Decide, Fail
<1>12. \/ \E p \in People : Step(p)
       \/ \E i \in DOMAIN requests : Approve(i)
  BY <1>1 DEF Next, Step, vars, EndRequest
<1> QED
  BY <1>9, <1>10, <1>11, <1>12

\* An issue that is new after a step is in the first status.
LEMMA NewIssueIsNew ==
    ASSUME TypeOK, CommandInv, [Next]_vars,
           NEW j \in DOMAIN issues', j \notin DOMAIN issues
    PROVE  issues'[j].status = "new" /\ requests' = requests
<1>1. CASE DOMAIN issues' = DOMAIN issues
  BY <1>1
<1>2. ASSUME NEW p \in People, NEW b \in BOOLEAN, MakeIssue(p, b)
      PROVE  issues'[j].status = "new" /\ requests' = requests
  <2> DEFINE e == [NewIssue(EnvProject, TRUE) EXCEPT !.dropped = b]
  <2>1. e \in Issue /\ e.status = "new"
    BY DEF NewIssue, EnvProject, Issue, Projects
  <2>2. issues' = Append(issues, e) /\ requests' = requests
    BY <1>2 DEF MakeIssue
  <2> HIDE DEF e
  <2> QED
    BY <2>1, <2>2, IssueAdded DEF TypeOK
<1>3. ASSUME NEW p \in People, Step(p)
      PROVE  \/ \E b \in BOOLEAN : MakeIssue(p, b)
             \/ DOMAIN issues' = DOMAIN issues
  BY <1>3 DEF Step, Create, Expire, Begin, CheckActive, GiveReason, VerifyIssue,
       Post, PostFails, FindActive, Decide, Fail, Interrupt, UpdateIssue,
       Transition
<1>4. \/ \E p \in People : Step(p)
      \/ DOMAIN issues' = DOMAIN issues
  BY DEF Next, Step, vars, Approve, EndRequest
<1> QED
  BY <1>1, <1>2, <1>3, <1>4

-----------------------------------------------------------------------------
(* Checks before posts *)

\* A check stays good until its command has posted.
LEMMA NextChecked ==
    ASSUME TypeOK, CommandInv, CheckedInv, [Next]_vars
    PROVE  CheckedInv'
<1>1. TypeOK' /\ Kept
  BY NextTyped, ServicesTyped
<1>2. ASSUME NEW n \in Nat, n <= Len(requests), NEW c \in Clusters \cup {None},
             \A i \in DOMAIN requests :
                (IsActive(i) /\ requests[i].cluster = c) => n < i
      PROVE  /\ n <= Len(requests')
             /\ \A i \in DOMAIN requests' :
                   (IsActive(i)' /\ requests'[i].cluster = c) => n < i
  <2>1. n <= Len(requests') /\ Len(requests') \in Nat /\ Len(requests) \in Nat
    BY <1>1, <1>2 DEF TypeOK, Kept, RequestsKept
  <2>2. ASSUME NEW i \in DOMAIN requests', IsActive(i)', requests'[i].cluster = c
        PROVE  n < i
    <3>1. CASE i \in DOMAIN requests
      BY <1>1, <1>2, <2>2, <3>1 DEF Kept, RequestsKept, IsActive
    <3>2. CASE i \notin DOMAIN requests
      <4>1. i = Len(requests) + 1
        BY <3>2, NewRequest
      <4> QED
        BY <1>2, <2>1, <4>1
    <3> QED
      BY <3>1, <3>2
  <2> QED
    BY <2>1, <2>2
<1>3. ASSUME NEW q \in People, NEW d \in Command,
             cmd[q].pc \in {"reason", "issue", "post"},
             d.seen = cmd[q].seen, d.cluster = cmd[q].cluster
      PROVE  Checked(d)'
  <2>1. /\ cmd[q] \in Command
        /\ cmd[q].seen <= Len(requests)
        /\ \A i \in DOMAIN requests :
              (IsActive(i) /\ requests[i].cluster = cmd[q].cluster)
                 => cmd[q].seen < i
    BY <1>3 DEF CheckedInv, Checked, TypeOK
  <2>2. cmd[q].seen \in Nat /\ cmd[q].cluster \in Clusters \cup {None}
    BY <2>1 DEF Command
  <2> QED
    BY <1>2, <1>3, <2>1, <2>2 DEF Checked
<1>4. ASSUME NEW q \in People, cmd'[q] = cmd[q]
      PROVE  Checked(cmd[q])'
  <2>1. cmd[q] \in Command
    BY DEF TypeOK
  <2>2. CASE cmd[q].pc \in {"reason", "issue", "post"}
    BY <1>3, <1>4, <2>1, <2>2 DEF Checked
  <2>3. CASE cmd[q].pc \notin {"reason", "issue", "post"}
    BY <1>4, <2>3 DEF Checked
  <2> QED
    BY <2>2, <2>3
<1>5. ASSUME NEW p \in People, Step(p)
      PROVE  Checked(cmd[p])'
  <2> DEFINE c == cmd[p]
             d == cmd'[p]
  <2>1. c \in Command /\ d \in Command
    BY <1>1 DEF TypeOK
  <2>2. \/ d.pc \notin {"reason", "issue", "post"}
        \/ /\ c.pc \in {"reason", "issue"}
           /\ d.seen = c.seen /\ d.cluster = c.cluster
        \/ /\ d.cluster = c.cluster /\ d.seen = Len(requests)
           /\ ActiveOf(c.cluster) = {} /\ requests' = requests
    BY <1>5, Stepped
  <2>3. CASE d.pc \notin {"reason", "issue", "post"}
    BY <2>3 DEF Checked
  <2>4. CASE /\ c.pc \in {"reason", "issue"}
             /\ d.seen = c.seen /\ d.cluster = c.cluster
    BY <1>3, <2>1, <2>4 DEF Checked
  <2>5. CASE /\ d.cluster = c.cluster /\ d.seen = Len(requests)
             /\ ActiveOf(c.cluster) = {} /\ requests' = requests
    <3>1. Len(requests) \in Nat
      BY DEF TypeOK
    <3>2. d.seen <= Len(requests')
      BY <2>5, <3>1
    <3>3. \A i \in DOMAIN requests :
             ~(IsActive(i) /\ requests[i].cluster = d.cluster)
      BY <2>5 DEF ActiveOf
    <3> QED
      BY <2>5, <3>2, <3>3 DEF Checked, IsActive
  <2> QED
    BY <2>2, <2>3, <2>4, <2>5
<1>6. \A q \in People : Checked(cmd[q])'
  BY <1>4, <1>5, NextIsStep, OthersKept
<1> QED
  BY <1>6 DEF CheckedInv

\* A step makes no second active request for a cluster, but where its command
\* checked before the first was there.
LEMMA NextDuplicates ==
    ASSUME TypeOK, CommandInv, CheckedInv, DuplicatesOnlyByOverlap, [Next]_vars
    PROVE  DuplicatesOnlyByOverlap'
<1>1. TypeOK' /\ Kept
  BY NextTyped, ServicesTyped
<1> SUFFICES ASSUME NEW i \in DOMAIN requests', NEW j \in DOMAIN requests',
                    i < j, IsActive(i)', IsActive(j)',
                    requests'[i].cluster = requests'[j].cluster
             PROVE  requests'[j].seen < i
  BY DEF DuplicatesOnlyByOverlap
<1>2. /\ requests \in Seq(Request) /\ requests' \in Seq(Request)
      /\ Len(requests) \in Nat
  BY <1>1 DEF TypeOK
<1>3. CASE j \in DOMAIN requests
  <2>1. i \in DOMAIN requests
    BY <1>2, <1>3
  <2> QED
    BY <1>1, <1>3, <2>1
    DEF Kept, RequestsKept, IsActive, DuplicatesOnlyByOverlap
<1>4. CASE j \notin DOMAIN requests
  <2>1. PICK p \in People : /\ cmd[p].pc = "post" /\ j = Len(requests) + 1
                            /\ requests'[j].cluster = cmd[p].cluster
                            /\ requests'[j].seen = cmd[p].seen
    BY <1>4, NewRequest
  <2>2. i \in DOMAIN requests
    BY <1>2, <2>1
  <2>3. IsActive(i) /\ requests[i].cluster = cmd[p].cluster
    BY <1>1, <2>1, <2>2 DEF Kept, RequestsKept, IsActive
  <2> QED
    BY <2>1, <2>2, <2>3 DEF CheckedInv, Checked
<1> QED
  BY <1>3, <1>4

\* A new request notifies by an issue of the right project, and no issue changes
\* project.
LEMMA NextProject ==
    ASSUME TypeOK, CommandInv, NotifiesInItsProject, [Next]_vars
    PROVE  NotifiesInItsProject'
<1>1. Kept /\ EnvProject' = EnvProject
  BY ServicesTyped DEF Kept, EnvProject
<1>2. ASSUME NEW i \in DOMAIN requests'
      PROVE  issues'[requests'[i].issue].project = EnvProject
  <2>1. CASE i \in DOMAIN requests
    BY <1>1, <2>1 DEF Kept, RequestsKept, IssuesKept, NotifiesInItsProject, TypeOK
  <2>2. CASE i \notin DOMAIN requests
    <3>1. PICK p \in People : /\ cmd[p].pc = "post"
                              /\ requests'[i].issue = cmd[p].issue
      BY <2>2, NewRequest
    <3>2. /\ cmd[p].issue \in DOMAIN issues
          /\ issues[cmd[p].issue].project = EnvProject
      BY <3>1 DEF CommandInv, CommandOK, Writing
    <3> QED
      BY <1>1, <3>1, <3>2 DEF Kept, IssuesKept
  <2> QED
    BY <2>1, <2>2
<1> QED
  BY <1>1, <1>2 DEF NotifiesInItsProject

-----------------------------------------------------------------------------
(* Commands have their own issues to themselves *)

\* A command with an issue of its own has it since before the step, or made it
\* with this step.
LEMMA OwnStep ==
    ASSUME TypeOK, CommandInv, [Next]_vars, NEW q \in People, Own(cmd'[q])
    PROVE  \/ /\ Own(cmd[q]) /\ cmd'[q].issue = cmd[q].issue
              /\ cmd'[q].pc = "post" => cmd[q].pc = "post"
              /\ cmd'[q].pc = "onerror" => cmd[q].pc \in {"post", "onerror"}
           \/ /\ cmd'[q].issue = Len(issues) + 1 /\ cmd'[q].pc = "post"
              /\ IssueMade
              /\ \A p \in People : p # q => cmd'[p] = cmd[p]
<1>1. CASE cmd'[q] = cmd[q]
  BY <1>1
<1>2. CASE Step(q)
  <2>1. \A p \in People : p # q => cmd'[p] = cmd[p]
    BY <1>2, OthersKept
  <2> QED
    BY <1>2, <2>1, Stepped DEF Own, Writing
<1> QED
  BY <1>1, <1>2, NextIsStep, OthersKept

\* Issues stay with the commands that made them.
LEMMA NextOwn ==
    ASSUME TypeOK, CommandInv, OwnInv, [Next]_vars
    PROVE  OwnInv'
<1>1. TypeOK' /\ Kept /\ CommandInv'
  BY NextTyped, ServicesTyped, NextCommand
<1>2. Len(issues) \in Nat /\ DOMAIN issues = 1..Len(issues)
  BY DEF TypeOK
<1>3. ASSUME NEW p \in People, NEW q \in People, p # q,
             Own(cmd'[p]), Own(cmd'[q])
      PROVE  cmd'[p].issue # cmd'[q].issue
  <2> DEFINE Old(r) == Own(cmd[r]) /\ cmd'[r].issue = cmd[r].issue
             Fresh(r) == /\ cmd'[r].issue = Len(issues) + 1
                         /\ \A o \in People : o # r => cmd'[o] = cmd[o]
  <2>1. (Old(p) \/ Fresh(p)) /\ (Old(q) \/ Fresh(q))
    BY <1>3, OwnStep
  <2>2. \A r \in People : Own(cmd[r]) => cmd[r].issue \in DOMAIN issues
    BY DEF CommandInv, CommandOK, Own
  <2>3. CASE Old(p) /\ Old(q)
    BY <1>3, <2>3 DEF OwnInv
  <2>4. CASE Fresh(p)
    <3>1. Own(cmd[q]) /\ cmd'[q].issue = cmd[q].issue
      BY <1>3, <2>4
    <3> QED
      BY <1>2, <2>2, <2>4, <3>1
  <2>5. CASE Fresh(q)
    <3>1. Own(cmd[p]) /\ cmd'[p].issue = cmd[p].issue
      BY <1>3, <2>5
    <3> QED
      BY <1>2, <2>2, <2>5, <3>1
  <2> QED
    BY <2>1, <2>3, <2>4, <2>5
<1>4. ASSUME NEW q \in People, Own(cmd'[q])
      PROVE  /\ cmd'[q].pc = "post" =>
                   /\ issues'[cmd'[q].issue].status # "error"
                   /\ \A k \in DOMAIN requests' :
                         requests'[k].issue = cmd'[q].issue => ~requests'[k].own
             /\ cmd'[q].pc = "onerror" =>
                   \A k \in DOMAIN requests' :
                      requests'[k].issue = cmd'[q].issue /\ requests'[k].own
                         => ~requests'[k].answered
  <2> DEFINE j == cmd'[q].issue
  <2>1. CASE /\ Own(cmd[q]) /\ j = cmd[q].issue
             /\ cmd'[q].pc = "post" => cmd[q].pc = "post"
             /\ cmd'[q].pc = "onerror" => cmd[q].pc \in {"post", "onerror"}
    <3>1. j \in DOMAIN issues
      BY <2>1 DEF CommandInv, CommandOK, Own
    <3>2. ASSUME NEW k \in DOMAIN requests', k \notin DOMAIN requests,
                 requests'[k].issue = j, requests'[k].own
          PROVE  /\ cmd'[q].pc # "post"
                 /\ cmd'[q].pc = "onerror" => ~requests'[k].answered
      <4>1. PICK p \in People :
               /\ cmd[p].pc = "post" /\ requests'[k].issue = cmd[p].issue
               /\ requests'[k].own = (cmd[p].given = "none")
               /\ cmd'[p].pc # "post"
               /\ cmd'[p].pc = "onerror" => ~requests'[k].answered
        BY <3>2, NewRequest
      <4>2. p = q
        BY <2>1, <3>2, <4>1 DEF OwnInv, Own, Writing
      <4> QED
        BY <4>1, <4>2
    <3>3. ASSUME NEW k \in DOMAIN requests, requests'[k].issue = j, requests'[k].own
          PROVE  /\ cmd'[q].pc # "post"
                 /\ cmd'[q].pc = "onerror" => ~requests'[k].answered
      <4>1. /\ requests[k].issue = j /\ requests[k].own
            /\ requests'[k].answered = requests[k].answered
        BY <1>1, <3>3 DEF Kept, RequestsKept
      <4>2. cmd[q].pc # "post"
        BY <2>1, <4>1 DEF OwnInv
      <4>3. cmd[q].pc = "onerror" => ~requests[k].answered
        BY <2>1, <4>1 DEF OwnInv
      <4> QED
        BY <2>1, <4>1, <4>2, <4>3
    <3>4. ASSUME cmd'[q].pc = "post"
          PROVE  issues'[j].status # "error"
      <4>1. cmd[q].pc = "post" /\ issues[j].status # "error"
        BY <2>1, <3>4 DEF OwnInv
      <4>2. ASSUME NEW p \in People, cmd[p].pc = "onerror", cmd[p].issue = j
            PROVE  FALSE
        <5>1. p # q /\ Own(cmd[p])
          BY <4>1, <4>2 DEF Own, Writing, CommandInv, CommandOK
        <5> QED
          BY <2>1, <4>2, <5>1 DEF OwnInv
      <4> QED
        BY <3>1, <4>1, <4>2, StatusChange
    <3> QED
      BY <3>2, <3>3, <3>4
  <2>2. CASE j = Len(issues) + 1 /\ cmd'[q].pc = "post" /\ IssueMade
    <3>1. j \notin DOMAIN issues
      BY <1>2, <2>2
    <3>2. j \in DOMAIN issues'
      BY <1>1, <1>4 DEF CommandInv, CommandOK, Own
    <3>3. issues'[j].status = "new" /\ requests' = requests
      BY <3>1, <3>2, NewIssueIsNew
    <3>4. \A k \in DOMAIN requests' : requests'[k].issue # j
      BY <3>1, <3>3 DEF TypeOK
    <3> QED
      BY <2>2, <3>3, <3>4
  <2> QED
    BY <1>4, <2>1, <2>2, OwnStep
<1>5. ASSUME NEW j \in DOMAIN issues', issues'[j].status = "error"
      PROVE  issues'[j].owned
  <2>1. CASE j \notin DOMAIN issues
    BY <1>5, <2>1, NewIssueIsNew
  <2>2. CASE j \in DOMAIN issues
    <3>1. issues'[j].owned = issues[j].owned
      BY <1>1, <2>2 DEF Kept, IssuesKept
    <3>2. CASE issues[j].status = "error"
      BY <2>2, <3>1, <3>2 DEF OwnInv
    <3>3. CASE issues[j].status # "error"
      <4>1. PICK p \in People : cmd[p].pc = "onerror" /\ cmd[p].issue = j
        BY <1>5, <2>2, <3>3, StatusChange
      <4> QED
        BY <3>1, <4>1 DEF CommandInv, CommandOK, Writing
    <3> QED
      BY <3>2, <3>3
  <2> QED
    BY <2>1, <2>2
<1> QED
  BY <1>3, <1>4, <1>5 DEF OwnInv

\* Only an issue made by a command gets into the error status, and only when the
\* command has told nobody of its own request.
LEMMA NextErrorIssues ==
    ASSUME TypeOK, CommandInv, OwnInv, ErrorIssuesHaveNoKnownRequest, [Next]_vars
    PROVE  ErrorIssuesHaveNoKnownRequest'
<1>1. Kept /\ OwnInv' /\ TypeOK'
  BY NextTyped, ServicesTyped, NextOwn
<1>2. ASSUME NEW k \in DOMAIN requests', requests'[k].answered,
             issues'[requests'[k].issue].status = "error"
      PROVE  issues'[requests'[k].issue].owned /\ ~requests'[k].own
  <2> DEFINE j == requests'[k].issue
  <2>1. j \in DOMAIN issues' /\ issues'[j].owned
    BY <1>1, <1>2 DEF TypeOK, OwnInv
  <2>2. CASE k \in DOMAIN requests
    <3>1. /\ j = requests[k].issue /\ requests[k].answered
          /\ requests'[k].own = requests[k].own /\ j \in DOMAIN issues
      BY <1>1, <1>2, <2>2 DEF Kept, RequestsKept, TypeOK
    <3>2. CASE issues[j].status = "error"
      BY <2>1, <2>2, <3>1, <3>2 DEF ErrorIssuesHaveNoKnownRequest
    <3>3. CASE issues[j].status # "error"
      <4>1. PICK p \in People : cmd[p].pc = "onerror" /\ cmd[p].issue = j
        BY <1>2, <3>1, <3>3, StatusChange
      <4>2. Own(cmd[p])
        BY <4>1 DEF Own, Writing, CommandInv, CommandOK
      <4> QED
        BY <2>1, <2>2, <3>1, <4>1, <4>2 DEF OwnInv
    <3> QED
      BY <3>2, <3>3
  <2>3. CASE k \notin DOMAIN requests
    <3>1. PICK p \in People : /\ cmd[p].pc = "post" /\ j = cmd[p].issue
                              /\ requests'[k].own = (cmd[p].given = "none")
                              /\ UNCHANGED issues
      BY <2>3, NewRequest
    <3>2. CASE cmd[p].given = "none"
      BY <1>2, <3>1, <3>2 DEF OwnInv, Own, Writing
    <3>3. CASE cmd[p].given # "none"
      BY <2>1, <3>1, <3>3
    <3> QED
      BY <3>2, <3>3
  <2> QED
    BY <2>2, <2>3
<1> QED
  BY <1>2 DEF ErrorIssuesHaveNoKnownRequest

-----------------------------------------------------------------------------
(* The issues that commands make are settled *)

\* Who changes what an issue refers to, or is refused: a command at work on it.
LEMMA MarkChange ==
    ASSUME TypeOK, CommandInv, [Next]_vars, NEW j \in DOMAIN issues,
           \/ issues'[j].names # issues[j].names
           \/ issues'[j].dropped # issues[j].dropped
    PROVE  \E p \in People :
              /\ cmd[p].pc \in Writing /\ cmd[p].issue = j
              /\ \/ issues'[j].dropped
                 \/ /\ cmd[p].pc = "update" /\ issues'[j].names = cmd[p].req
                    /\ issues'[j].dropped = issues[j].dropped
<1>1. issues \in Seq(Issue) /\ issues[j] \in Issue
  BY DEF TypeOK
<1>2. issues' # issues
  OBVIOUS
<1>3. ASSUME NEW p \in People, cmd[p].pc \in Writing
      PROVE  cmd[p].issue \in DOMAIN issues
  BY <1>3 DEF CommandInv, CommandOK
<1>4. ASSUME NEW i \in DOMAIN issues, NEW x, issues' = [issues EXCEPT ![i].status = x]
      PROVE  FALSE
  <2>1. issues'[j] = issues[j] \/ issues'[j] = [issues[j] EXCEPT !.status = x]
    BY <1>1, <1>4
  <2> QED
    BY <1>1, <2>1 DEF Issue
<1>5. ASSUME NEW i \in DOMAIN issues, issues' = [issues EXCEPT ![i].dropped = TRUE]
      PROVE  i = j /\ issues'[j].dropped
  <2>1. CASE i = j
    <3>1. issues'[j] = [issues[j] EXCEPT !.dropped = TRUE]
      BY <1>1, <1>5, <2>1
    <3> QED
      BY <1>1, <2>1, <3>1 DEF Issue
  <2>2. CASE i # j
    BY <1>1, <1>5, <2>2
  <2> QED
    BY <2>1, <2>2
<1>6. ASSUME NEW i \in DOMAIN issues, NEW x, issues' = [issues EXCEPT ![i].names = x]
      PROVE  i = j /\ issues'[j].names = x /\ issues'[j].dropped = issues[j].dropped
  <2>1. CASE i = j
    <3>1. issues'[j] = [issues[j] EXCEPT !.names = x]
      BY <1>1, <1>6, <2>1
    <3> QED
      BY <1>1, <2>1, <3>1 DEF Issue
  <2>2. CASE i # j
    BY <1>1, <1>6, <2>2
  <2> QED
    BY <2>1, <2>2
<1>7. ASSUME NEW p \in People, NEW b \in BOOLEAN, MakeIssue(p, b)
      PROVE  FALSE
  <2>1. [NewIssue(EnvProject, TRUE) EXCEPT !.dropped = b] \in Issue
    BY DEF NewIssue, EnvProject, Issue, Projects
  <2> QED
    BY <1>1, <1>7, <2>1, IssueAdded DEF MakeIssue
<1>8. ASSUME NEW p \in People, Interrupt(p)
      PROVE  cmd[p].pc \in Writing /\ cmd[p].issue = j /\ issues'[j].dropped
  <2>1. /\ cmd[p].pc \in Writing
        /\ issues' = [issues EXCEPT ![cmd[p].issue].dropped = TRUE]
    BY <1>8 DEF Interrupt, Writing
  <2> QED
    BY <1>3, <1>5, <2>1
<1>9. ASSUME NEW p \in People, NEW b \in BOOLEAN, UpdateIssue(p, b)
      PROVE  /\ cmd[p].pc = "update" /\ cmd[p].issue = j
             /\ \/ issues'[j].dropped
                \/ /\ issues'[j].names = cmd[p].req
                   /\ issues'[j].dropped = issues[j].dropped
  <2>1. /\ cmd[p].pc = "update"
        /\ \/ issues' = [issues EXCEPT ![cmd[p].issue].dropped = TRUE]
           \/ issues' = [issues EXCEPT ![cmd[p].issue].names = cmd[p].req]
    BY <1>9 DEF UpdateIssue
  <2>2. cmd[p].issue \in DOMAIN issues
    BY <1>3, <2>1 DEF Writing
  <2> QED
    BY <1>5, <1>6, <2>1, <2>2
<1>10. ASSUME NEW p \in People, NEW b \in BOOLEAN, Transition(p, b)
       PROVE  cmd[p].pc \in Writing /\ cmd[p].issue = j /\ issues'[j].dropped
  <2>1. /\ cmd[p].pc \in Writing
        /\ \/ issues' = [issues EXCEPT ![cmd[p].issue].dropped = TRUE]
           \/ issues' = [issues EXCEPT ![cmd[p].issue].status =
                            IF cmd[p].pc = "onerror" THEN "error" ELSE "created"]
    BY <1>2, <1>10 DEF Transition, Writing
  <2> QED
    BY <1>3, <1>4, <1>5, <2>1
<1>11. ASSUME NEW i \in DOMAIN requests, Approve(i)
       PROVE  FALSE
  <2>1. requests[i].issue \in DOMAIN issues
    BY DEF TypeOK
  <2> QED
    BY <1>2, <1>4, <1>11, <2>1 DEF Approve
<1>12. ASSUME NEW p \in People, Step(p)
       PROVE  \/ Interrupt(p)
              \/ \E b \in BOOLEAN : UpdateIssue(p, b) \/ Transition(p, b)
  BY <1>2, <1>7, <1>12
  DEF Step, Create, Expire, Begin, CheckActive, GiveReason, VerifyIssue, Post,
      PostFails, FindActive, Decide, Fail
<1>13. \E p \in People : Step(p)
  BY <1>2, <1>11 DEF Next, Step, vars, EndRequest
<1> QED
  BY <1>8, <1>9, <1>10, <1>12, <1>13 DEF Writing

\* A command that updates its issue makes it refer to its request, or is refused.
LEMMA Updated ==
    ASSUME TypeOK, CommandInv, NEW p \in People, NEW b \in BOOLEAN, UpdateIssue(p, b)
    PROVE  /\ cmd[p].pc = "update" /\ cmd'[p].pc = "transition"
           /\ cmd'[p].issue = cmd[p].issue
           /\ \/ issues'[cmd[p].issue].dropped
              \/ issues'[cmd[p].issue].names = cmd[p].req
<1>1. /\ DOMAIN cmd = People /\ cmd[p] \in Command
      /\ issues \in Seq(Issue) /\ cmd[p].issue \in DOMAIN issues
  BY DEF TypeOK, CommandInv, CommandOK, UpdateIssue, Writing
<1>2. issues[cmd[p].issue] \in Issue
  BY <1>1
<1>3. cmd[p].pc = "update" /\ cmd'[p] = [cmd[p] EXCEPT !.pc = "transition"]
  BY <1>1 DEF UpdateIssue
<1>4. \/ issues' = [issues EXCEPT ![cmd[p].issue].dropped = TRUE]
      \/ issues' = [issues EXCEPT ![cmd[p].issue].names = cmd[p].req]
  BY DEF UpdateIssue
<1>5. \/ issues'[cmd[p].issue].dropped
      \/ issues'[cmd[p].issue].names = cmd[p].req
  BY <1>1, <1>2, <1>4 DEF Issue
<1> QED
  BY <1>1, <1>3, <1>5 DEF Command

\* A command that goes on with an issue of its own does what settles it.
LEMMA OwnSettles ==
    ASSUME TypeOK, CommandInv, OwnInv, NEW p \in People, Step(p),
           cmd[p].pc \in Writing, Own(cmd[p]), Settling(cmd[p])
    PROVE  LET c == cmd[p]  d == cmd'[p]  i == cmd[p].issue IN
           \/ /\ c.pc = "post" /\ d.pc = "update" /\ d.issue = i
              /\ d.req = Len(requests') /\ Posted(p, TRUE)
           \/ c.pc = "post" /\ d.pc = "onerror" /\ d.issue = i
           \/ /\ c.pc = "update" /\ d.pc = "transition" /\ d.issue = i
              /\ issues'[i].dropped \/ issues'[i].names = c.req
           \/ d.pc = "idle" /\ issues'[i].dropped
           \/ /\ c.pc \in {"transition", "onerror"} /\ d.pc = "idle"
              /\ issues'[i].status = IF c.pc = "onerror" THEN "error" ELSE "created"
<1>1. /\ DOMAIN cmd = People /\ cmd[p] \in Command
      /\ issues \in Seq(Issue) /\ cmd[p].issue \in DOMAIN issues
      /\ cmd[p].given = "none"
  BY DEF TypeOK, CommandInv, CommandOK, Own
<1>2. issues[cmd[p].issue] \in Issue /\ Idle.pc = "idle"
  BY <1>1 DEF Idle
<1>3. ASSUME issues' = [issues EXCEPT ![cmd[p].issue].dropped = TRUE]
      PROVE  issues'[cmd[p].issue].dropped
  BY <1>1, <1>2, <1>3 DEF Issue
<1>4. CASE Interrupt(p)
  BY <1>1, <1>2, <1>3, <1>4 DEF Interrupt
<1>5. CASE Post(p)
  <2>1. cmd' = [cmd EXCEPT ![p] = [cmd[p] EXCEPT !.pc = "update", !.req = Len(requests')]]
    BY <1>1, <1>5 DEF Post, Settling
  <2>2. cmd'[p] = [cmd[p] EXCEPT !.pc = "update", !.req = Len(requests')]
    BY <1>1, <2>1
  <2> QED
    BY <1>1, <1>5, <2>2 DEF Post, Command
<1>6. ASSUME NEW b \in BOOLEAN, PostFails(p, b)
      PROVE  /\ cmd[p].pc = "post" /\ cmd'[p].pc = "onerror"
             /\ cmd'[p].issue = cmd[p].issue
  <2>1. cmd[p].pc = "post" /\ cmd'[p] = [cmd[p] EXCEPT !.pc = "onerror"]
    BY <1>1, <1>6 DEF PostFails
  <2> QED
    BY <1>1, <2>1 DEF Command
<1>7. ASSUME NEW b \in BOOLEAN, UpdateIssue(p, b)
      PROVE  /\ cmd[p].pc = "update" /\ cmd'[p].pc = "transition"
             /\ cmd'[p].issue = cmd[p].issue
             /\ \/ issues'[cmd[p].issue].dropped
                \/ issues'[cmd[p].issue].names = cmd[p].req
  BY <1>7, Updated
<1>8. ASSUME NEW b \in BOOLEAN, Transition(p, b)
      PROVE  /\ cmd[p].pc \in {"transition", "onerror"} /\ cmd'[p].pc = "idle"
             /\ \/ issues'[cmd[p].issue].dropped
                \/ issues'[cmd[p].issue].status =
                      IF cmd[p].pc = "onerror" THEN "error" ELSE "created"
  <2>1. \/ issues' = [issues EXCEPT ![cmd[p].issue].dropped = TRUE]
        \/ issues' = [issues EXCEPT ![cmd[p].issue].status =
                         IF cmd[p].pc = "onerror" THEN "error" ELSE "created"]
    BY <1>1, <1>8 DEF Transition
  <2>2. \/ issues'[cmd[p].issue].dropped
        \/ issues'[cmd[p].issue].status =
              IF cmd[p].pc = "onerror" THEN "error" ELSE "created"
    BY <1>1, <1>2, <1>3, <2>1 DEF Issue
  <2> QED
    BY <1>1, <1>2, <1>8, <2>2 DEF Transition
<1>9. \/ Interrupt(p) \/ Post(p)
      \/ \E b \in BOOLEAN : PostFails(p, b) \/ UpdateIssue(p, b) \/ Transition(p, b)
  BY DEF Step, Create, Expire, Begin, CheckActive, GiveReason, VerifyIssue,
     MakeIssue, FindActive, Decide, Fail, Writing
<1> QED
  BY <1>4, <1>5, <1>6, <1>7, <1>8, <1>9

\* An issue that refers to a request that notifies by it goes on to refer to one,
\* whoever writes into it, unless Jira refuses.
LEMMA NamesKept ==
    ASSUME TypeOK, CommandInv, SettledInv, [Next]_vars, NEW j \in DOMAIN issues,
           issues[j].dropped \/ NamesItsRequest(j)
    PROVE  issues'[j].dropped \/ NamesItsRequest(j)'
<1>1. Kept
  BY ServicesTyped
<1>2. CASE /\ issues'[j].names = issues[j].names
           /\ issues'[j].dropped = issues[j].dropped
  BY <1>1, <1>2 DEF NamesItsRequest, Kept, RequestsKept
<1>3. CASE \/ issues'[j].names # issues[j].names
           \/ issues'[j].dropped # issues[j].dropped
  <2>1. CASE issues'[j].dropped
    BY <2>1
  <2>2. CASE ~issues'[j].dropped
    <3>1. PICK p \in People : /\ cmd[p].pc = "update" /\ cmd[p].issue = j
                              /\ issues'[j].names = cmd[p].req
      BY <1>3, <2>2, MarkChange
    <3>2. cmd[p].req \in DOMAIN requests /\ requests[cmd[p].req].issue = j
      BY <3>1 DEF SettledInv, Settling
    <3> QED
      BY <1>1, <3>1, <3>2 DEF NamesItsRequest, Kept, RequestsKept
  <2> QED
    BY <2>1, <2>2
<1> QED
  BY <1>2, <1>3

\* What a command has settled so far stays so.
LEMMA NextSettling ==
    ASSUME TypeOK, CommandInv, OwnInv, SettledInv, [Next]_vars, NEW q \in People
    PROVE  Settling(cmd[q])'
<1>1. Kept
  BY ServicesTyped
<1>2. CASE cmd'[q] = cmd[q]
  <2>1. Settling(cmd[q])
    BY DEF SettledInv
  <2>2. cmd[q].pc = "transition" => cmd[q].issue \in DOMAIN issues
    BY DEF CommandInv, CommandOK, Writing
  <2>3. cmd[q].pc = "update" =>
           cmd[q].req \in DOMAIN requests' /\ requests'[cmd[q].req].issue = cmd[q].issue
    BY <1>1, <2>1 DEF Settling, Kept, RequestsKept
  <2>4. cmd[q].pc = "transition" =>
           issues'[cmd[q].issue].dropped \/ NamesItsRequest(cmd[q].issue)'
    BY <1>2, <2>1, <2>2, NamesKept DEF Settling
  <2> QED
    BY <1>2, <2>1, <2>3, <2>4 DEF Settling
<1>3. CASE cmd'[q] # cmd[q]
  <2>1. Step(q)
    BY <1>3, NextIsStep, OthersKept
  <2>2. CASE cmd'[q].pc \notin {"post", "update", "transition"}
    BY <2>2 DEF Settling
  <2>3. CASE cmd'[q].pc = "post"
    <3>1. cmd[q].pc = "issue" /\ cmd'[q].given = cmd[q].given
      BY <2>1, <2>3, Stepped
    <3>2. ASSUME cmd[q].given = "none"
          PROVE  cmd'[q].retrieved
      <4>1. \E b \in BOOLEAN : MakeIssue(q, b)
        BY <2>1, <2>3, <3>1, <3>2 DEF Step, Create, Expire, Begin, CheckActive,
           GiveReason, Post, PostFails, UpdateIssue, Transition, FindActive, Decide,
           Fail, Interrupt, VerifyIssue, TypeOK, Idle, Command
      <4> QED
        BY <2>3, <4>1 DEF MakeIssue, Idle, TypeOK, Command
    <3> QED
      BY <2>3, <3>1, <3>2 DEF Settling
  <2>4. CASE cmd'[q].pc = "update"
    <3>1. /\ cmd[q].pc = "post" /\ cmd'[q].issue = cmd[q].issue
          /\ cmd'[q].req = Len(requests') /\ Posted(q, TRUE)
      BY <2>1, <2>4, Stepped
    <3>2. /\ Len(requests') = Len(requests) + 1
          /\ DOMAIN requests' = DOMAIN requests \cup {Len(requests) + 1}
          /\ requests'[Len(requests) + 1].issue = cmd[q].issue
      BY <3>1, PostedKept
    <3> QED
      BY <2>4, <3>1, <3>2 DEF Settling
  <2>5. CASE cmd'[q].pc = "transition"
    <3>1. cmd[q].pc = "update" /\ cmd'[q].issue = cmd[q].issue
      BY <2>1, <2>5, Stepped
    <3>2. \E b \in BOOLEAN : UpdateIssue(q, b)
      BY <2>1, <3>1, <2>5 DEF Step, Create, Expire, Begin, CheckActive, GiveReason,
         Post, PostFails, MakeIssue, Transition, FindActive, Decide, Fail, Interrupt,
         VerifyIssue, TypeOK, Idle, Command
    <3>3. \/ issues'[cmd[q].issue].dropped
          \/ issues'[cmd[q].issue].names = cmd[q].req
      BY <3>2, Updated
    <3>4. /\ cmd[q].req \in DOMAIN requests'
          /\ requests'[cmd[q].req].issue = cmd[q].issue
      BY <1>1, <3>1 DEF SettledInv, Settling, Kept, RequestsKept
    <3> QED
      BY <2>5, <3>1, <3>3, <3>4 DEF Settling, NamesItsRequest
  <2> QED
    BY <2>2, <2>3, <2>4, <2>5
<1> QED
  BY <1>2, <1>3

\* An issue that is made is new, and its command goes on with it.
LEMMA MadeIsSettled ==
    ASSUME TypeOK, CommandInv, [Next]_vars,
           NEW j \in DOMAIN issues', j \notin DOMAIN issues
    PROVE  /\ issues'[j].status = "new"
           /\ \/ issues'[j].dropped
              \/ \E p \in People : /\ cmd'[p].given = "none" /\ cmd'[p].issue = j
                                   /\ cmd'[p].pc = "post"
<1>1. ASSUME NEW p \in People, NEW b \in BOOLEAN, MakeIssue(p, b)
      PROVE  \/ issues'[j].dropped
             \/ cmd'[p].given = "none" /\ cmd'[p].issue = j /\ cmd'[p].pc = "post"
  <2> DEFINE e == [NewIssue(EnvProject, TRUE) EXCEPT !.dropped = b]
  <2>1. e \in Issue /\ e.dropped = b
    BY DEF NewIssue, EnvProject, Issue, Projects
  <2>2. issues' = Append(issues, e)
    BY <1>1 DEF MakeIssue
  <2> HIDE DEF e
  <2>3. issues'[j].dropped = b /\ j = Len(issues) + 1 /\ Len(issues') = Len(issues) + 1
    BY <2>1, <2>2, IssueAdded DEF TypeOK
  <2>4. CASE b = TRUE
    BY <2>3, <2>4
  <2>5. CASE b = FALSE
    <3>1. cmd' = [cmd EXCEPT ![p] = [cmd[p] EXCEPT !.pc = "post",
                                !.retrieved = TRUE, !.issue = Len(issues')]]
      BY <1>1, <2>5 DEF MakeIssue, TypeOK
    <3>2. cmd'[p] = [cmd[p] EXCEPT !.pc = "post", !.retrieved = TRUE,
                                   !.issue = Len(issues')]
      BY <3>1 DEF TypeOK
    <3>3. cmd[p].given = "none"
      BY <1>1 DEF MakeIssue
    <3> QED
      BY <2>3, <3>2, <3>3 DEF TypeOK, Command
  <2> QED
    BY <2>4, <2>5
<1>2. ASSUME NEW p \in People, Step(p)
      PROVE  \/ \E b \in BOOLEAN : MakeIssue(p, b)
             \/ DOMAIN issues' = DOMAIN issues
  BY <1>2 DEF Step, Create, Expire, Begin, CheckActive, GiveReason, VerifyIssue,
       Post, PostFails, FindActive, Decide, Fail, Interrupt, UpdateIssue,
       Transition
<1>3. \/ \E p \in People : Step(p)
      \/ DOMAIN issues' = DOMAIN issues
  BY DEF Next, Step, vars, Approve, EndRequest
<1> QED
  BY <1>1, <1>2, <1>3, NewIssueIsNew

\* An issue that says its request was created refers to it.
LEMMA NextCreated ==
    ASSUME TypeOK, CommandInv, OwnInv, SettledInv, [Next]_vars,
           NEW j \in DOMAIN issues, issues[j].owned, ~issues'[j].dropped,
           issues'[j].status = "created"
    PROVE  NamesItsRequest(j)'
<1>1. issues[j].dropped \/ NamesItsRequest(j)
  <2>1. CASE issues[j].status = "created"
    BY <2>1 DEF SettledInv, OwnIssuesAreSettled, NamesItsRequest
  <2>2. CASE issues[j].status # "created"
    <3>1. PICK p \in People : cmd[p].pc = "transition" /\ cmd[p].issue = j
      BY <2>2, StatusChange
    <3> QED
      BY <3>1 DEF SettledInv, Settling
  <2> QED
    BY <2>1, <2>2
<1> QED
  BY <1>1, NamesKept

\* The command of an issue that is still new goes on with it.
LEMMA NextNew ==
    ASSUME TypeOK, CommandInv, OwnInv, SettledInv, [Next]_vars,
           NEW j \in DOMAIN issues, issues[j].owned, ~issues'[j].dropped,
           issues'[j].status = "new"
    PROVE  \E p \in People : /\ cmd'[p].given = "none" /\ cmd'[p].issue = j
                             /\ cmd'[p].pc \in Writing
<1>1. issues[j].status = "new"
  BY StatusChange
<1>2. ~issues[j].dropped
  BY MarkChange
<1>3. PICK p \in People : /\ cmd[p].given = "none" /\ cmd[p].issue = j
                          /\ cmd[p].pc \in Writing
  BY <1>1, <1>2 DEF SettledInv, OwnIssuesAreSettled, Writing
<1>4. Own(cmd[p]) /\ Settling(cmd[p])
  BY <1>3 DEF Own, SettledInv
<1>5. CASE cmd'[p] = cmd[p]
  BY <1>3, <1>5
<1>6. CASE cmd'[p] # cmd[p]
  <2>1. Step(p)
    BY <1>6, NextIsStep, OthersKept
  <2>2. cmd'[p].issue = j /\ cmd'[p].pc \in {"update", "onerror", "transition"}
    BY <1>3, <1>4, <2>1, OwnSettles
  <2>3. cmd'[p].given = "none"
    BY <1>3, <2>1, <2>2, Stepped
  <2> QED
    BY <2>2, <2>3 DEF Writing
<1> QED
  BY <1>5, <1>6

\* The issues that commands make stay settled.
LEMMA NextSettled ==
    ASSUME TypeOK, CommandInv, OwnInv, SettledInv, [Next]_vars
    PROVE  SettledInv'
<1>1. Kept
  BY ServicesTyped
<1>2. ASSUME NEW j \in DOMAIN issues', issues'[j].owned, ~issues'[j].dropped
      PROVE  /\ issues'[j].status = "new" =>
                   \E p \in People : /\ cmd'[p].given = "none" /\ cmd'[p].issue = j
                                      /\ cmd'[p].pc \in Writing
             /\ issues'[j].status = "created" => NamesItsRequest(j)'
  <2>1. CASE j \in DOMAIN issues
    <3>1. issues[j].owned
      BY <1>1, <1>2, <2>1 DEF Kept, IssuesKept
    <3> QED
      BY <1>2, <2>1, <3>1, NextNew, NextCreated
  <2>2. CASE j \notin DOMAIN issues
    BY <1>2, <2>2, MadeIsSettled DEF Writing
  <2> QED
    BY <2>1, <2>2
<1>3. OwnIssuesAreSettled'
  BY <1>2 DEF OwnIssuesAreSettled, NamesItsRequest, Writing
<1> QED
  BY <1>3, NextSettling DEF SettledInv

-----------------------------------------------------------------------------
(* The theorems *)

\* Nothing is requested and no command runs to begin with.
LEMMA InitIInv == Init => IInv
<1> SUFFICES ASSUME Init PROVE IInv
  OBVIOUS
<1>1. /\ NewIssue("prod", FALSE) \in Issue /\ ~NewIssue("prod", FALSE).owned
      /\ NewIssue("test", FALSE) \in Issue /\ ~NewIssue("test", FALSE).owned
      /\ NewIssue("prod", FALSE).names = 0 /\ NewIssue("test", FALSE).names = 0
      /\ NewIssue("prod", FALSE).status = "new"
      /\ NewIssue("test", FALSE).status = "new"
  BY DEF NewIssue, Issue, Projects
<1>2. /\ issues \in Seq(Issue) /\ DOMAIN issues = {1, 2}
      /\ ~issues[1].owned /\ ~issues[2].owned
      /\ issues[1].names = 0 /\ issues[2].names = 0
      /\ issues[1].status = "new" /\ issues[2].status = "new"
  <2> DEFINE e == NewIssue("prod", FALSE)
             f == NewIssue("test", FALSE)
  <2>1. issues = <<e, f>>
    BY DEF Init
  <2>2. /\ e \in Issue /\ f \in Issue /\ ~e.owned /\ ~f.owned /\ e.names = 0
        /\ f.names = 0 /\ e.status = "new" /\ f.status = "new"
    BY <1>1
  <2> HIDE DEF e, f
  <2>3. issues \in Seq(Issue) /\ Len(issues) = 2 /\ issues[1] = e /\ issues[2] = f
    BY <2>1, <2>2
  <2> QED
    BY <2>2, <2>3
<1>3. requests \in Seq(Request) /\ DOMAIN requests = {}
  BY DEF Init
<1>4. Idle \in Command /\ Idle.pc = "idle"
  BY DEF Idle, Command
<1>5. cmd \in [People -> Command] /\ \A p \in People : cmd[p].pc = "idle"
  BY <1>4 DEF Init
<1>6. TypeOK
  <2>1. isProd \in BOOLEAN /\ hasToken \in BOOLEAN /\ left \in 0..MaxCommands
    BY AccessRequestAssumption DEF Init
  <2>2. \A i \in DOMAIN issues : issues[i].names \in {0} \cup DOMAIN requests
    BY <1>2
  <2> QED
    BY <1>2, <1>3, <1>5, <2>1, <2>2 DEF TypeOK
<1>7. CommandInv
  BY <1>5 DEF CommandInv, CommandOK, Writing
<1>8. CheckedInv /\ OwnInv
  BY <1>2, <1>5 DEF CheckedInv, Checked, OwnInv, Own, Writing
<1>9. SettledInv
  BY <1>2, <1>5 DEF SettledInv, Settling, OwnIssuesAreSettled
<1> QED
  BY <1>3, <1>6, <1>7, <1>8, <1>9
  DEF IInv, DuplicatesOnlyByOverlap, NotifiesInItsProject,
      ErrorIssuesHaveNoKnownRequest

\* The inductive invariant holds of every reachable state.
LEMMA Invariance == Spec => []IInv
<1>1. Init => IInv
  BY InitIInv
<1>2. IInv /\ [Next]_vars => IInv'
  BY NextTyped, NextCommand, NextChecked, NextOwn, NextDuplicates, NextProject,
     NextErrorIssues, NextSettled DEF IInv
<1> QED
  BY <1>1, <1>2, PTL DEF Spec

\* The state of the commands and of both services keeps its type: requests name
\* issues there are, and issues name requests there are.
THEOREM TypeCorrect == Spec => []TypeOK
<1>1. IInv => TypeOK
  BY DEF IInv
<1> QED
  BY <1>1, Invariance, PTL

\* However many people run commands, a cluster has two active requests only when
\* the second was checked for before the first was there.
THEOREM OverlapOnly == Spec => []DuplicatesOnlyByOverlap
<1>1. IInv => DuplicatesOnlyByOverlap
  BY DEF IInv
<1> QED
  BY <1>1, Invariance, PTL

\* Every request notifies in the Jira project of its environment.
THEOREM RightProject == Spec => []NotifiesInItsProject
<1>1. IInv => NotifiesInItsProject
  BY DEF IInv
<1> QED
  BY <1>1, Invariance, PTL

\* However many commands use one issue, the one that moves it to the error status
\* made it, and nobody was told of a request of its maker.
THEOREM ErrorIssues == Spec => []ErrorIssuesHaveNoKnownRequest
<1>1. IInv => ErrorIssuesHaveNoKnownRequest
  BY DEF IInv
<1> QED
  BY <1>1, Invariance, PTL

\* The issue a command makes is settled however commands of other people, the
\* customer and failures of either service come in between: it is new only while
\* its command runs, and says "created" only of the request it refers to.
THEOREM OwnIssues == Spec => []OwnIssuesAreSettled
<1>1. IInv => OwnIssuesAreSettled
  BY DEF IInv, SettledInv
<1> QED
  BY <1>1, Invariance, PTL
=============================================================================
