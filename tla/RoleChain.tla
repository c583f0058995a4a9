------------------------------ MODULE RoleChain ------------------------------
(***************************************************************************)
(* Cloud credentials and console links (cmd/ocm-backplane/cloud/common.go, *)
(* pkg/awsutil/sts.go).  For a cluster with isolated access the command    *)
(* gets seed credentials for its OCM token, asks the backplane API for a   *)
(* chain of roles, checks that the address it is seen from is trusted, and *)
(* assumes one role after the other, each attempt repeated while changes   *)
(* of IAM policies resolve.  Credentials are the path of roles assumed     *)
(* from the seed; keys, tokens and names of sessions are left out.         *)
(***************************************************************************)
EXTENDS Integers, Sequences

CONSTANTS
    Names,       \* names of roles
    Target,      \* Target-Role-Arn, the customer's role
    Org,         \* Org-Role-Arn
    Chains,      \* chains of roles the backplane API answers with
    IPs,         \* addresses
    Ranges,      \* those in the ranges expected to access customer accounts
    MaxRetries   \* assumeRoleMaxRetries

ASSUME RoleChainAssumption ==
    /\ Target \in Names /\ Org \in Names /\ Target # Org
    /\ Chains \subseteq Seq(Names)
    /\ Ranges \subseteq IPs
    /\ MaxRetries \in Nat

VARIABLES
    pc,        \* what the command does next
    op,        \* credentials or console
    proxies,   \* which proxies the configuration has
    sequence,  \* the answer of the backplane API
    address,   \* the addresses the egress check saw: one, or none yet
    trusted,   \* the trusted addresses read from OCM
    step,      \* the role of the chain to assume next
    last,      \* lastCredentials
    client,    \* nextClient: its credentials and the way its requests take
    retries,   \* retryCount
    call,      \* history: the latest AssumeRole of the sequence
    refusals   \* history: refusals of the current role, at most MaxRetries + 1

inputs == <<op, proxies>>
answers == <<sequence, address, trusted>>
loop == <<step, last, client, retries, call, refusals>>
vars == <<pc, inputs, answers, loop>>

Ways == {"aws proxy", "proxy", "direct"}

\* A client made of no credentials at all has every request refused.
Credentials == [valid : BOOLEAN, path : Seq(Names)]
NoCredentials == [valid |-> FALSE, path |-> <<>>]
SeedCredentials == [valid |-> TRUE, path |-> <<>>]

Clients == [creds : Credentials, way : Ways]
NoClient == [creds |-> NoCredentials, way |-> "direct"]

Sequences == [chain : Seq(Names), sessionPolicy : BOOLEAN, externalId : BOOLEAN]
NoSequence == [chain |-> <<>>, sessionPolicy |-> FALSE, externalId |-> FALSE]

\* The session of an AssumeRole: under the session policy of the customer, under
\* an inline policy that admits some addresses only, or without policy.
Sessions == [name : Names, policy : {"none", "session", "inline"},
             admits : SUBSET IPs, externalId : BOOLEAN]
Calls == [made : BOOLEAN, client : Clients, session : Sessions]

Working == {"start", "api", "seed", "identity", "fetch", "egress", "trust",
            "assume", "backoff", "client", "signin"}
Ended == {"done", "failed"}

Clusters == [gov : BOOLEAN, hypershift : BOOLEAN, sts : BOOLEAN,
             oldJumpRole : BOOLEAN]

\* GetAwsProxy
AwsWay == IF proxies.aws THEN "aws proxy"
          ELSE IF proxies.general THEN "proxy" ELSE "direct"

NoCall == [made |-> FALSE, client |-> NoClient,
           session |-> [name |-> Target, policy |-> "none", admits |-> {},
                        externalId |-> FALSE]]

TypeOK ==
    /\ pc \in Working \cup Ended
    /\ op \in {"credentials", "console"}
    /\ proxies \in [aws : BOOLEAN, general : BOOLEAN]
    /\ sequence \in Sequences
    /\ address \subseteq IPs
    /\ trusted \subseteq IPs
    /\ step \in Nat \ {0}
    /\ last \in Credentials
    /\ client \in Clients
    /\ retries \in 0..MaxRetries
    /\ call \in Calls
    /\ refusals \in 0..(MaxRetries + 1)

Init ==
    /\ pc = "start"
    /\ op \in {"credentials", "console"}
    /\ proxies \in [aws : BOOLEAN, general : BOOLEAN]
    /\ sequence = NoSequence
    /\ address = {}
    /\ trusted = {}
    /\ step = 1
    /\ last = NoCredentials
    /\ client = NoClient
    /\ retries = 0
    /\ call = NoCall
    /\ refusals = 0

-----------------------------------------------------------------------------
(* Up to the first role *)

\* isIsolatedBackplaneAccess
IsIsolated(cluster) ==
    /\ ~cluster.gov
    /\ cluster.hypershift \/ (cluster.sts /\ ~cluster.oldJumpRole)

\* GetCloudCredentials and GetCloudConsole choose between the two flows.
Start(cluster) ==
    /\ pc = "start"
    /\ pc' = IF IsIsolated(cluster) THEN "seed" ELSE "api"
    /\ UNCHANGED <<inputs, answers, loop>>

\* The plain flow: the backplane API answers with credentials or a link.
AskApi ==
    /\ pc = "api"
    /\ pc' = "done"
    /\ UNCHANGED <<inputs, answers, loop>>

\* AssumeRoleWithJWT, in the initial role configured or that of the OCM URL; an
\* invalid role or an unknown URL is an error (Fail).  The seed client of the
\* chain is made of these credentials, without a proxy.
GetSeed ==
    /\ pc = "seed"
    /\ pc' = "identity"
    /\ client' = [creds |-> SeedCredentials, way |-> "direct"]
    /\ UNCHANGED <<inputs, answers, step, last, retries, call, refusals>>

CheckIdentity ==
    /\ pc = "identity"
    /\ pc' = "fetch"
    /\ UNCHANGED <<inputs, answers, loop>>

FetchSequence(answer) ==
    /\ pc = "fetch"
    /\ pc' = "egress"
    /\ sequence' = answer
    /\ UNCHANGED <<inputs, address, trusted, loop>>

CheckEgressIP(ip) ==
    /\ pc = "egress"
    /\ pc' = "trust"
    /\ address' = {ip}
    /\ UNCHANGED <<inputs, sequence, trusted, loop>>

\* getTrustedIPList keeps the enabled addresses of the expected ranges.
TrustedIPList(items) == {ip \in Ranges : [ip |-> ip, enabled |-> TRUE] \in items}

\* Mutant: the list is read, the client's address is not looked up in it.
TrustAnyone(items) ==
    /\ pc = "trust"
    /\ trusted' = TrustedIPList(items)
    /\ pc' = IF sequence.chain = <<>> THEN "failed" ELSE "assume"
    /\ UNCHANGED <<inputs, sequence, address, loop>>

\* verifyTrustedIPAndGetPolicy from the list on, and the check of an empty chain.
VerifyTrusted(items) ==
    /\ pc = "trust"
    /\ trusted' = TrustedIPList(items)
    /\ pc' = IF address \subseteq trusted' /\ sequence.chain # <<>>
               THEN "assume" ELSE "failed"
    /\ UNCHANGED <<inputs, sequence, address, loop>>

-----------------------------------------------------------------------------
(* AssumeRoleSequence *)

\* The RoleArnSession made of an entry of the answer.
Session(name) ==
    LET policy == IF name # Target THEN "none"
                  ELSE IF sequence.sessionPolicy THEN "session" ELSE "inline" IN
    [name |-> name, policy |-> policy,
     admits |-> IF policy = "inline" THEN trusted ELSE {},
     externalId |-> sequence.externalId /\ name \in {Org, Target}]

\* AssumeRole of the current role, by way of the client.
Attempt ==
    /\ pc = "assume"
    /\ call' = [made |-> TRUE, client |-> client,
                session |-> Session(sequence.chain[step])]
    /\ UNCHANGED <<inputs, answers, step, client, retries>>

Assumed ==
    /\ Attempt
    /\ client.creds.valid
    /\ last' = [valid |-> TRUE,
                path |-> Append(client.creds.path, sequence.chain[step])]
    /\ pc' = IF step < Len(sequence.chain) THEN "client"
             ELSE IF op = "console" THEN "signin" ELSE "done"
    /\ UNCHANGED refusals

OneMore(n) == IF n <= MaxRetries THEN n + 1 ELSE n

\* Mutant: one retry too many.
RefusedOnceMore ==
    /\ Attempt
    /\ refusals' = OneMore(refusals)
    /\ pc' = IF retries <= MaxRetries THEN "backoff" ELSE "failed"
    /\ UNCHANGED last

Refused ==
    /\ Attempt
    /\ refusals' = OneMore(refusals)
    /\ pc' = IF retries < MaxRetries THEN "backoff" ELSE "failed"
    /\ UNCHANGED last

\* createAssumeRoleSequenceClient
SequenceClient(creds) == [creds |-> creds, way |-> AwsWay]

\* Mutant: a retry is not counted.
RetryUncounted ==
    /\ pc = "backoff"
    /\ pc' = "assume"
    /\ client' = SequenceClient(last)
    /\ UNCHANGED <<inputs, answers, step, last, retries, call, refusals>>

\* Mutant: a retry starts from the seed credentials again.
RetryFromSeed ==
    /\ pc = "backoff"
    /\ pc' = "assume"
    /\ retries' = retries + 1
    /\ client' = SequenceClient(SeedCredentials)
    /\ UNCHANGED <<inputs, answers, step, last, call, refusals>>

\* After the backoff a new client is made of the latest credentials, of which
\* there are none before the first role.
Retry ==
    /\ pc = "backoff"
    /\ pc' = "assume"
    /\ retries' = retries + 1
    /\ client' = SequenceClient(last)
    /\ UNCHANGED <<inputs, answers, step, last, call, refusals>>

\* Mutant: the count of retries is that of the chain.
NextRoleSameCount ==
    /\ pc = "client"
    /\ pc' = "assume"
    /\ step' = step + 1
    /\ refusals' = 0
    /\ client' = SequenceClient(last)
    /\ UNCHANGED <<inputs, answers, last, call, retries>>

NextRole ==
    /\ pc = "client"
    /\ pc' = "assume"
    /\ step' = step + 1
    /\ retries' = 0
    /\ refusals' = 0
    /\ client' = SequenceClient(last)
    /\ UNCHANGED <<inputs, answers, last, call>>

\* GetSigninToken and GetConsoleURL
SignIn ==
    /\ pc = "signin"
    /\ pc' = "done"
    /\ UNCHANGED <<inputs, answers, loop>>

\* Any request but an AssumeRole of the chain, which is repeated, and the
\* making of any client may fail and ends the command.
Fail ==
    /\ pc \in Working \ {"assume"}
    /\ pc' = "failed"
    /\ UNCHANGED <<inputs, answers, loop>>

Finished == pc \in Ended /\ UNCHANGED vars

Next ==
    \/ \E cluster \in Clusters : Start(cluster)
    \/ \E chain \in Chains, s, e \in BOOLEAN :
          FetchSequence([chain |-> chain, sessionPolicy |-> s, externalId |-> e])
    \/ \E ip \in IPs : CheckEgressIP(ip)
    \/ \E items \in SUBSET [ip : IPs, enabled : BOOLEAN] : VerifyTrusted(items)
    \/ AskApi \/ GetSeed \/ CheckIdentity \/ Assumed \/ Refused \/ Retry
    \/ NextRole \/ SignIn \/ Fail \/ Finished

Spec == Init /\ [][Next]_vars

\* Every request is answered, one way or the other.
FairSpec == Spec /\ WF_vars(Next)

-----------------------------------------------------------------------------
(* Properties *)

\* The credentials, or the link, a command ends with were obtained by assuming
\* every role of the chain in its order, whatever was refused and repeated on
\* the way (sts.go:171-211).
EndsWithTheWholeChain ==
    (pc = "signin" \/ (pc = "done" /\ call.made)) =>
        last.valid /\ last.path = sequence.chain

\* The customer's role is never assumed, first attempt or retry, but under the
\* session policy the API names or, failing that, under a policy that admits
\* only addresses OCM lists, the address the command was seen from among them;
\* after the first role of a chain it is assumed by the way that address was
\* seen on (common.go:359-389, :426-460, sts.go:187-204).
CustomerSessionsAreRestricted ==
    (call.made /\ call.session.name = Target) =>
        /\ address # {} /\ address \subseteq trusted
        /\ \/ call.session.policy = "session" /\ sequence.sessionPolicy
           \/ /\ call.session.policy = "inline"
              /\ address \subseteq call.session.admits
              /\ call.session.admits \subseteq Ranges
        /\ call.client.creds.path # <<>> => call.client.way = AwsWay

\* Every role, however late in the chain, has the first attempt and all retries
\* of its own before its refusal ends the command (sts.go:180-200).
EveryRoleHasItsRetries ==
    [][(pc = "assume" /\ pc' = "failed") => refusals' = MaxRetries + 1]_vars

\* The command ends (sts.go:181-200).
EndsOnceAnswered == <>(pc \in Ended)

\* sts.go:157: "assumes each role in order using credentials from the previous
\* step (or seedClient for the first)".
AssumesWithPreviousCredentials ==
    pc = "assume" => client.creds = IF step = 1 THEN SeedCredentials ELSE last
=============================================================================
