--------------------------- MODULE RoleChainProofs ---------------------------
(***************************************************************************)
(* Theorems about RoleChain, for every chain of roles, every list of       *)
(* trusted addresses and any number of retries: type correctness, what the *)
(* credentials went through, how the customer's role is assumed, and that  *)
(* no role is given up early; and about Ssm on top of it: every behaviour  *)
(* of an SSM session is one of RoleChain, so that what is proved of the    *)
(* credentials holds there, and signals never take the command from its    *)
(* plugin.                                                                 *)
(***************************************************************************)
EXTENDS Ssm, TLAPS, SequenceTheorems

Before == {"start", "api", "seed", "identity", "fetch", "egress", "trust"}

\* The first n roles of the chain, in order.
IsPrefix(path, n) ==
    Len(path) = n /\ \A j \in 1..n : path[j] = sequence.chain[j]

\* What the credentials at hand went through.
PathInv ==
    /\ pc \in Before => step = 1 /\ last = NoCredentials /\ ~call.made
    /\ pc \in {"identity", "fetch", "egress", "trust"} =>
         client.creds = SeedCredentials
    /\ pc \in {"assume", "backoff"} => step \in 1..Len(sequence.chain)
    /\ pc = "assume" =>
         (client.creds.valid => IsPrefix(client.creds.path, step - 1))
    /\ pc \in {"assume", "backoff"} =>
         (last.valid => IsPrefix(last.path, step - 1))
    /\ pc = "client" =>
         /\ step \in 1..(Len(sequence.chain) - 1)
         /\ last.valid /\ IsPrefix(last.path, step)
    /\ (pc = "signin" \/ (pc = "done" /\ call.made)) =>
         last.valid /\ IsPrefix(last.path, Len(sequence.chain))

\* What the customer's role is assumed under.
SessionInv ==
    /\ trusted \subseteq Ranges
    /\ pc = "trust" => address # {}
    /\ pc \in {"assume", "backoff", "client", "signin"} =>
         address # {} /\ address \subseteq trusted
    /\ client.creds.path # <<>> => client.way = AwsWay

\* The retries used are the refusals met.
CountInv ==
    /\ pc \in Before => refusals = 0 /\ retries = 0
    /\ pc = "assume" => refusals = retries
    /\ pc = "backoff" => refusals = retries + 1 /\ retries < MaxRetries

IInv == TypeOK /\ PathInv /\ SessionInv /\ CustomerSessionsAreRestricted /\ CountInv

-----------------------------------------------------------------------------

\* A session built for a role of the chain is one.
LEMMA SessionType ==
    ASSUME TypeOK, NEW name \in Names
    PROVE  Session(name) \in Sessions
  BY DEF TypeOK, Session, Sessions, Sequences

\* The initial states are typed.
LEMMA InitTyped == Init => TypeOK
<1>1. NoCredentials \in Credentials
  BY DEF NoCredentials, Credentials
<1>2. NoClient \in Clients
  BY <1>1 DEF NoClient, Clients, Ways
<1>3. NoSequence \in Sequences
  BY DEF NoSequence, Sequences
<1>4. NoCall \in Calls
  BY <1>2, RoleChainAssumption DEF NoCall, Calls, Sessions
<1> QED
  BY <1>1, <1>2, <1>3, <1>4, RoleChainAssumption
  DEF Init, TypeOK, Working, Ended

\* Every step keeps the types.
LEMMA NextTyped ==
    ASSUME TypeOK, [Next]_vars,
           pc = "assume" => step \in 1..Len(sequence.chain),
           pc = "backoff" => retries < MaxRetries
    PROVE  TypeOK'
<1> USE DEF TypeOK, Working, Ended
<1>1. ASSUME NEW cluster \in Clusters, Start(cluster)
      PROVE  TypeOK'
  BY <1>1 DEF Start, inputs, answers, loop
<1>2. ASSUME NEW chain \in Chains, NEW s \in BOOLEAN, NEW e \in BOOLEAN,
             FetchSequence([chain |-> chain, sessionPolicy |-> s,
                            externalId |-> e])
      PROVE  TypeOK'
  <2>1. [chain |-> chain, sessionPolicy |-> s, externalId |-> e] \in Sequences
    BY RoleChainAssumption DEF Sequences
  <2> QED
    BY <1>2, <2>1 DEF FetchSequence, inputs, loop
<1>3. ASSUME NEW ip \in IPs, CheckEgressIP(ip)
      PROVE  TypeOK'
  BY <1>3 DEF CheckEgressIP, inputs, loop
<1>4. ASSUME NEW items, VerifyTrusted(items)
      PROVE  TypeOK'
  BY <1>4, RoleChainAssumption DEF VerifyTrusted, TrustedIPList, inputs, loop
<1>5. CASE AskApi
  BY <1>5 DEF AskApi, inputs, answers, loop
<1>6. CASE GetSeed
  <2>1. SeedCredentials \in Credentials
    BY DEF SeedCredentials, Credentials
  <2>2. client' \in Clients
    BY <1>6, <2>1 DEF GetSeed, Clients, Ways
  <2> QED
    BY <1>6, <2>2 DEF GetSeed, inputs, answers
<1>7. CASE CheckIdentity
  BY <1>7 DEF CheckIdentity, inputs, answers, loop
<1>8. ASSUME Attempt
      PROVE  /\ call' \in Calls
             /\ sequence.chain[step] \in Names
             /\ client' \in Clients
  <2>1. sequence.chain \in Seq(Names)
    BY DEF Sequences
  <2>2. sequence.chain[step] \in Names
    BY <1>8, <2>1 DEF Attempt
  <2>3. Session(sequence.chain[step]) \in Sessions
    BY <2>2, SessionType
  <2> QED
    BY <1>8, <2>2, <2>3 DEF Attempt, Calls
<1>9. CASE Assumed
  <2>1. last' \in Credentials
    BY <1>8, <1>9 DEF Assumed, Clients, Credentials
  <2> QED
    BY <1>8, <1>9, <2>1 DEF Assumed, Attempt, inputs, answers
<1>10. CASE Refused
  <2>1. refusals' \in 0..(MaxRetries + 1)
    BY <1>10, RoleChainAssumption DEF Refused, OneMore
  <2> QED
    BY <1>8, <1>10, <2>1 DEF Refused, Attempt, inputs, answers
<1>11. SequenceClient(last) \in Clients
  BY DEF SequenceClient, Clients, AwsWay, Ways
<1>12. CASE Retry
  BY <1>11, <1>12, RoleChainAssumption DEF Retry, inputs, answers
<1>13. CASE NextRole
  BY <1>11, <1>13, RoleChainAssumption DEF NextRole, inputs, answers
<1>14. CASE SignIn
  BY <1>14 DEF SignIn, inputs, answers, loop
<1>15. CASE Fail
  BY <1>15 DEF Fail, inputs, answers, loop
<1>16. CASE UNCHANGED vars
  BY <1>16 DEF vars, inputs, answers, loop
<1> QED
  BY <1>1, <1>2, <1>3, <1>4, <1>5, <1>6, <1>7, <1>9, <1>10, <1>12, <1>13,
     <1>14, <1>15, <1>16 DEF Next, Finished

\* A path that is all of the chain is the chain.
LEMMA WholePrefix ==
    ASSUME TypeOK, last.valid, IsPrefix(last.path, Len(sequence.chain))
    PROVE  last.path = sequence.chain
<1>1. last.path \in Seq(Names) /\ sequence.chain \in Seq(Names)
  BY DEF TypeOK, Credentials, Sequences
<1> QED
  BY <1>1, SeqEqual DEF IsPrefix

\* Assuming one more role makes the path one longer.
LEMMA PrefixGrows ==
    ASSUME TypeOK, TypeOK', PathInv, Assumed
    PROVE  last'.valid /\ IsPrefix(last'.path, step)
<1>1. /\ pc = "assume" /\ client.creds.valid
      /\ last'.valid
      /\ last'.path = Append(client.creds.path, sequence.chain[step])
      /\ sequence' = sequence
  BY DEF Assumed, Attempt, answers
<1>2. /\ client.creds.path \in Seq(Names)
      /\ sequence.chain \in Seq(Names)
      /\ step \in 1..Len(sequence.chain)
      /\ IsPrefix(client.creds.path, step - 1)
  BY <1>1 DEF TypeOK, Clients, Credentials, Sequences, PathInv
<1>3. sequence.chain[step] \in Names
  BY <1>2
<1>4. Len(last'.path) = step
  BY <1>1, <1>2, <1>3, AppendProperties DEF IsPrefix
<1>5. ASSUME NEW j \in 1..step
      PROVE  last'.path[j] = sequence.chain[j]
  BY <1>1, <1>2, <1>3, AppendProperties DEF IsPrefix
<1> QED
  BY <1>1, <1>4, <1>5 DEF IsPrefix

\* The credentials at hand keep the path they should have.
LEMMA NextPath ==
    ASSUME TypeOK, TypeOK', PathInv, [Next]_vars
    PROVE  PathInv'
<1> USE DEF PathInv, Before, IsPrefix
<1>1. ASSUME NEW cluster \in Clusters, Start(cluster)
      PROVE  PathInv'
  BY <1>1 DEF Start, inputs, answers, loop
<1>2. ASSUME NEW answer, FetchSequence(answer)
      PROVE  PathInv'
  BY <1>2 DEF FetchSequence, inputs, loop
<1>3. ASSUME NEW ip \in IPs, CheckEgressIP(ip)
      PROVE  PathInv'
  BY <1>3 DEF CheckEgressIP, inputs, loop
<1>4. ASSUME NEW items, VerifyTrusted(items)
      PROVE  PathInv'
  <2>1. sequence.chain \in Seq(Names)
    BY DEF TypeOK, Sequences
  <2>2. CASE pc' = "failed"
    BY <1>4, <2>2 DEF VerifyTrusted, inputs, loop
  <2>3. CASE pc' = "assume"
    <3>1. /\ sequence.chain # <<>>
          /\ sequence' = sequence /\ step' = 1
          /\ last' = NoCredentials /\ client' = client
          /\ client.creds = SeedCredentials /\ call' = call
      BY <1>4, <2>3 DEF VerifyTrusted, inputs, loop
    <3>2. 1 \in 1..Len(sequence.chain)
      BY <2>1, <3>1
    <3> QED
      BY <2>3, <3>1, <3>2 DEF SeedCredentials, NoCredentials
  <2> QED
    BY <1>4, <2>2, <2>3 DEF VerifyTrusted
<1>5. CASE AskApi
  BY <1>5 DEF AskApi, inputs, answers, loop
<1>6. CASE GetSeed
  BY <1>6 DEF GetSeed, inputs, answers
<1>7. CASE CheckIdentity
  BY <1>7 DEF CheckIdentity, inputs, answers, loop
<1>8. CASE Assumed
  <2>1. /\ last'.valid /\ IsPrefix(last'.path, step)
        /\ sequence' = sequence /\ step' = step
        /\ step \in 1..Len(sequence.chain)
    BY <1>8, PrefixGrows DEF Assumed, Attempt, answers
  <2>2. Len(sequence.chain) \in Nat
    BY DEF TypeOK, Sequences
  <2>3. CASE step < Len(sequence.chain)
    <3>1. pc' = "client" /\ step \in 1..(Len(sequence.chain) - 1)
      BY <1>8, <2>1, <2>2, <2>3 DEF Assumed
    <3> QED
      BY <2>1, <3>1
  <2>4. CASE ~(step < Len(sequence.chain))
    <3>1. pc' \in {"signin", "done"} /\ step = Len(sequence.chain)
      BY <1>8, <2>1, <2>2, <2>4 DEF Assumed
    <3> QED
      BY <2>1, <3>1
  <2> QED
    BY <2>3, <2>4
<1>9. CASE Refused
  BY <1>9 DEF Refused, Attempt, inputs, answers
<1>10. CASE Retry
  BY <1>10 DEF Retry, SequenceClient, inputs, answers
<1>11. CASE NextRole
  <2>1. /\ step' = step + 1 /\ sequence' = sequence /\ last' = last
        /\ client'.creds = last /\ pc' = "assume"
        /\ step \in 1..(Len(sequence.chain) - 1)
        /\ last.valid /\ IsPrefix(last.path, step)
    BY <1>11 DEF NextRole, SequenceClient, answers
  <2>2. Len(sequence.chain) \in Nat
    BY DEF TypeOK, Sequences
  <2>3. step' \in 1..Len(sequence.chain) /\ step' - 1 = step
    BY <2>1, <2>2
  <2> QED
    BY <2>1, <2>3
<1>12. CASE SignIn
  BY <1>12 DEF SignIn, inputs, answers, loop
<1>13. CASE Fail
  BY <1>13 DEF Fail, inputs, answers, loop
<1>14. CASE UNCHANGED vars
  BY <1>14 DEF vars, inputs, answers, loop
<1> QED
  BY <1>1, <1>2, <1>3, <1>4, <1>5, <1>6, <1>7, <1>8, <1>9, <1>10, <1>11,
     <1>12, <1>13, <1>14 DEF Next, Finished

\* The address is checked before the first role, and stays checked; the client
\* of any later role takes the way it was checked on.
LEMMA NextSession ==
    ASSUME TypeOK, TypeOK', PathInv, SessionInv, [Next]_vars
    PROVE  SessionInv'
<1> USE DEF SessionInv
<1>1. ASSUME NEW cluster \in Clusters, Start(cluster)
      PROVE  SessionInv'
  BY <1>1 DEF Start, inputs, answers, loop, AwsWay
<1>2. ASSUME NEW answer, FetchSequence(answer)
      PROVE  SessionInv'
  BY <1>2 DEF FetchSequence, inputs, loop, AwsWay
<1>3. ASSUME NEW ip \in IPs, CheckEgressIP(ip)
      PROVE  SessionInv'
  BY <1>3 DEF CheckEgressIP, inputs, loop, AwsWay
<1>4. ASSUME NEW items, VerifyTrusted(items)
      PROVE  SessionInv'
  BY <1>4 DEF VerifyTrusted, TrustedIPList, inputs, loop, AwsWay
<1>5. CASE AskApi
  BY <1>5 DEF AskApi, inputs, answers, loop, AwsWay
<1>6. CASE GetSeed
  BY <1>6 DEF GetSeed, SeedCredentials, inputs, answers, AwsWay
<1>7. CASE CheckIdentity
  BY <1>7 DEF CheckIdentity, inputs, answers, loop, AwsWay
<1>8. CASE Assumed
  BY <1>8 DEF Assumed, Attempt, inputs, answers, AwsWay
<1>9. CASE Refused
  BY <1>9 DEF Refused, Attempt, inputs, answers, AwsWay
<1>10. CASE Retry
  BY <1>10 DEF Retry, SequenceClient, inputs, answers, AwsWay
<1>11. CASE NextRole
  BY <1>11 DEF NextRole, SequenceClient, inputs, answers, AwsWay
<1>12. CASE SignIn
  BY <1>12 DEF SignIn, inputs, answers, loop, AwsWay
<1>13. CASE Fail
  BY <1>13 DEF Fail, Working, inputs, answers, loop, AwsWay
<1>14. CASE UNCHANGED vars
  BY <1>14 DEF vars, inputs, answers, loop, AwsWay
<1> QED
  BY <1>1, <1>2, <1>3, <1>4, <1>5, <1>6, <1>7, <1>8, <1>9, <1>10, <1>11,
     <1>12, <1>13, <1>14 DEF Next, Finished

\* An attempt makes a restricted session of the customer's role.
LEMMA AttemptRestricted ==
    ASSUME TypeOK, SessionInv, Attempt
    PROVE  CustomerSessionsAreRestricted'
<1>1. /\ pc = "assume" /\ address # {} /\ address \subseteq trusted
      /\ trusted \subseteq Ranges
      /\ client.creds.path # <<>> => client.way = AwsWay
  BY DEF Attempt, SessionInv
<1>2. /\ call'.client = client
      /\ call'.session = Session(sequence.chain[step])
      /\ address' = address /\ trusted' = trusted /\ sequence' = sequence
      /\ AwsWay' = AwsWay
  BY DEF Attempt, inputs, answers, AwsWay
<1>3. ASSUME Session(sequence.chain[step]).name = Target
      PROVE  LET s == Session(sequence.chain[step]) IN
             \/ s.policy = "session" /\ sequence.sessionPolicy
             \/ s.policy = "inline" /\ s.admits = trusted
  BY <1>3 DEF Session
<1> QED
  BY <1>1, <1>2, <1>3 DEF CustomerSessionsAreRestricted

\* Nothing but an attempt changes the session; the answers it depends on are
\* read before the first attempt.
LEMMA NextRestricted ==
    ASSUME TypeOK, PathInv, SessionInv, CustomerSessionsAreRestricted, [Next]_vars
    PROVE  CustomerSessionsAreRestricted'
<1> USE DEF CustomerSessionsAreRestricted
<1>1. CASE Assumed \/ Refused
  BY <1>1, AttemptRestricted DEF Assumed, Refused
<1>2. CASE pc \in Before /\ call' = call
  BY <1>2 DEF PathInv
<1>3. CASE UNCHANGED <<call, sequence, address, trusted, proxies>>
  BY <1>3 DEF AwsWay
<1> QED
  BY <1>1, <1>2, <1>3
  DEF Next, Start, FetchSequence, CheckEgressIP, VerifyTrusted, AskApi, GetSeed,
      CheckIdentity, Retry, NextRole, SignIn, Fail, Finished, Before, vars,
      inputs, answers, loop

\* The retries of the current role are counted.
LEMMA NextCount ==
    ASSUME TypeOK, CountInv, [Next]_vars
    PROVE  CountInv'
  BY RoleChainAssumption
  DEF TypeOK, CountInv, Before, Next, Start, FetchSequence, CheckEgressIP,
      VerifyTrusted, AskApi, GetSeed, CheckIdentity, Assumed, Refused, OneMore,
      Attempt, Retry, NextRole, SignIn, Fail, Finished, vars, inputs, answers, loop

-----------------------------------------------------------------------------

\* The inductive invariant.
THEOREM Invariance == Spec => []IInv
<1>1. Init => IInv
  <2> SUFFICES ASSUME Init PROVE IInv
    OBVIOUS
  <2>1. PathInv /\ SessionInv /\ CountInv
    BY DEF Init, PathInv, SessionInv, CountInv, Before, NoCall, NoClient,
           NoCredentials
  <2>2. CustomerSessionsAreRestricted
    BY DEF Init, CustomerSessionsAreRestricted, NoCall
  <2> QED
    BY <2>1, <2>2, InitTyped DEF IInv
<1>2. IInv /\ [Next]_vars => IInv'
  <2> SUFFICES ASSUME IInv, [Next]_vars PROVE IInv'
    OBVIOUS
  <2>1. TypeOK'
    BY NextTyped DEF IInv, PathInv, CountInv
  <2> QED
    BY <2>1, NextPath, NextSession, NextRestricted, NextCount DEF IInv
<1> QED
  BY <1>1, <1>2, PTL DEF Spec

\* The state stays well typed.
THEOREM TypeCorrect == Spec => []TypeOK
<1>1. IInv => TypeOK
  BY DEF IInv
<1> QED
  BY <1>1, Invariance, PTL

\* Credentials and links come of the whole chain, whatever was retried.
THEOREM WholeChain == Spec => []EndsWithTheWholeChain
<1>1. IInv => EndsWithTheWholeChain
  BY WholePrefix DEF IInv, PathInv, EndsWithTheWholeChain
<1> QED
  BY <1>1, Invariance, PTL

\* The customer's role is assumed under a policy, from a trusted address only.
THEOREM RestrictedSessions == Spec => []CustomerSessionsAreRestricted
<1>1. IInv => CustomerSessionsAreRestricted
  BY DEF IInv
<1> QED
  BY <1>1, Invariance, PTL

\* No role is given up before its last retry was refused.
THEOREM AllRetries == Spec => EveryRoleHasItsRetries
<1>1. IInv /\ [Next]_vars =>
        [(pc = "assume" /\ pc' = "failed") => refusals' = MaxRetries + 1]_vars
  <2> SUFFICES ASSUME IInv, [Next]_vars, pc = "assume", pc' = "failed"
               PROVE  refusals' = MaxRetries + 1
    OBVIOUS
  <2>1. Refused
    BY DEF Next, Start, FetchSequence, CheckEgressIP, VerifyTrusted, AskApi,
           GetSeed, CheckIdentity, Assumed, Retry, NextRole, SignIn, Fail,
           Finished, vars, Ended
  <2>2. retries = MaxRetries /\ refusals = retries
    BY <2>1, RoleChainAssumption DEF Refused, IInv, TypeOK, CountInv
  <2> QED
    BY <2>1, <2>2, RoleChainAssumption DEF Refused, OneMore
<1> QED
  BY <1>1, Invariance, PTL DEF Spec, EveryRoleHasItsRetries

-----------------------------------------------------------------------------
(* Retries: how they end, and what they are worth                              *)

\* The phases of the command, in their order.
Phase(s) ==
    CASE s = "start" -> 0  [] s \in {"api", "seed"} -> 1 [] s = "identity" -> 2
      [] s = "fetch" -> 3  [] s = "egress" -> 4          [] s = "trust" -> 5
      [] s = "signin" -> 7 [] s \in Ended -> 8           [] OTHER -> 6

\* Every step is an advance: to a later phase; in the chain to the next role; with
\* the same role to the next retry; or from an attempt to what its answer calls
\* for.  As the roles are those of a chain that no longer changes, and the retries
\* at most MaxRetries of each, the command ends (sts.go:171-211).
Advances ==
    \/ Phase(pc') > Phase(pc)
    \/ /\ Phase(pc) = 6 /\ Phase(pc') = 6
       /\ sequence' = sequence /\ step \in 1..Len(sequence.chain)
       /\ \/ step' = step + 1 /\ step' \in 1..Len(sequence.chain)
          \/ step' = step /\ retries' = retries + 1 /\ retries' <= MaxRetries
          \/ /\ step' = step /\ retries' = retries
             /\ pc = "assume" /\ pc' \in {"backoff", "client"}

EveryStepAdvances == [][Advances]_vars

\* What a client is made of in truth: of what the comment at sts.go:157 says, but
\* for the retries of the first role, whose client is made of no credentials.
ClientCredentials ==
    pc = "assume" =>
        client.creds = IF step > 1 THEN last
                       ELSE IF retries = 0 THEN SeedCredentials ELSE NoCredentials

\* So the retries of the first role are in vain: once it was refused, the command
\* can only fail, though it makes all its retries (sts.go:181-200).
FirstRefusalIsFinal ==
    [][(step = 1 /\ refusals > 0) =>
          /\ step' = 1 /\ refusals' > 0
          /\ pc' \in {"assume", "backoff", "failed"}]_vars

\* What ClientCredentials rests on.
CredentialsInv ==
    /\ ClientCredentials
    /\ pc \in Before => step = 1 /\ retries = 0 /\ refusals = 0
    /\ pc \in {"identity", "fetch", "egress", "trust"} => client.creds = SeedCredentials
    /\ (step = 1 /\ pc \in {"assume", "backoff"}) => last = NoCredentials
    /\ (step = 1 /\ refusals > 0) => pc \in {"assume", "backoff", "failed"}

\* Only what a phase knows is used in the next.
LEMMA CredentialsInvariance == Spec => []CredentialsInv
<1>1. Init => CredentialsInv
  BY DEF Init, CredentialsInv, ClientCredentials, Before
<1>2. IInv /\ CredentialsInv /\ [Next]_vars => CredentialsInv'
  <2> SUFFICES ASSUME IInv, CredentialsInv, [Next]_vars PROVE CredentialsInv'
    OBVIOUS
  <2> USE RoleChainAssumption DEF CredentialsInv, ClientCredentials, Before
  <2>1. ASSUME NEW cluster \in Clusters, Start(cluster) PROVE CredentialsInv'
    BY <2>1 DEF Start, inputs, answers, loop
  <2>2. ASSUME NEW answer, FetchSequence(answer) PROVE CredentialsInv'
    BY <2>2 DEF FetchSequence, inputs, loop
  <2>3. ASSUME NEW ip \in IPs, CheckEgressIP(ip) PROVE CredentialsInv'
    BY <2>3 DEF CheckEgressIP, inputs, loop
  <2>4. ASSUME NEW items, VerifyTrusted(items) PROVE CredentialsInv'
    BY <2>4 DEF VerifyTrusted, inputs, loop, IInv, PathInv
  <2>5. CASE AskApi \/ CheckIdentity \/ SignIn \/ Fail
    BY <2>5 DEF AskApi, CheckIdentity, SignIn, Fail, inputs, answers, loop
  <2>6. CASE GetSeed
    BY <2>6 DEF GetSeed, inputs, answers
  <2>7. CASE Assumed
    <3>1. client.creds.valid /\ (step = 1 => refusals = 0)
      BY <2>7 DEF Assumed, Attempt, IInv, TypeOK, CountInv, NoCredentials
    <3> QED BY <2>7, <3>1 DEF Assumed, Attempt, inputs, answers
  <2>8. CASE Refused
    BY <2>8 DEF Refused, Attempt, OneMore, inputs, answers, IInv, TypeOK, CountInv
  <2>9. CASE Retry
    BY <2>9 DEF Retry, SequenceClient, inputs, answers, IInv, TypeOK
  <2>10. CASE NextRole
    BY <2>10 DEF NextRole, SequenceClient, inputs, answers, IInv, TypeOK
  <2>11. CASE UNCHANGED vars
    BY <2>11 DEF vars, inputs, answers, loop
  <2> QED BY <2>1, <2>2, <2>3, <2>4, <2>5, <2>6, <2>7, <2>8, <2>9, <2>10, <2>11
          DEF Next, Finished
<1> QED BY <1>1, <1>2, Invariance, PTL DEF Spec

\* No step goes back: whatever is refused, the command runs out of retries or of
\* roles.
THEOREM ChainOnlyAdvances == Spec => EveryStepAdvances
<1>1. IInv /\ IInv' /\ [Next]_vars => [Advances]_vars
  <2> SUFFICES ASSUME IInv, IInv', Next, ~UNCHANGED vars PROVE Advances
    OBVIOUS
  <2> USE RoleChainAssumption DEF Advances, Phase, Ended
  <2>1. CASE pc' \in Ended /\ pc \notin Ended
    BY <2>1 DEF IInv, TypeOK, Working
  <2>2. ASSUME NEW cluster \in Clusters, Start(cluster) PROVE Advances
    BY <2>2 DEF Start
  <2>3. ASSUME NEW answer, FetchSequence(answer) PROVE Advances
    BY <2>3 DEF FetchSequence
  <2>4. ASSUME NEW ip \in IPs, CheckEgressIP(ip) PROVE Advances
    BY <2>4 DEF CheckEgressIP
  <2>5. ASSUME NEW items, VerifyTrusted(items) PROVE Advances
    BY <2>5 DEF VerifyTrusted
  <2>6. CASE GetSeed \/ CheckIdentity
    BY <2>6 DEF GetSeed, CheckIdentity
  <2>7. CASE (Assumed \/ Refused) /\ pc' \notin Ended
    BY <2>7 DEF Assumed, Refused, Attempt, answers, IInv, PathInv
  <2>8. CASE Retry
    BY <2>8 DEF Retry, answers, IInv, PathInv, TypeOK, CountInv
  <2>9. CASE NextRole
    <3>1. pc = "client" /\ pc' = "assume" /\ step' = step + 1 /\ sequence' = sequence
      BY <2>9 DEF NextRole, answers
    <3>2. step \in 1..(Len(sequence.chain) - 1) /\ Len(sequence.chain) \in Nat
      BY <3>1 DEF IInv, PathInv, TypeOK, Sequences
    <3> QED BY <3>1, <3>2
  <2> QED BY <2>1, <2>2, <2>3, <2>4, <2>5, <2>6, <2>7, <2>8, <2>9
          DEF Next, Finished, AskApi, SignIn, Fail, Working, Assumed, Refused, Attempt
<1> QED BY <1>1, Invariance, PTL DEF Spec, EveryStepAdvances

\* AssumesWithPreviousCredentials, which a run refutes, fails at the retries of the
\* first role and nowhere else.
THEOREM WrongOnFirstRetriesOnly == Spec => []ClientCredentials
<1>1. CredentialsInv => ClientCredentials
  BY DEF CredentialsInv
<1> QED BY <1>1, CredentialsInvariance, PTL

\* What that costs: the first refusal of the first role decides the command.
THEOREM FirstRoleIsNotRetried == Spec => FirstRefusalIsFinal
<1>1. CredentialsInv /\ CredentialsInv' /\ IInv /\ [Next]_vars =>
        [(step = 1 /\ refusals > 0) =>
            /\ step' = 1 /\ refusals' > 0
            /\ pc' \in {"assume", "backoff", "failed"}]_vars
  <2> SUFFICES ASSUME CredentialsInv, CredentialsInv', IInv, Next,
                      step = 1, refusals > 0
               PROVE  step' = 1 /\ refusals' > 0
    BY DEF CredentialsInv
  <2>1. pc \in {"assume", "backoff", "failed"}
    BY DEF CredentialsInv
  <2> QED BY <2>1, RoleChainAssumption
    DEF Next, Start, FetchSequence, CheckEgressIP, VerifyTrusted, AskApi, GetSeed,
        CheckIdentity, Assumed, Refused, OneMore, Attempt, Retry, NextRole, SignIn,
        Fail, Finished, vars, inputs, answers, loop, IInv, TypeOK
<1> QED BY <1>1, Invariance, CredentialsInvariance, PTL DEF Spec, FirstRefusalIsFinal

-----------------------------------------------------------------------------
(* SSM sessions *)

\* The part of SsmTypeOK that is not RoleChain's, and where the command, the
\* plugin and the goroutine can be at the same time.
ChildTypes ==
    /\ stage \in Failing \cup {"off", "chain", "notify", "started",
                               "wait", "ended", "failed", "killed"}
    /\ plugin \in {"none", "running", "ended"}
    /\ process \in BOOLEAN
    /\ handler \in {"none", "waiting", "done"}
    /\ signals \in BOOLEAN
    /\ interrupts \in 0..MaxInterrupts
    /\ passedOn \in 0..1
    /\ early \in 0..MaxInterrupts

\* No request of the chain before there is a stage for it; no plugin before its
\* stage; and a goroutine that waits for signals wherever there is a plugin.
Order ==
    /\ stage \in {"validate", "fetch"} => pc = "start"
    /\ stage \in Failing \cup {"off", "chain", "notify"} => plugin = "none"
    /\ plugin # "none" => handler # "none"
    /\ stage \in {"plugin", "started", "wait"} => handler # "none"
    /\ plugin = "running" => stage \in {"started", "wait"}
    /\ early <= interrupts

SsmInv == ChildTypes /\ Order

LEMMA SsmInitInv == SsmInit => SsmInv
<1> SUFFICES ASSUME SsmInit PROVE SsmInv
  OBVIOUS
<1>1. pc = "start"
  BY DEF SsmInit, Init
<1>2. process \in BOOLEAN /\ signals \in BOOLEAN
  BY Zenon DEF SsmInit
<1>3. interrupts \in 0..MaxInterrupts /\ early \in 0..MaxInterrupts
          /\ passedOn \in 0..1 /\ early <= interrupts
  BY SsmAssumption DEF SsmInit
<1>4. plugin = "none" /\ handler = "none" /\ stage \in {"off", "validate"}
  BY DEF SsmInit
<1>5. QED
  BY <1>1, <1>2, <1>3, <1>4 DEF SsmInv, ChildTypes, Order, Failing

LEMMA SsmNextInv == SsmInv /\ [SsmNext]_allVars => SsmInv'
<1> SUFFICES ASSUME SsmInv, [SsmNext]_allVars PROVE SsmInv'
  OBVIOUS
<1> USE SsmAssumption DEF SsmInv, ChildTypes, Order, Failing
<1>1. CASE Validate
  BY <1>1 DEF Validate, Go, child, history, vars
<1>2. CASE FetchCredentials
  BY <1>2 DEF FetchCredentials, Go, child, history, vars
<1>3. CASE CloudStep
  BY <1>3 DEF CloudStep, ssmVars, child, history
<1>4. ASSUME NEW aws \in BOOLEAN, CredentialsCome(aws) PROVE SsmInv'
  BY <1>4 DEF CredentialsCome, Go, child, history, vars
<1>5. CASE CredentialsFail
  BY <1>5 DEF CredentialsFail, Go, child, history, vars
<1>6. CASE GetInstanceID
  BY <1>6 DEF GetInstanceID, Go, child, history, vars
<1>7. CASE StartSession
  BY <1>7 DEF StartSession, Go, child, history, vars
<1>8. CASE Fails
  BY <1>8 DEF Fails, child, history
<1>9. CASE Notify
  BY <1>9 DEF Notify, history, vars
<1>10. CASE StartPlugin
  BY <1>10 DEF StartPlugin, history, vars
<1>11. CASE SetProcess
  BY <1>11 DEF SetProcess, history, vars
<1>12. CASE CommandEnds
  BY <1>12 DEF CommandEnds, child, history, vars
<1>13. CASE PluginEnds
  BY <1>13 DEF PluginEnds, history, vars
<1>14. CASE PassOn
  <2>1. passedOn' \in 0..1
    <3>1. passedOn' = IF process /\ plugin = "running" THEN 1 ELSE 0
      BY <1>14 DEF PassOn
    <3>2. CASE process /\ plugin = "running"
      BY <3>1, <3>2
    <3>3. CASE ~(process /\ plugin = "running")
      BY <3>1, <3>3
    <3>4. QED
      BY <3>2, <3>3
  <2>2. signals' \in BOOLEAN
    BY <1>14, Zenon DEF PassOn
  <2>3. handler' = "done" /\ UNCHANGED <<pc, stage, plugin, process, interrupts, early>>
    BY <1>14 DEF PassOn, vars
  <2>4. QED
    BY <2>1, <2>2, <2>3
<1>15. CASE Interrupt
  <2>1. interrupts' \in 0..MaxInterrupts /\ early' \in 0..MaxInterrupts
            /\ early' <= interrupts'
    BY <1>15 DEF Interrupt
  <2>2. CASE handler = "none"
    BY <1>15, <2>1, <2>2 DEF Interrupt, vars
  <2>3. CASE handler # "none"
    BY <1>15, <2>1, <2>3 DEF Interrupt, vars
  <2>4. QED
    BY <2>2, <2>3
<1>16. CASE SsmFinished
  BY <1>16 DEF SsmFinished, allVars, ssmVars, child, history, vars
<1>17. CASE UNCHANGED allVars
  BY <1>17 DEF allVars, ssmVars, child, history, vars
<1>18. QED
  BY <1>1, <1>2, <1>3, <1>4, <1>5, <1>6, <1>7, <1>8, <1>9, <1>10, <1>11, <1>12,
     <1>13, <1>14, <1>15, <1>16, <1>17 DEF SsmNext, CommandSteps

LEMMA SsmInvariance == SsmSpec => []SsmInv
<1>1. QED
  BY SsmInitInv, SsmNextInv, PTL DEF SsmSpec

\* Every step of the command is a step of RoleChain or none at all: an error before
\* the credentials are asked for is its Fail.
LEMMA StepMaps == SsmInv /\ [SsmNext]_allVars => [Next]_vars
<1> SUFFICES ASSUME SsmInv, [SsmNext]_allVars, ~UNCHANGED vars PROVE Next
  OBVIOUS
<1>1. CASE CloudStep
  BY <1>1 DEF CloudStep
<1>2. CASE Fails
  <2>1. stage \in {"validate", "fetch"}
    BY <1>2 DEF Fails, vars
  <2>2. pc = "start" /\ pc' = "failed"
    BY <1>2, <2>1 DEF Fails, SsmInv, Order
  <2>3. Fail
    BY <1>2, <2>2 DEF Fails, Fail, Working
  <2>4. QED
    BY <2>3 DEF Next
<1>3. QED
  BY <1>1, <1>2 DEF SsmNext, CommandSteps, Validate, FetchCredentials,
     CredentialsCome, CredentialsFail, GetInstanceID, StartSession, Notify,
     StartPlugin, SetProcess, CommandEnds, PluginEnds, PassOn, Interrupt,
     SsmFinished, allVars

\* The session command implements the chain of roles: what holds of the
\* credentials of cloud credentials holds of those a session is started with.
THEOREM SsmImplementsRoleChain == SsmSpec => Spec
<1>1. SsmInit => Init
  BY DEF SsmInit
<1>2. QED
  BY <1>1, SsmInvariance, StepMaps, PTL DEF SsmSpec, Spec

\* Type correctness of the command, its plugin and its goroutine.
THEOREM SsmTypeCorrect == SsmSpec => []SsmTypeOK
<1>1. TypeOK /\ SsmInv => SsmTypeOK
  BY DEF SsmInv, ChildTypes, SsmTypeOK
<1>2. QED
  BY <1>1, SsmImplementsRoleChain, TypeCorrect, SsmInvariance, PTL

\* However many signals come and whenever they do, none ends the command while
\* the plugin runs (ssm.go:270-299).
THEOREM CommandOutlivesPlugin == SsmSpec => []OutlivesThePlugin
<1>1. SsmInv => OutlivesThePlugin
  BY DEF SsmInv, Order, OutlivesThePlugin
<1>2. QED
  BY <1>1, SsmInvariance, PTL

\* A session is started only with credentials that went through the whole chain.
THEOREM SessionsHaveTheWholeChain == SsmSpec => []EndsWithTheWholeChain
<1>1. QED
  BY SsmImplementsRoleChain, WholeChain, PTL

\* What FirstInterruptIsPassedOn rests on: a first SIGINT that comes when the
\* process is known waits in the channel for a goroutine that knows it too, until
\* it has been passed on; no other signal, and no step of the command, takes its
\* place (ssm.go:275-296).
FirstInterruptIsHeld ==
    (plugin = "running" /\ interrupts > 0 /\ early = 0) =>
        passedOn = 1 \/ (signals /\ handler = "waiting" /\ process)

\* Signals come of interrupts, and the process is known once it is there.
HeldInv ==
    /\ FirstInterruptIsHeld
    /\ (interrupts > 0 /\ early = 0) => process
    /\ interrupts = 0 => ~signals /\ handler # "done"
    /\ process => plugin # "none" /\ stage \in {"wait", "ended"}
    /\ stage = "started" => plugin # "none"

LEMMA HeldInvariance == SsmSpec => []HeldInv
<1>1. SsmInit => HeldInv
  BY DEF SsmInit, HeldInv, FirstInterruptIsHeld
<1>2. SsmInv /\ HeldInv /\ [SsmNext]_allVars => HeldInv'
  <2> SUFFICES ASSUME SsmInv, HeldInv, [SsmNext]_allVars PROVE HeldInv'
    OBVIOUS
  <2> USE SsmAssumption DEF SsmInv, ChildTypes, Order, HeldInv, FirstInterruptIsHeld
  <2>1. CASE UNCHANGED ssmVars
    BY <2>1 DEF ssmVars, child, history
  <2>2. ASSUME NEW from, NEW to, Go(from, to), to \notin {"started", "wait", "ended"},
               from \notin {"wait", "ended"}
        PROVE  HeldInv'
    BY <2>2 DEF Go, child, history
  <2>3. CASE Fails
    BY <2>3 DEF Fails, Failing, child, history
  <2>4. CASE Notify
    BY <2>4 DEF Notify, history
  <2>5. CASE StartPlugin
    BY <2>5 DEF StartPlugin, history
  <2>6. CASE SetProcess
    <3>1. /\ ~process /\ (interrupts > 0 => early # 0) /\ plugin # "none"
      BY <2>6 DEF SetProcess
    <3> QED BY <2>6, <3>1 DEF SetProcess, history
  <2>7. CASE CommandEnds
    BY <2>7 DEF CommandEnds, child, history
  <2>8. CASE PluginEnds
    BY <2>8 DEF PluginEnds, history
  <2>9. CASE PassOn
    BY <2>9 DEF PassOn
  <2>10. CASE Interrupt
    BY <2>10 DEF Interrupt
  <2> QED BY <2>1, <2>2, <2>3, <2>4, <2>5, <2>6, <2>7, <2>8, <2>9, <2>10
          DEF SsmNext, CommandSteps, Validate, FetchCredentials, CloudStep,
              CredentialsCome, CredentialsFail, GetInstanceID, StartSession,
              SsmFinished, allVars
<1> QED BY <1>1, <1>2, SsmInvariance, PTL DEF SsmSpec

\* The signal is not lost on its way to the plugin.
THEOREM InterruptIsHeld == SsmSpec => []FirstInterruptIsHeld
<1>1. HeldInv => FirstInterruptIsHeld
  BY DEF HeldInv
<1> QED BY <1>1, HeldInvariance, PTL
=============================================================================
