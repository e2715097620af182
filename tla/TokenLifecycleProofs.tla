------------------------ MODULE TokenLifecycleProofs ------------------------
(***************************************************************************)
(* Proofs about TokenLifecycle, for any number of reads and of events: the *)
(* signal a rejected token causes is never lost, and a refusal is blamed   *)
(* on the secret only when OpenBao denied the secret.                      *)
(***************************************************************************)
EXTENDS TokenLifecycle, TLAPS

\* Tokens are issued in order, and a token that is gone never comes back.
TokensInOrder ==
  /\ valid \subseteq 1..issued
  /\ token \in 0..issued
  /\ rejected \subseteq 0..issued
  /\ rejected \cap valid = {}

\* What a read has learnt stays true while it is under way.
ReadSound(r) ==
  /\ r.pc # "idle" => r.token \in 0..issued
  /\ r.pc \in {"forbidden", "probing", "probed"} /\ r.cause = "token"
       => r.token \notin valid
  /\ r.pc \in {"probing", "probed"} => r.probe \in 0..issued
  /\ r.pc = "probed" =>
       /\ r.verdict = "rejected" => r.probe \notin valid
       /\ r.verdict = "valid" /\ r.probe = r.token => r.cause = "secret"

\* A report waits in the channel for the lifecycle, all the time when the token
\* cannot be replaced, and while it watches when it can.
ReportKept ==
  \/ lifecycle = "watching"
  \/ ~CanRelogin /\ lifecycle \notin {"signaled", "stopped", "failed"}
  => (token \in rejected => reauth)

TokenInv ==
  /\ TypeOK
  /\ TokensInOrder
  /\ \A q \in Requests : ReadSound(reads[q])
  /\ ReportKept
  /\ reauth \/ lifecycle = "signaled" => rejected # {}
  /\ RefusalBlamesTheSecret

-----------------------------------------------------------------------------
\* The two answers to a 403 are told apart by Authoritative.
LEMMA ForbiddenIsAuthoritative ==
  Authoritative(Forbidden) /\ ~Authoritative(TokenFault)
BY DEF Authoritative, Retryable, Forbidden, TokenFault

\* A token nobody has yet is none of the tokens known so far.
LEMMA IssueKeepsReads ==
  ASSUME TokenInv, issued' = issued + 1, valid' = valid \cup {issued + 1},
         reads' = reads
  PROVE  /\ TokensInOrder => /\ valid' \subseteq 1..issued'
                             /\ rejected \subseteq 0..issued'
                             /\ rejected \cap valid' = {}
         /\ \A q \in Requests : ReadSound(reads[q])'
<1>1. issued \in Nat
  BY DEF TokenInv, TypeOK
<1>2. \A t \in 0..issued : t \in 0..(issued + 1) /\ t # issued + 1
  BY <1>1
<1>3. ASSUME NEW q \in Requests PROVE ReadSound(reads[q])'
  <2>1. ReadSound(reads[q])
    BY DEF TokenInv
  <2> QED  BY <1>2, <2>1 DEF ReadSound
<1> QED  BY <1>1, <1>2, <1>3 DEF TokensInOrder

\* Steps that leave OpenBao's tokens and the reads alone keep what the reads
\* have learnt.
LEMMA ReadsUnchanged ==
  ASSUME TokenInv, valid' = valid, issued' = issued, reads' = reads
  PROVE  \A q \in Requests : ReadSound(reads[q])'
BY DEF TokenInv, ReadSound

\* A step of one read keeps what the others have learnt.
LEMMA OneReadMoves ==
  ASSUME TokenInv, NEW q \in Requests, NEW r,
         reads' = [reads EXCEPT ![q] = r], ReadSound(r),
         r \in {Idle} \cup Sent \cup Denied \cup Probing \cup Probed,
         valid' = valid, issued' = issued
  PROVE  /\ \A p \in Requests : ReadSound(reads[p])'
         /\ reads' \in [Requests ->
              {Idle} \cup Sent \cup Denied \cup Probing \cup Probed]
<1>1. reads \in [Requests ->
         {Idle} \cup Sent \cup Denied \cup Probing \cup Probed]
  BY DEF TokenInv, TypeOK
<1>2. \A p \in Requests : reads'[p] = IF p = q THEN r ELSE reads[p]
  BY <1>1
<1>3. \A p \in Requests : ReadSound(reads'[p])
  BY <1>2 DEF TokenInv
<1> QED  BY <1>1, <1>3 DEF ReadSound

\* The record of a read says where it stands.
LEMMA ReadShapes ==
  ASSUME TypeOK, NEW q \in Requests
  PROVE  /\ reads[q].pc = "sent" => reads[q] \in Sent
         /\ reads[q].pc = "forbidden" => reads[q] \in Denied
         /\ reads[q].pc = "probing" => reads[q] \in Probing
         /\ reads[q].pc = "probed" => reads[q] \in Probed
BY DEF TypeOK, Idle, Sent, Denied, Probing, Probed

\* The invariant holds initially.
LEMMA TokenInit == Init => TokenInv
<1> SUFFICES ASSUME Init PROVE TokenInv
  OBVIOUS
<1>1. TypeOK
  <2>1. issued \in {0, 1} /\ valid = 1..issued /\ token = issued
    BY DEF Init
  <2>2. issued \in Nat /\ valid \subseteq Token /\ token \in Token
    BY <2>1 DEF Token
  <2>3. lifecycle \in States /\ reads \in [Requests -> {Idle}]
    BY DEF Init, States
  <2> QED  BY <2>2, <2>3 DEF Init, TypeOK
<1>2. TokensInOrder
  BY DEF Init, TokensInOrder
<1>3. \A q \in Requests : ReadSound(reads[q])
  BY DEF Init, ReadSound, Idle
<1> QED  BY <1>1, <1>2, <1>3
         DEF Init, TokenInv, ReportKept, RefusalBlamesTheSecret, Nothing

\* A step of the lifecycle that neither logs in nor ends a token.
LEMMA LifecycleStep ==
  ASSUME TokenInv,
         \/ CheckToken \/ FailStart \/ FirstRenewal \/ FirstRenewalRefused
         \/ TakeSignal \/ EndLease \/ FailRenewal \/ RetryRenewal
         \/ GiveUpToken \/ Drain \/ Cancel \/ Stop
  PROVE  TokenInv'
<1> USE DEF TokenInv
<1>1. /\ UNCHANGED <<method, kind, valid, issued, denied, token, reads,
                     rejected>>
      /\ out' = Nothing /\ events' \in Nat
      /\ lifecycle' \in States /\ canceled' \in BOOLEAN /\ reauth' \in BOOLEAN
  <2> USE DEF TypeOK, server, States
  <2>1. CASE CheckToken \/ FailStart \/ FirstRenewalRefused \/ RetryRenewal
             \/ GiveUpToken
    BY <2>1 DEF CheckToken, FailStart, FirstRenewalRefused, RetryRenewal,
                GiveUpToken, Go
  <2>2. CASE FirstRenewal
    BY <2>2 DEF FirstRenewal, Go
  <2>3. CASE EndLease \/ FailRenewal
    BY <2>3 DEF EndLease, FailRenewal, Go, Event
  <2>4. CASE TakeSignal \/ Drain
    BY <2>4 DEF TakeSignal, Drain, Go
  <2>5. CASE Cancel
    BY <2>5 DEF Cancel
  <2>6. CASE Stop
    BY <2>6 DEF Stop
  <2> QED  BY <2>1, <2>2, <2>3, <2>4, <2>5, <2>6
<1>2. TypeOK' /\ TokensInOrder' /\ RefusalBlamesTheSecret'
  BY <1>1 DEF TypeOK, TokensInOrder, RefusalBlamesTheSecret, Nothing
<1>3. \A q \in Requests : ReadSound(reads[q])'
  BY <1>1, ReadsUnchanged
<1>4. ReportKept'
  BY <1>1 DEF CheckToken, FailStart, FirstRenewal, FirstRenewalRefused,
         TakeSignal, EndLease, FailRenewal, RetryRenewal, GiveUpToken, Drain,
         Cancel, Stop, Go, server, ReportKept, CanRelogin, TokensInOrder
<1>5. reauth' \/ lifecycle' = "signaled" => rejected' # {}
  BY <1>1 DEF CheckToken, FailStart, FirstRenewal, FirstRenewalRefused,
         TakeSignal, EndLease, FailRenewal, RetryRenewal, GiveUpToken, Drain,
         Cancel, Stop, Go, server
<1> QED  BY <1>2, <1>3, <1>4, <1>5

\* A login, whether its answer arrives or not.
LEMMA LoginStep == ASSUME TokenInv, Login \/ LoseLogin PROVE TokenInv'
<1> USE DEF TokenInv
<1>1. /\ UNCHANGED <<method, kind, denied, reads, rejected, canceled, reauth>>
      /\ issued' = issued + 1 /\ valid' = valid \cup {issued + 1}
      /\ out' = Nothing /\ events' \in Nat /\ token' \in {token, issued + 1}
      /\ lifecycle' \in {lifecycle, "watching"}
  BY DEF Login, LoseLogin, Go, client, TypeOK, Event
<1>2. /\ valid' \subseteq 1..issued' /\ rejected \subseteq 0..issued'
      /\ rejected \cap valid' = {}
      /\ \A q \in Requests : ReadSound(reads[q])'
  BY <1>1, IssueKeepsReads
<1>3. TypeOK'
  BY <1>1 DEF TypeOK, Token, States
<1>4. TokensInOrder'
  BY <1>1, <1>2 DEF TokensInOrder, TypeOK
<1>5. issued + 1 \notin rejected
  BY DEF TokensInOrder, TypeOK
<1>6. ReportKept'
  BY <1>1, <1>5 DEF Login, LoseLogin, Go, client, ReportKept, CanRelogin
<1>7. reauth' \/ lifecycle' = "signaled" => rejected' # {}
  BY <1>1
<1>8. RefusalBlamesTheSecret'
  BY <1>1 DEF RefusalBlamesTheSecret, Nothing
<1> QED  BY <1>2, <1>3, <1>4, <1>6, <1>7, <1>8

\* A token ends, or the policy changes.
LEMMA ServerStep ==
  ASSUME TokenInv, ChangePolicy \/ \E t \in valid : Expire(t)
  PROVE  TokenInv'
<1> USE DEF TokenInv
<1>1. /\ UNCHANGED <<client, issued, reads, rejected>>
      /\ valid' \subseteq valid /\ denied' \in BOOLEAN
      /\ out' = Nothing /\ events' \in Nat
  <2>1. CASE ChangePolicy
    BY <2>1 DEF ChangePolicy, TypeOK, Event
  <2>2. ASSUME NEW t \in valid, Expire(t)
        PROVE  /\ UNCHANGED <<client, issued, reads, rejected>>
               /\ valid' \subseteq valid /\ denied' \in BOOLEAN
               /\ out' = Nothing /\ events' \in Nat
    BY <2>2 DEF Expire, TypeOK, Event
  <2> QED  BY <2>1, <2>2
<1>2. \A q \in Requests : ReadSound(reads[q])'
  BY <1>1 DEF ReadSound
<1>3. TypeOK' /\ TokensInOrder'
  BY <1>1 DEF TypeOK, TokensInOrder, client
<1> QED  BY <1>1, <1>2, <1>3
         DEF client, ReportKept, CanRelogin, RefusalBlamesTheSecret, Nothing

\* A read up to the answer of its probe.
LEMMA ReadStep ==
  ASSUME TokenInv, NEW q \in Requests,
         Send(q) \/ Finish(q) \/ Forbid(q) \/ Probe(q) \/ AnswerProbe(q)
  PROVE  TokenInv'
<1>1. /\ UNCHANGED <<server, client, rejected>> /\ out' = Nothing
  BY DEF Send, Finish, Forbid, Probe, AnswerProbe
<1>2. valid' = valid /\ issued' = issued /\ token \in 0..issued
      /\ token \in Token /\ ReadSound(reads[q])
  BY <1>1 DEF server, TokenInv, TokensInOrder, TypeOK
<1> DEFINE Read == {Idle} \cup Sent \cup Denied \cup Probing \cup Probed
<1>3. \E r \in Read : reads' = [reads EXCEPT ![q] = r] /\ ReadSound(r)
  <2>1. CASE Send(q)
    <3> DEFINE r == [pc |-> "sent", token |-> token]
    <3>1. r \in Read /\ ReadSound(r)
      BY <1>2 DEF Sent, ReadSound
    <3> QED  BY <2>1, <3>1 DEF Send
  <2>2. CASE Finish(q)
    <3>1. Idle \in Read /\ ReadSound(Idle)
      BY DEF Idle, ReadSound
    <3> QED  BY <2>2, <3>1 DEF Finish
  <2>3. CASE Forbid(q)
    <3> DEFINE r == [pc |-> "forbidden", token |-> reads[q].token,
                     cause |-> IF reads[q].token \in valid THEN "secret"
                                                           ELSE "token"]
    <3>1. reads[q] \in Sent
      BY <2>3, ReadShapes DEF Forbid, TokenInv
    <3>2. r \in Read /\ ReadSound(r)
      BY <1>2, <3>1 DEF Sent, Denied, Causes, ReadSound
    <3> QED  BY <2>3, <3>2 DEF Forbid
  <2>4. CASE Probe(q)
    <3> DEFINE r == [pc |-> "probing", token |-> reads[q].token,
                     cause |-> reads[q].cause, probe |-> token]
    <3>1. reads[q] \in Denied
      BY <2>4, ReadShapes DEF Probe, TokenInv
    <3>2. r \in Read /\ ReadSound(r)
      BY <1>2, <3>1 DEF Denied, Probing, Causes, ReadSound
    <3> QED  BY <2>4, <3>2 DEF Probe
  <2>5. CASE AnswerProbe(q)
    <3>1. PICK verdict \in {"unanswered", IF reads[q].probe \in valid
                                          THEN "valid" ELSE "rejected"} :
            reads' = [reads EXCEPT ![q] =
              [pc |-> "probed", token |-> reads[q].token,
               cause |-> reads[q].cause, probe |-> reads[q].probe,
               verdict |-> verdict]]
      BY <2>5 DEF AnswerProbe
    <3> DEFINE r == [pc |-> "probed", token |-> reads[q].token,
                     cause |-> reads[q].cause, probe |-> reads[q].probe,
                     verdict |-> verdict]
    <3>2. reads[q] \in Probing
      BY <2>5, ReadShapes DEF AnswerProbe, TokenInv
    <3>3. r \in Read
      BY <3>1, <3>2 DEF Probing, Probed, Causes
    <3>4. ReadSound(r)
      BY <1>2, <3>1, <3>2 DEF Probing, Causes, ReadSound
    <3> QED  BY <3>1, <3>3, <3>4
  <2> QED  BY <2>1, <2>2, <2>3, <2>4, <2>5
<1>4. /\ \A p \in Requests : ReadSound(reads[p])'
      /\ reads' \in [Requests -> Read]
  BY <1>2, <1>3, OneReadMoves
<1>5. TypeOK' /\ TokensInOrder'
  BY <1>1, <1>4 DEF TokenInv, TypeOK, TokensInOrder, server, client
<1> QED  BY <1>1, <1>4, <1>5
         DEF TokenInv, client, ReportKept, CanRelogin, RefusalBlamesTheSecret,
             Nothing

\* What a read makes of its probe's answer.
LEMMA ClassifyStep ==
  ASSUME TokenInv, NEW q \in Requests, Classify(q)
  PROVE  TokenInv'
<1> DEFINE r == reads[q]
<1>1. r \in Probed /\ ReadSound(r)
  BY ReadShapes DEF Classify, TokenInv
<1>2. /\ UNCHANGED <<server, method, kind, token, lifecycle, canceled>>
      /\ reads' = [reads EXCEPT ![q] = Idle]
      /\ reauth' = (reauth \/ r.verdict = "rejected")
      /\ rejected' = IF r.verdict = "rejected" THEN rejected \cup {r.probe}
                                               ELSE rejected
      /\ out' = [err |-> IF r.verdict = "valid" THEN Forbidden ELSE TokenFault,
                 token |-> r.token, probe |-> r.probe, cause |-> r.cause]
  BY DEF Classify, Signals, Stands
<1>3. valid' = valid /\ issued' = issued
  BY <1>2 DEF server
<1>4. ReadSound(Idle)
  BY DEF ReadSound, Idle
<1>5. /\ \A p \in Requests : ReadSound(reads[p])'
      /\ reads' \in [Requests ->
           {Idle} \cup Sent \cup Denied \cup Probing \cup Probed]
  BY <1>2, <1>3, <1>4, OneReadMoves
<1>6. out' \in Classified
  BY <1>1, <1>2 DEF Probed, Classified
<1>7. reauth' \in BOOLEAN
  BY <1>2 DEF TokenInv, TypeOK
<1>8. rejected' \subseteq Token
  BY <1>1, <1>2 DEF Probed, TokenInv, TypeOK
<1>9. TypeOK'
  BY <1>2, <1>5, <1>6, <1>7, <1>8 DEF TokenInv, TypeOK, server
<1>10. TokensInOrder'
  BY <1>1, <1>2, <1>3 DEF TokenInv, TokensInOrder, ReadSound, Probed
<1>11. ReportKept'
  BY <1>2 DEF TokenInv, ReportKept, CanRelogin
<1>12. reauth' \/ lifecycle' = "signaled" => rejected' # {}
  BY <1>2 DEF TokenInv
<1>13. RefusalBlamesTheSecret'
  BY <1>1, <1>2, ForbiddenIsAuthoritative
     DEF RefusalBlamesTheSecret, ReadSound, Probed
<1> QED  BY <1>5, <1>9, <1>10, <1>11, <1>12, <1>13 DEF TokenInv

\* Every step keeps the invariant.
LEMMA TokenStep == TokenInv /\ [Next]_vars => TokenInv'
<1> SUFFICES ASSUME TokenInv, [Next]_vars PROVE TokenInv'
  OBVIOUS
<1>1. CASE UNCHANGED vars
  <2>1. \A q \in Requests : ReadSound(reads[q])'
    BY <1>1, ReadsUnchanged DEF vars
  <2> QED  BY <1>1, <2>1 DEF vars, TokenInv, TypeOK, TokensInOrder, ReportKept,
                             CanRelogin, RefusalBlamesTheSecret
<1>2. CASE Next
  BY <1>2, LifecycleStep, LoginStep, ServerStep, ReadStep, ClassifyStep
     DEF Next, Lifecycle
<1> QED  BY <1>1, <1>2

\* In every behaviour a report of a rejected token reaches the lifecycle.
THEOREM ReportsAreKept == Spec => []ReportedTokenIsNotWaitedOn
<1>1. TokenInv => ReportedTokenIsNotWaitedOn
  BY DEF TokenInv, ReportKept, ReportedTokenIsNotWaitedOn
<1> QED  BY TokenInit, TokenStep, <1>1, PTL DEF Spec

\* The client and its lifecycle are well typed in every behaviour.
THEOREM TokenTypeCorrect == Spec => []TypeOK
<1>1. TokenInv => TypeOK
  BY DEF TokenInv
<1> QED  BY TokenInit, TokenStep, <1>1, PTL DEF Spec

\* In every behaviour a refusal on the token that was probed is the secret's.
THEOREM RefusalsBlameTheSecret == Spec => []RefusalBlamesTheSecret
<1>1. TokenInv => RefusalBlamesTheSecret
  BY DEF TokenInv
<1> QED  BY TokenInit, TokenStep, <1>1, PTL DEF Spec

\* In every behaviour only OpenBao's rejection of a token ends its use early.
THEOREM SignalsHaveCauses == Spec => []SignalHasCause
<1>1. TokenInv => SignalHasCause
  BY DEF TokenInv, TokensInOrder, SignalHasCause
<1> QED  BY TokenInit, TokenStep, <1>1, PTL DEF Spec
=============================================================================
