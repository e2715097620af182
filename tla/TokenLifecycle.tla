--------------------------- MODULE TokenLifecycle ---------------------------
(***************************************************************************)
(* bao.Client: one token, the goroutine that keeps it fresh, and the reads *)
(* that find out it was rejected.  A read that gets a 403 probes the token *)
(* with lookup-self, and only a probe that is refused itself signals the   *)
(* lifecycle, over a channel that holds one signal.                        *)
(*                                                                         *)
(* A token is a number, in the order OpenBao issued them.  Any call can go *)
(* unanswered at any time; waits and backoffs can take any time, so a      *)
(* retry that changes nothing is a stuttering step.                        *)
(***************************************************************************)
EXTENDS Integers, BaoErrors

CONSTANTS
  Requests,   \* reads that can overlap
  Methods,    \* the ways to authenticate that are exercised
  Kinds,      \* the kinds of token OpenBao gives out
  MaxEvents   \* bound on the ends of tokens and renewals, and lost logins

\* token_file holds a token the operator owns; login stands for approle, cert
\* and jwt, which can acquire another.
ASSUME LifecycleAssumptions ==
  /\ Methods \subseteq {"token_file", "login"}
  /\ Kinds \subseteq {"forever", "renewable", "fixed"}
  /\ MaxEvents \in Nat

VARIABLES
  method,     \* config.Auth.Method
  kind,       \* the role's tokens: without an end, renewable, or neither
  valid,      \* OpenBao: the live tokens
  issued,     \* OpenBao: how many tokens were issued so far
  denied,     \* OpenBao: the policy denies the secret
  events,     \* how many events of MaxEvents happened
  token,      \* the token the client sends
  reauth,     \* a signal is in the reauth channel
  lifecycle,  \* where authenticate and the lifecycle goroutine stand
  canceled,   \* the client's context
  reads,      \* ReadSecret calls
  out,        \* the classified error of the last step, if a 403 was classified
  rejected    \* history: tokens whose rejection a read has returned

vars == <<method, kind, valid, issued, denied, events, token, reauth,
          lifecycle, canceled, reads, out, rejected>>

server == <<valid, issued, denied, events>>
client == <<method, kind, token, reauth, lifecycle, canceled>>

Token == Nat

\* starting: the first login or check; renewing: the first renewal of a token
\* from token_file; watching: waitToken or renewUntilExpiry; then how that
\* ended; relogin: the next login; stopped: the goroutine returned; failed:
\* New returned an error.
States == {"starting", "renewing", "watching", "ended", "signaled",
           "renewFailed", "relogin", "stopped", "failed"}

Idle == [pc |-> "idle"]
\* A read: sent with a token, forbidden for a cause, its probe sent with a
\* token, that probe answered.
Causes  == {"token", "secret"}
Sent    == [pc : {"sent"}, token : Token]
Denied  == [pc : {"forbidden"}, token : Token, cause : Causes]
Probing == [pc : {"probing"}, token : Token, cause : Causes, probe : Token]
Probed  == [pc : {"probed"}, token : Token, cause : Causes, probe : Token,
            verdict : {"valid", "rejected", "unanswered"}]
Nothing == [err |-> Nil]
Classified == [err : {Forbidden, TokenFault}, token : Token, probe : Token,
               cause : Causes]

TypeOK ==
  /\ method \in Methods
  /\ kind \in Kinds
  /\ valid \subseteq Token /\ issued \in Nat /\ denied \in BOOLEAN
  /\ events \in Nat
  /\ token \in Token /\ reauth \in BOOLEAN
  /\ lifecycle \in States /\ canceled \in BOOLEAN
  /\ reads \in [Requests ->
                {Idle} \cup Sent \cup Denied \cup Probing \cup Probed]
  /\ out \in {Nothing} \cup Classified
  /\ rejected \subseteq Token

\* A token from token_file is there before the daemon is.
Init ==
  /\ method \in Methods /\ kind \in Kinds
  /\ issued = (IF method = "token_file" THEN 1 ELSE 0)
  /\ valid = 1..issued /\ token = issued
  /\ denied \in BOOLEAN /\ events = 0
  /\ reauth = FALSE /\ lifecycle = "starting" /\ canceled = FALSE
  /\ reads = [q \in Requests |-> Idle]
  /\ out = Nothing /\ rejected = {}

CanRelogin == method # "token_file"

-----------------------------------------------------------------------------
\* OpenBao.

Event == events < MaxEvents /\ events' = events + 1

\* A token expires or is revoked.
Expire(t) ==
  /\ Event
  /\ valid' = valid \ {t}
  /\ out' = Nothing
  /\ UNCHANGED <<issued, denied, client, reads, rejected>>

\* The policy of the token's role changes.
ChangePolicy ==
  /\ Event
  /\ denied' = ~denied
  /\ out' = Nothing
  /\ UNCHANGED <<valid, issued, client, reads, rejected>>

-----------------------------------------------------------------------------
\* authenticate and the lifecycle.

\* The lifecycle goes from one of the given states to the next.
Go(from, to) ==
  /\ lifecycle \in from
  /\ lifecycle' = to
  /\ out' = Nothing
  /\ UNCHANGED <<method, kind, canceled, reads, rejected>>

\* A login OpenBao answers: the token is the client's from here on, though its
\* context may have been canceled while the answer was on its way.
Login ==
  /\ CanRelogin
  /\ Go({"starting", "relogin"}, "watching")
  /\ issued' = issued + 1
  /\ valid' = valid \cup {issued + 1}
  /\ token' = issued + 1
  /\ UNCHANGED <<denied, events, reauth>>

\* A login whose answer is lost leaves a token nobody holds.
LoseLogin ==
  /\ CanRelogin
  /\ lifecycle \in {"starting", "relogin"}
  /\ Event
  /\ issued' = issued + 1
  /\ valid' = valid \cup {issued + 1}
  /\ out' = Nothing
  /\ UNCHANGED <<denied, client, reads, rejected>>

\* The token check of token_file passes.
CheckToken ==
  /\ ~CanRelogin /\ token \in valid
  /\ Go({"starting"}, "renewing")
  /\ UNCHANGED <<server, token, reauth>>

\* With failFast a definitive failure ends New: a rejection, or a certificate
\* that does not verify.
FailStart ==
  /\ Go({"starting"}, "failed")
  /\ UNCHANGED <<server, token, reauth>>

\* renewStaticToken: the first renewal.  A token without an end has no
\* lifecycle of its own, a definitive refusal ends it.
FirstRenewal ==
  /\ token \in valid
  /\ Go({"renewing"}, IF kind = "forever" THEN "stopped" ELSE "watching")
  /\ UNCHANGED <<server, token, reauth>>

FirstRenewalRefused ==
  /\ Go({"renewing"}, "stopped")
  /\ UNCHANGED <<server, token, reauth>>

\* The wait ends on a signal, which it takes from the channel.
TakeSignal ==
  /\ reauth
  /\ Go({"watching"}, "signaled")
  /\ reauth' = FALSE
  /\ UNCHANGED <<server, token>>

\* The lease was waited out, or renewed as far as it goes.
EndLease ==
  /\ kind # "forever"
  /\ Go({"watching"}, "ended")
  /\ Event
  /\ UNCHANGED <<valid, issued, denied, token, reauth>>

FailRenewal ==
  /\ kind = "renewable"
  /\ Go({"watching"}, "renewFailed")
  /\ Event
  /\ UNCHANGED <<valid, issued, denied, token, reauth>>

\* Mutant: the channel is drained whichever way the lifecycle goes on.
RetryRenewalDraining ==
  /\ ~CanRelogin
  /\ Go({"renewFailed"}, "watching")
  /\ reauth' = FALSE
  /\ UNCHANGED <<server, token>>

\* After the backoff a token that cannot be replaced is renewed again if the
\* failure was transient.
RetryRenewal ==
  /\ ~CanRelogin
  /\ Go({"renewFailed"}, "watching")
  /\ UNCHANGED <<server, token, reauth>>

GiveUpToken ==
  /\ ~CanRelogin
  /\ Go({"ended", "signaled", "renewFailed"}, "stopped")
  /\ UNCHANGED <<server, token, reauth>>

\* Unless the client is done for, drainReauth and then the login.
Drain ==
  /\ CanRelogin /\ ~canceled
  /\ Go({"ended", "signaled", "renewFailed"}, "relogin")
  /\ reauth' = FALSE
  /\ UNCHANGED <<server, token>>

\* A reload or the shutdown is done with the client.
Cancel ==
  /\ lifecycle # "failed" /\ ~canceled
  /\ canceled' = TRUE
  /\ out' = Nothing
  /\ UNCHANGED <<server, method, kind, token, reauth, lifecycle, reads, rejected>>

Stop ==
  /\ canceled /\ lifecycle \notin {"stopped", "failed"}
  /\ lifecycle' = IF lifecycle = "starting" THEN "failed" ELSE "stopped"
  /\ out' = Nothing
  /\ UNCHANGED <<server, method, kind, token, reauth, canceled, reads, rejected>>

-----------------------------------------------------------------------------
\* Reads.  New has returned before the first one.

Send(q) ==
  /\ reads[q].pc = "idle" /\ lifecycle \notin {"starting", "failed"}
  /\ reads' = [reads EXCEPT ![q] = [pc |-> "sent", token |-> token]]
  /\ out' = Nothing
  /\ UNCHANGED <<server, client, rejected>>

\* Data, or an error that classifyForbidden passes on.
Finish(q) ==
  /\ reads[q].pc = "sent"
  /\ reads' = [reads EXCEPT ![q] = Idle]
  /\ out' = Nothing
  /\ UNCHANGED <<server, client, rejected>>

\* OpenBao rejects the token, or denies what it asks for.
Forbid(q) ==
  /\ reads[q].pc = "sent"
  /\ reads[q].token \notin valid \/ denied
  /\ reads' = [reads EXCEPT ![q] =
       [pc |-> "forbidden", token |-> @.token,
        cause |-> IF @.token \in valid THEN "secret" ELSE "token"]]
  /\ out' = Nothing
  /\ UNCHANGED <<server, client, rejected>>

\* lookupToken asks about the token the client holds by now.
Probe(q) ==
  /\ reads[q].pc = "forbidden"
  /\ reads' = [reads EXCEPT ![q] =
       [pc |-> "probing", token |-> @.token, cause |-> @.cause,
        probe |-> token]]
  /\ out' = Nothing
  /\ UNCHANGED <<server, client, rejected>>

AnswerProbe(q) ==
  /\ reads[q].pc = "probing"
  /\ \E verdict \in {"unanswered",
                     IF reads[q].probe \in valid THEN "valid" ELSE "rejected"} :
       reads' = [reads EXCEPT ![q] =
         [pc |-> "probed", token |-> @.token, cause |-> @.cause,
          probe |-> @.probe, verdict |-> verdict]]
  /\ out' = Nothing
  /\ UNCHANGED <<server, client, rejected>>

\* Mutants: a probe without an answer counts as a rejected or as a good token.
SignalsUnlessValid(verdict)  == verdict # "valid"
StandsUnlessRejected(verdict) == verdict # "rejected"

\* What the probe's answer does: signal the lifecycle, let the refusal stand.
Signals(verdict) == verdict = "rejected"
Stands(verdict)  == verdict = "valid"

\* Mutant: a probe that succeeds returns its own error, nil, for the refusal.
ClassifyReturningLookup(q) ==
  LET r == reads[q] IN
  /\ r.pc = "probed"
  /\ out' = [err |-> IF Stands(r.verdict) THEN Nil ELSE TokenFault,
             token |-> r.token, probe |-> r.probe, cause |-> r.cause]
  /\ reauth' = (reauth \/ Signals(r.verdict))
  /\ rejected' = IF r.verdict = "rejected" THEN rejected \cup {r.probe}
                                           ELSE rejected
  /\ reads' = [reads EXCEPT ![q] = Idle]
  /\ UNCHANGED <<server, method, kind, token, lifecycle, canceled>>

\* classifyForbidden from the probe's answer on: the refusal stands, or blames
\* the token, with a signal if OpenBao rejected it.
Classify(q) ==
  LET r == reads[q] IN
  /\ r.pc = "probed"
  /\ out' = [err |-> IF Stands(r.verdict) THEN Forbidden ELSE TokenFault,
             token |-> r.token, probe |-> r.probe, cause |-> r.cause]
  /\ reauth' = (reauth \/ Signals(r.verdict))
  /\ rejected' = IF r.verdict = "rejected" THEN rejected \cup {r.probe}
                                           ELSE rejected
  /\ reads' = [reads EXCEPT ![q] = Idle]
  /\ UNCHANGED <<server, method, kind, token, lifecycle, canceled>>

-----------------------------------------------------------------------------
Lifecycle ==
  \/ Login \/ CheckToken \/ FirstRenewal \/ TakeSignal \/ Drain
  \/ GiveUpToken \/ Stop

Next ==
  \/ \E t \in valid : Expire(t)
  \/ ChangePolicy \/ LoseLogin \/ FailStart \/ FirstRenewalRefused
  \/ EndLease \/ FailRenewal \/ RetryRenewal \/ Cancel
  \/ Lifecycle
  \/ \E q \in Requests :
       Send(q) \/ Finish(q) \/ Forbid(q) \/ Probe(q) \/ AnswerProbe(q)
         \/ Classify(q)

\* The goroutine is scheduled, and a login that is retried is answered in the
\* end.  The first renewal of a rejected token is answered too.
Fairness ==
  /\ WF_vars(Lifecycle)
  /\ WF_vars(token \notin valid /\ FirstRenewalRefused)

Spec == Init /\ [][Next]_vars
FairSpec == Spec /\ Fairness

-----------------------------------------------------------------------------
\* Properties.

\* The lifecycle never waits on a token a read has reported: either the report
\* is still in the channel or the lifecycle is past its wait.  A signal must
\* survive everything the lifecycle does between two waits
\* (client.go:364-367).
ReportedTokenIsNotWaitedOn ==
  lifecycle = "watching" /\ token \in rejected => reauth

\* The client answers a 403 with a refusal of the secret only if OpenBao
\* denied the secret, as long as the probe asked about the token the read was
\* sent with; an outage during the probe leaves the refusal open.
RefusalBlamesTheSecret ==
  out # Nothing /\ Authoritative(out.err) /\ out.token = out.probe
    => out.cause = "secret"

\* An outage never costs a token: a signal is there, or ends a wait, only
\* after OpenBao itself rejected a token (client.go:348-350).
SignalHasCause ==
  /\ reauth \/ lifecycle = "signaled" => rejected # {}
  /\ rejected \cap valid = {}

\* A token a read has reported is replaced, or the lifecycle ends.
RejectedTokenIsReplaced ==
  token \in rejected ~> token \notin rejected \/ lifecycle = "stopped"

\* The documented promise of classifyForbidden, whichever token was probed.
RefusalStandsOnItsToken ==
  out # Nothing /\ Authoritative(out.err) => out.cause = "secret"
=============================================================================
