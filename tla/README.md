# systemd-creds-openbao in TLA+

systemd-creds-openbao is a daemon that answers systemd's credential socket
with secrets it reads from OpenBao. It holds one OpenBao token and keeps it
fresh, remembers responses to serve through an outage, and replaces its rules
and its client on SIGHUP without dropping a request. This directory models
that behaviour, checks it with TLC on small instances, and proves the most
important invariants and a refinement with TLAPS for every instance.

Paths below are relative to `src/go`: `main.go` is
`cmd/systemd-creds-openbao/main.go`, `client.go`, `stale.go` and
`transport.go` are in `internal/bao`, `server.go` and `peer.go` in
`internal/credserver`, `config.go`, `policy.go` and `resolver.go` in
`internal/config`, `internal/policy` and `internal/secrets`.

## 1. The system

### Parts

| Part | State it keeps | Operations |
| --- | --- | --- |
| `bao.StaleCache` (stale.go) | current client, window (`serve_stale_for`), remembered responses, refusal generation, stale count | `Read`, `Swap`, the sweep of a background goroutine |
| `bao.Client` (client.go) | token, auth method, a reauth channel of one; a lifecycle goroutine | `New`, `ReadSecret`, `RevokeSelf`; login, first renewal, renewal, backoff, drain, relogin |
| error classification (client.go:222-301) | none | `retryable`, `authoritative`, `loginRetryable`, `classifyForbidden` |
| `guardTransport`, `limitBody` (transport.go) | what may still be read of one body | the downgrade check of a redirect, the limits on a response |
| `service` and `run` (main.go) | configuration in effect, client, its cancel function, listeners, reload channel, timers, the watchdog's ticker | startup, SIGHUP reload, delayed revocation, shutdown, status, watchdog pings |
| `credserver.Server` (server.go, peer.go) | resolver and timeout (one atomic pointer), two counters, a stats channel of one | `Serve`, `handle`, `Reload`, `Stats` |
| `ParsePeer`, `NewRequest` (peer.go) | none | the unit and the credential a peer address or a command line names |
| `secrets.Resolver`, `config`, `policy` | immutable after load | first match, placeholder expansion, defaults, validation, policy generation |

### How they interact

* A connection is handled by a goroutine of its own: `handle` loads the
  server's timeout and resolver (server.go:135), the resolver matches a rule
  and calls `StaleCache.Read`, which takes the cache's client (stale.go:165)
  and calls `ReadSecret` on it. `handle` then writes, counts and signals.
* A 403 on a read makes the reading goroutine probe the token, and a refused
  probe signals the lifecycle goroutine through the reauth channel.
* The main goroutine selects over shutdown, watchdog, closed listeners, the
  stats channel and the reload channel. A reload runs in it, from start to end.
  It makes a new client, swaps the server's rules, then the cache's client,
  and gives the old client's token a timer.
* OpenBao and the service manager are outside: the first can refuse, change a
  secret, end a token, break off in the middle of an answer, or not answer (a
  request to revoke a token included); the second sends SIGHUP and SIGTERM, reads the status line, kills the daemon when
  its pings stop, and restarts it when it fails.

### What is hard

Locks are released over the OpenBao call; two channels coalesce signals; the
two swaps of a reload are not atomic; a timer races a login; a token must
outlive requests nobody tracks; a probe asks about whichever token is there
when it is sent; a reload keeps the loop from its pings; whether a start waits
or fails hangs on what is in an error's chain. `PROJECT.json` lists each hazard with its line.

### What makes each part correct

* Cache: refused data does not come back; nothing is served past its window or
  kept past its use; an outage does not cost the fallback.
* Token: a rejected token is replaced, a good one is not thrown away, and an
  outage or a dead token is never taken for a refusal of the secret.
* Start: what a file says is what is used, an outage is waited out, a definitive
  rejection is not sent again, and a corrected credential leads to a start.
* Connection: nothing is sent in the clear, and no part of a body is taken for
  the whole.
* Service: no request loses the token it works with, no token the daemon was
  given goes without an attempt to revoke it, no SIGHUP is lost, a reload ends, and none of it costs the watchdog.
* Server: every connection is counted once and the right way, and the status
  line catches up.
* Requests, rules and policy: a request is the one its address names, it never
  expands to a path a rule did not mean, and the policy grants what the rules
  can read.

## 2. Modules

`MC*` modules add symmetry sets and the constants a `.cfg` cannot write.
`*Proofs` modules hold the theorems. Variables, actions and constants keep the
source's names where it has them; the map in `PROJECT.json` gives the lines of
every definition.

### BaoErrors

An `error` is the set of what `errors.As` and `errors.Is` find in its chain, so
that the order of the tests in client.go:222-275 is what decides.
`SecretAnswers` are OpenBao's own answers about a secret, `Failures` all other
ways a read ends, and `BadCert` is the chain only a login tells apart. The
module has no state; StaleCache decides reads with it and Startup logins.

### FallbackPromise

The abstract specification of the cache: one atomic `Read` per request, which
answers with data OpenBao gave out during the read (`Fresh`), a refusal that
wipes what is remembered (`Refuse`), a remembered response inside its window
(`Stale`) or, only without one, a failure (`Fail`). It has no reads under way,
no generation, no clients and no ticker. It says what the code leaves open:
whether a success is remembered, and which of two overlapping ones.

### StaleCache

| Model | Code |
| --- | --- |
| `Begin(q)` | `Read` up to the call: client and generation under the mutex |
| `Respond(q)` | `ReadSecret` ends: data with a lease, a refusal, or a failure |
| `Return(q)` = `Fresh`, `Supersede` or `Fallback` | `Read` from the second lock on |
| `Swap(client, age)` | `Swap` |
| `Sweep` | one tick of `sweepLoop` |
| `Change(k)`, `Tick` | an operator changes a secret; time |

A version of a secret stands for its data. `refusedAt`, the version in an entry
and `issued` are history: the code's decisions never read them. A read ends
within `ReadTimeout`, which stands for the connection timeout and the probe.
The stale counter is in CredServer.

`Promise` instantiates FallbackPromise: the memory is `entries`, what a
requester was told is `out` without the error behind it (`Told`), and a read
takes effect at its `Return`, whose second critical section is where the code
decides.

### TokenLifecycle

`lifecycle` is where `authenticate`, `renewStaticToken` and
`manageTokenLifecycle` stand; each action takes it from one point where they
can be interrupted to the next. `Send`, `Forbid`, `Probe`, `AnswerProbe` and
`Classify` are the steps of a read that ends in a 403. The kinds of token
(`forever`, `renewable`, `fixed`) are the three cases of client.go:512-527.
A backoff or a wait can take any time, so an attempt that fails and is
retried is a stuttering step. `method = "login"` stands for approle, cert
and jwt, which differ only in the request they send.

### Transport

One call through guardTransport, as a state machine in `call`: `sent`,
`reading` a body, `done`. `ReadBody` is one call of `limitBody.Read` with any
buffer and any short read, with the end of the body in it or after it.
`BreakBody` is a connection that goes away before the end. `ErrorOf` gives the
error chain of each ending, in the terms of BaoErrors.

### Startup

From a configuration file to a token OpenBao has confirmed, over the calls of
Transport.

| Model | Code |
| --- | --- |
| `Load`, `Valid`, `Method`, `KeysOf` | `loadConfig`, `validate` and `applyDefaults` for `[openbao]` and the timeout |
| `Connect` | `bao.New` and the head of `authenticate`: a token and the client certificate are taken once |
| `Attempt`, `Read`, `ValueOrFile` | `login` of each method, which reads its files every time |
| `Answer`, `BackoffEnds` | one round of `withRetry` |
| `Restart`, `Stop` | the unit's `Restart=on-failure`, SIGTERM |
| `Rotate`, `Write`, `Turn`, `Serve` | OpenBao takes another version, the operator writes a file, OpenBao goes down, is sealed, locks the role out or comes back, and its side of a call |

A credential is a version of it, and 0 one that cannot be read. An
option that may be absent is a set of at most one value, because validation
and defaults tell absent from zero. The lengths of the backoff are left out;
that it can be left by SIGTERM is `Stop`.

### Reload

`pc` is where the main goroutine stands. `cur` is the server's atomic pointer
and `inner` the cache's client; both carry an epoch, a history of which swap
they come from. A request loads `cur` (`Accept`), then takes `inner`
(`Capture`), which records whether a reload overtook it (`late`). Clients are
numbers and stand for the token `bao.New` returned with; tokens of its earlier
attempts are TokenLifecycle's. `RevokeSelf` is best effort: it takes the token
from `live`, or fails and leaves it there, recorded in `stranded`. A token from
`token_file`, which it never revokes (client.go:583), is the second case every
time. A login that fails may have left a token too, when only its answer was
cut off (`LoginFails`): that one is `stranded` as well, since no client of the
daemon has it. `live` is what nobody revoked: that a token whose renewal was
stopped can end by itself before the wait is over is left out, as its TTL is the
role's. `FireGiveUp` and `Revoke` are timers. A login that is answered
although the timer fired is `discarding` until its token is revoked (`Discard`),
which blocks the loop for `RevokeTimeout` at most. A listener that closes by
itself (`LoseListener`) ends the daemon. The file is a version with the parts
the reload reads: the timeout, the `[openbao]` section, and whether it loads.

### Watchdog

EXTENDS Reload: every step of `Next` with the pings it sends (`Pings`: READY=1
and both edges of a reload), the ticker of half the interval with its channel
of one (`TickerFires`), and the loop that takes a tick (`Ping`). Time passes
only while the loop waits for something (`Waits`), since the claim is about
what blocks it, and the ticker never fires late. `WatchdogSec` is a constant
above `ReloadTimeout + RevokeTimeout`, as the comment in the unit file asks;
below it the daemon warns and can be killed.

### CredServer

`handle` in the steps another goroutine can see: accepted, resolved, left,
counted, signalled, closed. The loop loads the three counters in three steps,
as `status` does. A reload is there as what blocks the loop.

### Policy

`Init` is a configuration that loaded (`Valid`) with the policy generated from
it (`Grants`). `Serve` is a connection, whose address goes through `ParsePeer`,
and `Resolve` the command line's `-resolve`; both go through `NewRequest` and
`Plan`: the first rule that matches, its path with the placeholders expanded,
the checks of the result (`Resolved`). Text is a
sequence of `Tokens`, since what matters is where a dot, an `@` or a
metacharacter stands: ordinary text between them is one token, and a path is a
sequence of segments, none with a slash. A file is any list of `Rule`s; a rule
with an empty path, or of KV with an empty mount, does not load and is none. A
credential glob with a slash would pin text that is more than one segment: such
a rule matches no request and is left out (a unit glob with one does not load).
`*` stands for every glob metacharacter. `Covers` is OpenBao's side, as
`FuzzResolve` has it.

## 3. Runs

Every run finishes within about three minutes with two workers, most in seconds.

| Run | Shows | Bounds and why they are enough |
| --- | --- | --- |
| `stale_cache` | `RefusalSupersedes`, `StaleWithinWindow`, `Residency`, `OutageKeepsFallback`, `KeepsThePromise` | Two overlapping reads: the generation is one counter for the whole cache, and the races are between two critical sections. Two secrets, because a refusal of one must not cost the other. Two versions let a secret be readable and then refused or the other way round, with failures between; two windows and none let a reload shrink the window, lift it, turn the fallback off and on; a lease shorter than the window; the clock passes every window and a sweep. Two kinds of error, those whose chains also pass the test of the other side (a size refusal inside a `url.Error`, a token fault around a 403); the lemma `ErrorsSplit` covers all eleven. Windows of any length are the theorems'. |
| `token_lifecycle` | `ReportedTokenIsNotWaitedOn`, `RefusalBlamesTheSecret`, `SignalHasCause`, `RejectedTokenIsReplaced` | Under `FairSpec`. Two reads, because a race needs one that signals and one that is late; two events let a token end and its replacement fail too. A `fixed` token does what a `renewable` one does without its renewals failing, so the run takes the other two kinds; `token_probe_race` takes all three. |
| `reload` | `TokenOutlivesItsRequests`, `InstalledClientIsAlive`, `NoTokenIsForgotten`, `HangupIsNotLost` | One request is enough because requests do not interact here; three clients are the first and two reloads; two timeouts put the larger one on either side of a swap; two edits fall before, into and after a reload; each of the revocations can fail. |
| `watchdog` | `WatchdogIsFed`, `ReloadEnds` | Under `FairWatchdog`. The smallest interval the unit may have, so no slack hides a late ping; time for two reloads in a row, each given up, discarded or completed. |
| `cred_server` | `EveryConnectionIsCounted`, `StatusIsCurrent`, `StatusCatchesUp` | Under `FairSpec`. Three connections: one counted and read, one coalesced, one that comes while the line is made; a reload blocks the loop over any of them. |
| `policy` | `RequestIsTheAddress`, `ReadKeepsItsSegments`, `PinnedValuesAreReal`, `NamedReadIsGrantedExactly`, `WideningIsMarked` | One rule of every combination of a glob with text, dots, `@` and metacharacters on either side of each other, a path of whole or mixed segments, and a mount; pairs of rules that share grants; names that put dots and a second `@` in the prefix and the instance, are empty or hold a slash; addresses with no part, a name or the marker at each of two to four places. Requests do not change the resolver, so one is enough. |
| `startup` | `EveryOptionCounts`, `NothingInTheClear`, `BodyWholeOrRefused`, `StartIsDecided`, `CorrectedIsPickedUp` | Every `[openbao]` section that loads or is one option away from one that does, and every spelling of the durations; bodies from empty to two bytes above the limit, so that the limit, one byte more and two are all there; one redirect, which is what the client library follows; two changes of the surroundings, enough for a credential that is rotated and then written, or an outage that ends. |


`Residency` and `StaleWithinWindow` have a slack: the sweep interval that
stale.go:65-68 states, and the time the read itself took. The second is what
the code guarantees and less than docs/operations.md:99-100 says, which is the
`stale_expired_lease` finding. `BodyWholeOrRefused` allows for a body of one
byte above the limit, which `limitBody` lets through when its end comes with
its last byte. `TypeOK` is in the first run of each module.
`CHECK_DEADLOCK FALSE` is set where the system stops: connections, events, or
the process are at their end.

`TokenOutlivesItsRequests` leaves out a request that is `late`: both swaps of
a reload, which are adjacent (main.go:287-288), fell between its two loads, and
at its second it had more time left than the timeout they put in. Requests
between the swaps are covered, and so are those a reload overtook without
shortening their timeout. The `reload_slow_request` finding is what happens
without that restriction. `NoTokenIsForgotten` leaves out the tokens that are
`stranded`: they live on until their TTL, as RevokeSelf's comment says, and the
daemon can do nothing about them. `InstalledClientIsAlive` speaks of what the
daemon itself cancels: SIGTERM cancels every client's context with the parent's
(main.go:260), a moment before the loop takes it, or a reload's time before.

### Findings

Five runs check what a comment, a document or a test says and find it violated.

* `token_probe_race`: a refusal by a dead token stands as an answer about the
  secret when a relogin comes between the refusal and the probe
  (client.go:329). The remembered response is dropped.
* `stale_expired_lease`: a dynamic secret is served after OpenBao has expired
  its lease, which docs/operations.md:99-100 rules out: the lease counts from
  when the response is stored (stale.go:176), later than OpenBao's by what the
  response took to come back. `StaleWithinWindow` and its theorem bound that by
  the time of one read.
* `reload_slow_request`: the wait before a revocation considers only the two
  latest timeouts, so a request that loaded a longer one earlier can lose its
  token (main.go:296).
* `policy_dotted_glob`: a unit glob with a dot before its `@` and none after,
  such as `a.b@*`, pins `{prefix}` to the text before that dot (`a`), because
  the glob's value is read with the suffix rule of a unit name
  (config.go:151). Requests expand it to `a.b`, so the policy grants a path the
  rule never reads and not the one it does. `policy` leaves out exactly these
  globs (`CutsItsPrefix`).
* `startup_broken_answer`: when OpenBao goes away after the head of its
  response, the error is a bare `io.ErrUnexpectedEOF`, which `retryable` does
  not know (client.go:246-250): the start fails where the documents have it
  wait. The unit's `Restart=` tries again, so `CorrectedIsPickedUp` holds.

`policy_dotted_glob` makes a generated policy refuse its own rules, every time.
`reload_slow_request` needs a goroutine that is not scheduled while the two swaps
take place, and a second reload within its timeout; `startup_broken_answer`
costs a restart, and `stale_expired_lease` is as late as a response is slow.
`token_probe_race` costs a remembered secret during the very fault it is kept
for. The same probe has a second, smaller effect, which `token_lifecycle`
contains and no property denies: `drainReauth` runs before the login
(client.go:566-567), so the signal of a read whose probe of the old token is
answered during the login ends the wait of the new one, and one more login
follows. client.go:564-565 says a signal sent before the drain must not do that.

## 4. Fairness

* TokenLifecycle: the lifecycle goroutine is scheduled (`WF` on its steps), a
  login that is retried without end is answered in the end, and so is the first
  renewal of a rejected token. Nothing is assumed of reads, of OpenBao ending
  tokens, or of renewals.
* Reload: the main goroutine and the timers run and time passes. A login need
  not return, except that it fails once its context is canceled, because
  `withRetry` looks at it after every attempt and while it sleeps and the
  attempts take it as their context. Requests end because each of their waits
  has a deadline (server.go:140, 167, client.go:311; a zero timeout does not
  validate).
* Watchdog: as Reload, and the ticker fires and the loop takes a tick that is
  there. `WatchdogIsFed` is a safety property and needs none of it.
* Startup: the daemon, OpenBao's side of a call and the service manager's
  restarts go on as one (`WF` on `Daemon`): each attempt has the client
  library's timeout, so a call ends, and a backoff is a timer. Nothing is assumed
  of the surroundings: `CorrectedIsPickedUp` has them in order as its premise.
* CredServer: the loop is scheduled, and a handler that was started goes on,
  for the same deadlines.

## 5. Proofs

TLAPS proves the following for any sets of requests, secrets, clients and
connections, and any bounds; `PROJECT.json` lists them.

**StaleCacheProofs.** `TypeCorrect` and `RefusalIsFinal`
(`Spec => []RefusalSupersedes`). `RefusalSupersedes` is not inductive: a read
whose answer is already there could bring refused data back. `RefusalInv` adds
what prevents it. A version that was refused is not above the world's and, if
it is the world's, is not readable, so what is read later is newer. Entries are
newer than the last refusal. A read's generation is never above the cache's,
and if it is the cache's, no refusal came in between, so data in its answer is
newer than every refusal; otherwise the answer will not be stored. It also
needs that every error in `Refusals` is authoritative and none in `NetErrors`
is, a lemma about `BaoErrors`. Refusals of a dead token are not in this
module: those are the `token_probe_race` finding.

**FallbackProofs.** `WindowsAreKept` and `MemoryIsCleared`, from `AgeInv`: a
read under way is inside its own time and its answer was issued within it, so
an entry was stored by the end of its read; and the sweep to come is at most
one interval past the window of every entry, since it is at most one interval
away when an entry is stored or a window shrinks. `CacheKeepsThePromise`
(`Spec => KeepsThePromise`), the refinement, uses `TypeOK`, `RefusalInv` and
`AgeInv`: a `Return` is one of the four ways the abstract read ends
(`ReturnIsARead`), where `RefusalInv` gives that what is stored is newer than
every refusal, and `AgeInv` that the data was given out during the read and
that a secret has one entry; `Change`, `Tick`, `Sweep` and `Swap` are
`Rewrite`, `Pass`, `Forget` and `Configure`; `Begin` and `Respond` stutter or
forget what was told.
`OutageCostsNothing` (`Spec => OutageKeepsFallback`) uses that no failure is
authoritative and that what a failing read removes has passed its window.

**WatchdogProofs.** `AlwaysFed` (`WatchdogSpec => []WatchdogIsFed`) for every
interval above `ReloadTimeout + RevokeTimeout`. `FedInv` bounds the time since
the last ping at every point the loop can stand: half the interval and a tick
on the way while it waits, `ReloadTimeout` while it logs in, `RevokeTimeout` more
while it discards a login. A reload can begin when a tick is almost due, so the
ticker has its own part of the invariant.

**TokenLifecycleProofs.** `ReportsAreKept`, `RefusalsBlameTheSecret` and
`SignalsHaveCauses`, from one invariant `TokenInv`. Its core: tokens are issued
in order and a rejected token is dead for good; while the lifecycle watches,
and for `token_file` until it is signaled or ends, a rejection of the current
token has its signal in the channel; what a probe in flight will say agrees
with the cause of the refusal if it asks about the same token.

**ReloadProofs.** `ServedByALiveClient`, `GraceIsEnough`, `HangupIsFollowed` and
`EveryTokenIsRemembered`, for any timeouts and any number of requests and
reloads, from `ReloadInv`. Clients are numbered as they are made, so a new one
has no token, no timer and no cancellation behind it (`Numbered`); the one in
use is alive and the cache's but between the cache's swap and the retirement
(`InUse`); the one a reload makes is a third, and is installed only if its timer
did not fire (`BeingMade`); a timer stands for one live token that is not in use
(`Owed`). `GraceIsEnough` is why the wait of main.go:296 suffices: the rules'
epoch is one ahead of the client's between the two swaps and equal to it
elsewhere (`Epochs`), so whoever holds the client to be retired, and was not
`late` when it took it, ends within one of the two timeouts the wait is the
larger of (`Bounded`, `Kept`). The restriction enters only there, and the
`reload_slow_request` finding is what happens without it.
`EveryTokenIsRemembered` holds although every revocation may fail: what fails is
recorded in `stranded`, and any other token that lives has its place. None of
the invariants takes a token for dead because its revocation was attempted.

**CredServerProofs.** `StatusStaysCurrent`, from `ServerInv`: while nothing is
on its way, neither a signal in the channel nor a connection between its count
and its signal, every counter the loop has already read is still what it read.
`EveryEndIsCounted`, from the connections each counter stands for: only `Count`
changes which these are, and it adds one.

**StartupProofs.** `BodiesAreWhole`, `NothingLeavesHttps`, `OptionsCount` and
`StartsAreDecided`, from `StartInv`: while a body is read, what was read and
what may still be read add up to the limit and one byte, so the allowance is
used up only after that many bytes; a call is on https if its address is; and a
start that got past the file has one that is valid. The lemma `ValidIsRead` then
gives, method by method, that validation lets through no option the login does
not read; for approle it needs that exactly one of the two role ID options is
set. The assumptions are that a body can be as large as the limit, and that
files set no option but the nine there are (`FilesAssumption`).

**PolicyProofs.** All six invariants of `Policy`, for any rules, names and
addresses. The inductive invariant `IInv` is short, since a plan is made in one
step: the rules are a file that passed `Valid`, the policy is `Grants` of them,
and a plan is `Resolved` of what an address or the command line names. What is
hard is the text under it.

* The functions on text are recursive, and induction over data cannot be had
  from the library's theorems, whose hypothesis is an operator. `SetInduction`
  is induction for a set of naturals, from the well-foundedness of `<`
  (`WFMin`), and `Recursion` builds the function that a step and a first value
  define. With it a `CHOOSE`-defined function is known to exist and to obey its
  equation: that is how `FlattenJoins` unfolds `FlattenSeq`, `MatchEnds` the
  glob and `GrantsHold` the grants.
* Peer addresses (`AddressNamesRequest`): `CutIsFirst` gives that the three
  parts of a cut are the text, and that the first has the separator nowhere but
  at its end, for separators that may overlap themselves.
* What globs pin (`PinnedReadsAreGranted`): `MatchedHead` says a name begins
  with the glob's text in front of its first metacharacter, and that text behind
  it is found behind it. So a name has the glob's first `@` where the glob has
  it, and, `CutsItsPrefix` being false of the glob, no last dot in front of that
  (`PinnedPrefixIsReal`). This is where `policy_dotted_glob` comes from: without
  the premise the last dots of glob and name need not be on the same side.
* Segments: `ExpandTokens` gives the tokens of an expanded segment, `ExpandSame`
  that equal pieces make equal segments, `ExpandLone` that a segment which
  expands to one placeholder expands to that one's value, although it may have
  other placeholders whose values are empty: a sum of lengths that is one has
  one term. `ReadsKeepSegments`, `NamedReadsAreGrantedExactly` and
  `WideningsAreMarked` follow segment by segment, the last with `AddKeeps`: a
  grant that is there keeps its mark and takes the mark of a duplicate.

The assumptions are that files are lists of `Rule`s, that names and addresses are
text, and that the characters the code looks for are tokens.

The constants' assumptions are those the modules state: sets of naturals for
times, errors from the named sets, a finite set of connections.

The type invariants are theorems too (`TypeCorrect`, `TokenTypeCorrect`,
`ReloadTypeCorrect`, `ServerTypeCorrect`, `PolicyTypeCorrect`,
`StartTypeCorrect`).

Model-checked only: the four liveness properties (`RejectedTokenIsReplaced`,
`ReloadEnds`, `StatusCatchesUp`, `CorrectedIsPickedUp`), since fairness and
`ENABLED` are out of the prover's reach. Every safety property a passing run
checks is a theorem.

## 6. Not modelled

* Of the rules: `?` and classes in globs, a credential glob with a slash,
  backslashes, control characters, the format and encoding of a field. Of the
  file: TOML decoding and unknown keys.
* What keeps no state a property could be about: the pause after a failed
  accept, log lines, `-check` and `-version`.
* The client library: its retries and timeouts are inside the answer of a call,
  and the lifetime watcher inside the end of a renewal.
* What a revocation does to leases: a reload ends the dynamic secrets read with
  the old token while the cache may still hold them. docs/operations.md:60
  describes it as a limit, the code has nothing against it, and a composition
  of StaleCache and Reload would only restate that.
* What becomes of a token that could not be revoked, or of a login whose answer
  was lost: it dies at its TTL (client.go:579-581).
* A second clock: a suspend stops the daemon's monotonic clock and no code
  reacts to it.
* The order between two successful reads that overlap: the later store wins,
  whichever response is newer. The generation orders stores against refusals
  only and the code promises no more, which FallbackPromise states.
* A stale answer that is then refused is counted as stale and as refused, where
  main.go:304 reads stale as part of served. CredServer counts as the code does.
* The socket unit, the NixOS module, packaging and CI, which hold no code of
  the daemon.

## 7. Plan

In this order; what is done is marked.

1. `BaoErrors`, `StaleCache`, its proofs (done). The fallback comes first: it
   is the program's promise in an outage and has the subtlest race.
2. `TokenLifecycle` and its proofs (done).
3. `Reload` and the proofs of its invariants (done).
4. `CredServer` and its proofs (done).
5. `FallbackPromise`, the refinement and its proof (done).
6. `Policy`, with peer addresses and `-resolve` (done), and the proofs of its
   invariants (done).
7. `Watchdog` and its theorem over all intervals (done).
8. `Transport` and `Startup` and the proofs of their safety properties (done).
