------------------------------- MODULE Reload -------------------------------
(***************************************************************************)
(* The daemon's main goroutine: startup, the loop that takes reloads, the  *)
(* two swaps of a reload, the revocation of the client it replaced, and    *)
(* the shutdown, against requests that take their timeout from the server  *)
(* and their client from the cache at different moments.                   *)
(*                                                                         *)
(* A client is a number and owns one login token: TokenLifecycle has what  *)
(* happens inside it.  The configuration file is a version of its text,    *)
(* with what this module tells apart in it.                                *)
(***************************************************************************)
EXTENDS Integers, FiniteSets

CONSTANTS
  Requests,       \* connections that can overlap
  Timeouts,       \* values connection_timeout can have
  Sections,       \* texts the [openbao] section can have
  ProbeTimeout,   \* bao.ProbeTimeout
  ReloadTimeout,  \* reloadTimeout
  RevokeTimeout,  \* bao.RevokeTimeout
  MaxTime, MaxVersion, MaxClients  \* bounds on the clock, edits, logins

ASSUME ReloadAssumptions ==
  /\ Timeouts \subseteq Nat \ {0}
  /\ ProbeTimeout \in Nat /\ ReloadTimeout \in Nat \ {0}
  /\ RevokeTimeout \in Nat
  /\ MaxTime \in Nat /\ MaxVersion \in Nat /\ MaxClients \in Nat

VARIABLES
  now,
  file,       \* the configuration file
  sighup,     \* a SIGHUP is in the reload channel
  done,       \* ctx: SIGTERM or SIGINT arrived
  pc,         \* where the main goroutine stands
  cfg, client,        \* service.cfg and service.client
  next, nextCfg,      \* the client and configuration a reload is making
  made,       \* bao.New made that client, if it has returned
  giveUpAt,   \* when the giveUp timer fires; Never once it has or is stopped
  fired,      \* the giveUp timer fired
  until,      \* when the revocation of a discarded login ends at the latest
  cur, inner, \* the server's timeout and the cache's client, with their epoch
  listening,  \* the listeners are open
  clients,    \* how many clients were made
  live,       \* the clients whose token OpenBao has and nobody revoked
  canceled,   \* the clients whose own context was canceled
  timers,     \* revocations to come
  stranded,   \* history: the clients whose revocation failed, or whose login
              \* was lost on its way back
  requests,
  wanted, attempted  \* history: the version SIGHUP asked for, and was loaded

vars == <<now, file, sighup, done, pc, cfg, client, next, nextCfg, made,
          giveUpAt, fired, until, cur, inner, listening, clients, live,
          canceled, timers, stranded, requests, wanted, attempted>>

service == <<cfg, client, cur, inner>>
making  == <<next, nextCfg, made, giveUpAt, fired, until>>
tokens  == <<clients, live, canceled, timers, stranded>>
world   == <<now, file, done, requests>>

Never == -1

File == [version : 0..MaxVersion, timeout : Timeouts, section : Sections,
         loads : BOOLEAN]

Client == 0..MaxClients

Timer == [client : Client, at : Nat]

\* A request loads the server's timeout, then captures the cache's client;
\* late is history: a reload in between left it more time than it now gives.
Idle     == [pc |-> "idle"]
Loaded   == [pc : {"loaded"}, epoch : Nat, deadline : Nat]
Captured == [pc : {"captured"}, deadline : Nat, client : Client,
             late : BOOLEAN]

TypeOK ==
  /\ now \in Nat /\ file \in File /\ sighup \in BOOLEAN /\ done \in BOOLEAN
  /\ pc \in {"start", "auth", "recheck", "ready", "serving", "loading",
             "login", "returned", "discarding", "swapping", "swapped",
             "retire", "closing", "revoking", "exited"}
  /\ cfg \in File /\ nextCfg \in File
  /\ client \in Client /\ next \in Client /\ made \in BOOLEAN
  /\ giveUpAt \in Nat \cup {Never} /\ fired \in BOOLEAN /\ until \in Nat
  /\ cur \in [timeout : Timeouts, epoch : Nat]
  /\ inner \in [client : Client, epoch : Nat]
  /\ listening \in BOOLEAN
  /\ clients \in Client /\ live \subseteq Client /\ canceled \subseteq Client
  /\ timers \subseteq Timer /\ stranded \subseteq Client
  /\ requests \in [Requests -> {Idle} \cup Loaded \cup Captured]
  /\ wanted \in 0..MaxVersion /\ attempted \in 0..MaxVersion

Init ==
  /\ now = 0
  /\ file \in [version : {0}, timeout : Timeouts, section : Sections,
               loads : BOOLEAN]
  /\ sighup = FALSE /\ done = FALSE /\ pc = "start"
  /\ cfg = file /\ client = 0
  /\ next = 0 /\ nextCfg = file /\ made = FALSE
  /\ giveUpAt = Never /\ fired = FALSE /\ until = 0
  /\ cur = [timeout |-> file.timeout, epoch |-> 0]
  /\ inner = [client |-> 0, epoch |-> 0]
  /\ listening = FALSE
  /\ clients = 0 /\ live = {} /\ canceled = {} /\ timers = {}
  /\ stranded = {}
  /\ requests = [q \in Requests |-> Idle]
  /\ wanted = 0 /\ attempted = 0

-----------------------------------------------------------------------------
\* The environment.

\* The operator edits the configuration file.
Edit ==
  /\ file.version < MaxVersion
  /\ \E timeout \in Timeouts, section \in Sections, loads \in BOOLEAN :
       file' = [version |-> file.version + 1, timeout |-> timeout,
                section |-> section, loads |-> loads]
  /\ UNCHANGED <<now, sighup, done, pc, service, making, listening, tokens,
                 requests, wanted, attempted>>

\* The service manager sends SIGHUP; the channel holds one.
Hangup ==
  /\ pc \notin {"start", "exited"} /\ wanted < file.version
  /\ sighup' = TRUE
  /\ wanted' = file.version
  /\ UNCHANGED <<world, pc, service, making, listening, tokens, attempted>>

Terminate ==
  /\ pc # "exited" /\ ~done
  /\ done' = TRUE
  /\ UNCHANGED <<now, file, sighup, pc, service, making, listening, tokens,
                 requests, wanted, attempted>>

\* When a request is over at the latest: its timeout, and a token check.
Ends(r) == IF r.pc = "captured" THEN r.deadline + ProbeTimeout ELSE r.deadline

\* Time passes up to the next timer and the end of the next request.
Tick ==
  /\ now < MaxTime /\ pc # "exited"
  /\ giveUpAt # Never => now < giveUpAt
  /\ ~(pc = "login" /\ fired)
  /\ pc = "discarding" => now < until
  /\ pc = "loading" => now + ReloadTimeout < MaxTime
  /\ \A t \in timers : now < t.at
  /\ \A q \in Requests : requests[q].pc # "idle" => now < Ends(requests[q])
  /\ now' = now + 1
  /\ UNCHANGED <<file, sighup, done, pc, service, making, listening, tokens,
                 requests, wanted, attempted>>

-----------------------------------------------------------------------------
\* RevokeSelf is best effort: what it cannot revoke in RevokeTimeout, and a
\* token from token_file, which it leaves alone, goes on living.
RevokeSelf(c) ==
  \/ live' = live \ {c} /\ UNCHANGED stranded
  \/ stranded' = stranded \cup {c} /\ UNCHANGED live

-----------------------------------------------------------------------------
\* Startup.

\* run loads the file, or exits.
Start ==
  /\ pc = "start"
  /\ cfg' = file
  /\ pc' = IF file.loads THEN "auth" ELSE "exited"
  /\ UNCHANGED <<world, sighup, client, cur, inner, making, listening, tokens,
                 wanted, attempted>>

\* authenticate: bao.New waits an outage out, and fails on a definitive
\* rejection or the shutdown.
Authenticate ==
  /\ pc = "auth" /\ clients < MaxClients
  /\ clients' = clients + 1 /\ client' = clients + 1
  /\ live' = live \cup {clients + 1}
  /\ pc' = "recheck"
  /\ UNCHANGED <<world, sighup, cfg, cur, inner, making, listening, canceled,
                 timers, stranded, wanted, attempted>>

FailAuthentication ==
  /\ pc = "auth"
  /\ pc' = "exited"
  /\ UNCHANGED <<world, sighup, service, making, listening, tokens, wanted,
                 attempted>>

\* The file is read again: a changed [openbao] section starts over.
Recheck ==
  /\ pc = "recheck"
  /\ IF file.loads /\ file.section # cfg.section
     THEN /\ pc' = "auth"
          /\ canceled' = canceled \cup {client}
          /\ RevokeSelf(client)
     ELSE /\ pc' = "ready"
          /\ UNCHANGED <<canceled, live, stranded>>
  /\ cfg' = IF file.loads THEN file ELSE cfg
  /\ UNCHANGED <<world, sighup, client, cur, inner, making, listening, clients,
                 timers, wanted, attempted>>

\* The cache and the server are built and serve.
Ready ==
  /\ pc = "ready"
  /\ cur' = [timeout |-> cfg.timeout, epoch |-> 0]
  /\ inner' = [client |-> client, epoch |-> 0]
  /\ listening' = TRUE
  /\ pc' = "serving"
  /\ UNCHANGED <<world, sighup, cfg, client, making, tokens, wanted, attempted>>

-----------------------------------------------------------------------------
\* A reload.  While it runs the loop takes no signal.

TakeReload ==
  /\ pc = "serving" /\ sighup
  /\ clients < MaxClients /\ now + ReloadTimeout <= MaxTime
  /\ sighup' = FALSE
  /\ pc' = "loading"
  /\ UNCHANGED <<world, service, making, listening, tokens, wanted, attempted>>

\* Mutant: the login is given forever.
LoadWithoutTimer ==
  /\ pc = "loading"
  /\ attempted' = file.version
  /\ \/ /\ ~file.loads
        /\ pc' = "serving"
        /\ UNCHANGED <<making, clients>>
     \/ /\ file.loads
        /\ pc' = "login"
        /\ clients' = clients + 1
        /\ next' = clients + 1 /\ nextCfg' = file /\ made' = FALSE
        /\ giveUpAt' = Never /\ fired' = FALSE /\ UNCHANGED until
  /\ UNCHANGED <<world, sighup, service, listening, live, canceled, timers,
                 stranded, wanted>>

\* The file is loaded, and the login is given until the timer fires.
Load ==
  /\ pc = "loading"
  /\ attempted' = file.version
  /\ \/ /\ ~file.loads
        /\ pc' = "serving"
        /\ UNCHANGED <<making, clients>>
     \/ /\ file.loads
        /\ pc' = "login"
        /\ clients' = clients + 1
        /\ next' = clients + 1 /\ nextCfg' = file /\ made' = FALSE
        /\ giveUpAt' = now + ReloadTimeout /\ fired' = FALSE
        /\ UNCHANGED until
  /\ UNCHANGED <<world, sighup, service, listening, live, canceled, timers,
                 stranded, wanted>>

\* The timer cancels the new client's context, at any point before it is
\* stopped.
FireGiveUp ==
  /\ now = giveUpAt
  /\ giveUpAt' = Never /\ fired' = TRUE
  /\ canceled' = canceled \cup {next}
  /\ UNCHANGED <<world, sighup, pc, service, next, nextCfg, made, until,
                 listening, clients, live, timers, stranded, wanted, attempted>>

\* bao.New returns a client; the answer can win the race with the timer.
LoginSucceeds ==
  /\ pc = "login"
  /\ made' = TRUE /\ live' = live \cup {next}
  /\ pc' = "returned"
  /\ UNCHANGED <<world, sighup, service, next, nextCfg, giveUpAt, fired, until,
                 listening, clients, canceled, timers, stranded, wanted,
                 attempted>>

\* A definitive rejection, or the context was canceled: OpenBao may have
\* carried out a login whose answer the cancellation cut off.
LoginFails ==
  /\ pc = "login"
  /\ pc' = "returned"
  /\ \/ UNCHANGED <<live, stranded>>
     \/ live' = live \cup {next} /\ stranded' = stranded \cup {next}
  /\ UNCHANGED <<world, sighup, service, making, listening, clients, canceled,
                 timers, wanted, attempted>>

\* Mutant: a login that lost the race is installed.
StopTimerInstalling ==
  /\ pc = "returned"
  /\ giveUpAt' = Never
  /\ IF made
     THEN pc' = "swapping" /\ UNCHANGED <<canceled, until>>
     ELSE /\ pc' = "serving"
          /\ canceled' = canceled \cup {next}
          /\ UNCHANGED until
  /\ UNCHANGED <<world, sighup, service, next, nextCfg, made, fired, listening,
                 clients, live, timers, stranded, wanted, attempted>>

\* giveUp.Stop: a client the timer canceled is discarded.
StopTimer ==
  /\ pc = "returned"
  /\ giveUpAt' = Never
  /\ \/ /\ made /\ ~fired
        /\ pc' = "swapping"
        /\ UNCHANGED <<canceled, until>>
     \/ /\ made /\ fired
        /\ pc' = "discarding" /\ until' = now + RevokeTimeout
        /\ UNCHANGED canceled
     \/ /\ ~made
        /\ pc' = "serving"
        /\ canceled' = canceled \cup {next}
        /\ UNCHANGED until
  /\ UNCHANGED <<world, sighup, service, next, nextCfg, made, fired, listening,
                 clients, live, timers, stranded, wanted, attempted>>

\* Mutant: nobody asks for the revocation of a discarded client's token.
DiscardLeaking ==
  /\ pc = "discarding"
  /\ canceled' = canceled \cup {next}
  /\ pc' = "serving"
  /\ UNCHANGED <<world, sighup, service, making, listening, clients, live,
                 timers, stranded, wanted, attempted>>

\* The loop waits for the revocation of a discarded client's token.
Discard ==
  /\ pc = "discarding"
  /\ canceled' = canceled \cup {next}
  /\ RevokeSelf(next)
  /\ pc' = "serving"
  /\ UNCHANGED <<world, sighup, service, making, listening, clients, timers,
                 wanted, attempted>>

\* srv.Reload, then cache.Swap, adjacent but not atomic.
SwapRules ==
  /\ pc = "swapping"
  /\ cur' = [timeout |-> nextCfg.timeout, epoch |-> cur.epoch + 1]
  /\ pc' = "swapped"
  /\ UNCHANGED <<world, sighup, cfg, client, inner, making, listening, tokens,
                 wanted, attempted>>

SwapClient ==
  /\ pc = "swapped"
  /\ inner' = [client |-> next, epoch |-> inner.epoch + 1]
  /\ pc' = "retire"
  /\ UNCHANGED <<world, sighup, cfg, client, cur, making, listening, tokens,
                 wanted, attempted>>

Larger(a, b) == IF a > b THEN a ELSE b

\* Mutants: only the new timeout counts, or what it adds to the old one.
GracePeriodOfNew == nextCfg.timeout + ProbeTimeout
GracePeriodAdded == nextCfg.timeout - cfg.timeout + ProbeTimeout

\* How long the replaced client's token outlives the swap.
GracePeriod == Larger(cfg.timeout, nextCfg.timeout) + ProbeTimeout

\* Mutant: signals that came in during the reload count as taken by it.
RetireDraining ==
  /\ pc = "retire"
  /\ canceled' = canceled \cup {client}
  /\ timers' = timers \cup {[client |-> client, at |-> now + GracePeriod]}
  /\ client' = next /\ cfg' = nextCfg
  /\ sighup' = FALSE
  /\ pc' = "serving"
  /\ UNCHANGED <<world, cur, inner, making, listening, clients, live, stranded,
                 wanted, attempted>>

\* The old client stops renewing, and its token gets a timer.
Retire ==
  /\ pc = "retire"
  /\ canceled' = canceled \cup {client}
  /\ timers' = timers \cup {[client |-> client, at |-> now + GracePeriod]}
  /\ client' = next /\ cfg' = nextCfg
  /\ pc' = "serving"
  /\ UNCHANGED <<world, sighup, cur, inner, making, listening, clients, live,
                 stranded, wanted, attempted>>

\* The timer of a replaced client fires.
Revoke(t) ==
  /\ now = t.at /\ pc # "exited"
  /\ RevokeSelf(t.client)
  /\ timers' = timers \ {t}
  /\ UNCHANGED <<world, sighup, pc, service, making, listening, clients,
                 canceled, wanted, attempted>>

-----------------------------------------------------------------------------
\* Shutdown: the listeners are closed before the token goes.

Leave ==
  /\ pc = "serving" /\ done
  /\ pc' = "closing"
  /\ UNCHANGED <<world, sighup, service, making, listening, tokens, wanted,
                 attempted>>

\* A listener that closes by itself ends the daemon the same way.
LoseListener ==
  /\ pc = "serving"
  /\ pc' = "closing"
  /\ UNCHANGED <<world, sighup, service, making, listening, tokens, wanted,
                 attempted>>

CloseListeners ==
  /\ pc = "closing"
  /\ listening' = FALSE
  /\ pc' = "revoking"
  /\ UNCHANGED <<world, sighup, service, making, tokens, wanted, attempted>>

RevokeLast ==
  /\ pc = "revoking"
  /\ canceled' = canceled \cup {client}
  /\ RevokeSelf(client)
  /\ pc' = "exited"
  /\ UNCHANGED <<world, sighup, service, making, listening, clients, timers,
                 wanted, attempted>>

-----------------------------------------------------------------------------
\* Requests.

Request(q, r) ==
  /\ requests' = [requests EXCEPT ![q] = r]
  /\ UNCHANGED <<now, file, done, sighup, pc, service, making, listening,
                 tokens, wanted, attempted>>

\* handle: the timeout is the one in effect now.
Accept(q) ==
  /\ listening /\ requests[q].pc = "idle"
  /\ Request(q, [pc |-> "loaded", epoch |-> cur.epoch,
                 deadline |-> now + cur.timeout])

\* StaleCache.Read takes the client.
Capture(q) ==
  LET r == requests[q] IN
  /\ r.pc = "loaded"
  /\ Request(q, [pc |-> "captured", deadline |-> r.deadline,
                 client |-> inner.client,
                 late |-> r.epoch < inner.epoch
                          /\ now + cur.timeout < r.deadline])

Finish(q) ==
  /\ requests[q].pc # "idle"
  /\ Request(q, Idle)

-----------------------------------------------------------------------------
Main ==
  \/ Start \/ Authenticate \/ FailAuthentication \/ Recheck \/ Ready
  \/ TakeReload \/ Load \/ StopTimer \/ Discard
  \/ SwapRules \/ SwapClient \/ Retire
  \/ Leave \/ CloseListeners \/ RevokeLast

Next ==
  \/ Edit \/ Hangup \/ Terminate \/ Tick
  \/ Main
  \/ FireGiveUp \/ LoginSucceeds \/ LoginFails \/ LoseListener
  \/ \E t \in timers : Revoke(t)
  \/ pc # "exited" /\ \E q \in Requests : Accept(q) \/ Capture(q) \/ Finish(q)

\* The main goroutine and the timers run, time passes, and requests end; a
\* login is only sure to return once its context is canceled.
Fairness ==
  /\ WF_vars(Main) /\ WF_vars(FireGiveUp) /\ WF_vars(Tick)
  /\ WF_vars(fired /\ LoginFails)
  /\ \A q \in Requests : WF_vars(Finish(q))
  /\ WF_vars(\E t \in timers : Revoke(t))

Spec == Init /\ [][Next]_vars
FairSpec == Spec /\ Fairness

-----------------------------------------------------------------------------
\* Properties.

Stopping == pc \in {"revoking", "exited"}

\* A token outlives the requests that hold its client, whichever side of the
\* two swaps they were on and however many reloads there are, unless the daemon
\* stops.  Not covered is a request which both swaps overtook between its two
\* loads (main.go:287-288) and left more time than the timeout they put in
\* would have given it: the next wait does not consider its timeout.
TokenOutlivesItsRequests ==
  \A q \in Requests :
    LET r == requests[q] IN
    r.pc = "captured" /\ ~r.late /\ now < Ends(r) /\ ~Stopping
      => r.client \in live

\* What requests are served with works while connections are accepted: no
\* step of the daemon has revoked its token or stopped its renewal, and a login
\* that only just lost against the timeout is never installed.  SIGTERM itself
\* ends every renewal (main.go:260), at most a reload before the listeners
\* close; that is done, not canceled.
InstalledClientIsAlive ==
  listening => inner.client \in live /\ inner.client \notin canceled

\* No login is forgotten: every live token is in use, being installed, or has
\* a timer, or is out of the daemon's reach, because its one revocation was
\* tried and failed or because the answer that held it never came
\* (client.go:579-581: "Best effort, an unrevoked token still dies at its
\* TTL").  A process that ends drops its timers.
NoTokenIsForgotten ==
  pc # "exited" =>
    \A c \in live \ stranded :
      \/ c = client
      \/ /\ c = next
        /\ pc \in {"returned", "discarding", "swapping", "swapped", "retire"}
      \/ \E t \in timers : t.client = c

\* A SIGHUP is not lost to the one under way: when the loop waits again with
\* an empty channel, a reload has loaded the file as it was when the last one
\* was sent, or a later one.
HangupIsNotLost ==
  pc = "serving" /\ ~sighup => attempted >= wanted

\* A reload ends, in an outage too, and the loop takes signals again.
ReloadEnds == pc = "loading" ~> pc \in {"serving", "exited"}

\* The promise as the code states it, for every request that holds a client.
EveryHolderFinishes ==
  \A q \in Requests :
    LET r == requests[q] IN
    r.pc = "captured" /\ now < Ends(r) /\ ~Stopping => r.client \in live
=============================================================================
