----------------------------- MODULE CredServer -----------------------------
(***************************************************************************)
(* credserver.Server and the status line the main loop makes of its        *)
(* counters: each connection is handled by a goroutine of its own, which   *)
(* counts it and then signals the loop over a channel that holds one       *)
(* signal.  The loop reads the counters one at a time, and a reload blocks *)
(* it and ends with a status line of its own.                              *)
(***************************************************************************)
EXTENDS Integers, FiniteSets

CONSTANTS
  Conns,      \* the connections of a behaviour
  MaxReloads  \* bound on the reloads

ASSUME ServerAssumptions == IsFiniteSet(Conns) /\ MaxReloads \in Nat

VARIABLES
  conns,    \* what becomes of each connection
  served, refused,  \* the fields of Server
  stale,    \* StaleCache.stale
  stats,    \* a signal is in statsCh
  loop,     \* where the main loop stands
  line,     \* the status line the loop is making
  status,   \* the status line the service manager shows
  reloads   \* how many reloads were taken

vars == <<conns, served, refused, stale, stats, loop, line, status, reloads>>

counters == <<served, refused, stale>>
mainLoop == <<loop, line, status, reloads>>

\* A connection, and what its requester has received.  leaving, counted and
\* signaled are the steps of handle's deferred functions.
Conn == [pc : {"new", "accepted", "resolved", "leaving", "counted",
               "signaled", "closed"},
         got : {"nothing", "part", "all"}]

Line == [served : Nat, refused : Nat, stale : Nat]

TypeOK ==
  /\ conns \in [Conns -> Conn]
  /\ served \in Nat /\ refused \in Nat /\ stale \in Nat /\ stats \in BOOLEAN
  /\ loop \in {"waiting", "status", "refused", "stale", "notify", "reload"}
  /\ line \in Line /\ status \in Line /\ reloads \in Nat

NoLine == [served |-> 0, refused |-> 0, stale |-> 0]

Init ==
  /\ conns = [c \in Conns |-> [pc |-> "new", got |-> "nothing"]]
  /\ served = 0 /\ refused = 0 /\ stale = 0 /\ stats = FALSE
  /\ loop = "waiting" /\ line = NoLine /\ status = NoLine /\ reloads = 0

-----------------------------------------------------------------------------
\* handle.

\* A connection's handler goes from one step to the next.
Step(c, from, to) ==
  /\ conns[c].pc = from
  /\ conns' = [conns EXCEPT ![c].pc = to]

Accept(c) ==
  /\ Step(c, "new", "accepted")
  /\ UNCHANGED <<counters, stats, mainLoop>>

\* The peer is not the service manager, or does not speak the protocol; no
\* rule matches; OpenBao's answer is an error and nothing is remembered.
Reject(c) ==
  /\ Step(c, "accepted", "leaving")
  /\ UNCHANGED <<counters, stats, mainLoop>>

\* Resolve reads the secret, fresh or remembered.
Resolve(c) ==
  /\ Step(c, "accepted", "resolved")
  /\ stale' \in {stale, stale + 1}
  /\ UNCHANGED <<served, refused, stats, mainLoop>>

\* The field is missing or does not decode, or the payload is too large.
Withhold(c) ==
  /\ Step(c, "resolved", "leaving")
  /\ UNCHANGED <<counters, stats, mainLoop>>

\* The write, which may stop part way.
Write(c) ==
  /\ conns[c].pc = "resolved"
  /\ \E got \in {"nothing", "part", "all"} :
       conns' = [conns EXCEPT ![c].pc = "leaving", ![c].got = got]
  /\ UNCHANGED <<counters, stats, mainLoop>>

\* Mutants: whatever reached the write counts as served; a counter runs backwards.
CountAttempts(c) ==
  /\ Step(c, "leaving", "counted")
  /\ IF conns[c].got # "nothing"
     THEN served' = served + 1 /\ UNCHANGED refused
     ELSE refused' = refused + 1 /\ UNCHANGED served
  /\ UNCHANGED <<stale, stats, mainLoop>>
CountDown(c) ==
  /\ Step(c, "leaving", "counted")
  /\ IF conns[c].got = "all"
     THEN served' = served + 1 /\ UNCHANGED refused
     ELSE refused' = refused - 1 /\ UNCHANGED served
  /\ UNCHANGED <<stale, stats, mainLoop>>

\* The deferred count: served only after a write without an error.
Count(c) ==
  /\ Step(c, "leaving", "counted")
  /\ IF conns[c].got = "all"
     THEN served' = served + 1 /\ UNCHANGED refused
     ELSE refused' = refused + 1 /\ UNCHANGED served
  /\ UNCHANGED <<stale, stats, mainLoop>>

Signal(c) ==
  /\ Step(c, "counted", "signaled")
  /\ stats' = TRUE
  /\ UNCHANGED <<counters, mainLoop>>

Close(c) ==
  /\ Step(c, "signaled", "closed")
  /\ UNCHANGED <<counters, stats, mainLoop>>

-----------------------------------------------------------------------------
\* The main loop.

TakeStats ==
  /\ loop = "waiting" /\ stats
  /\ stats' = FALSE
  /\ loop' = "status"
  /\ UNCHANGED <<conns, counters, line, status, reloads>>

\* A reload blocks the loop; notifyReady ends it with a status line.
TakeReload ==
  /\ loop = "waiting" /\ reloads < MaxReloads
  /\ reloads' = reloads + 1
  /\ loop' = "reload"
  /\ UNCHANGED <<conns, counters, stats, line, status>>

EndReload ==
  /\ loop = "reload"
  /\ loop' = "status"
  /\ UNCHANGED <<conns, counters, stats, line, status, reloads>>

\* status: Stats loads the counters one after the other, then the cache's.
ReadServed ==
  /\ loop = "status"
  /\ line' = [line EXCEPT !.served = served]
  /\ loop' = "refused"
  /\ UNCHANGED <<conns, counters, stats, status, reloads>>

ReadRefused ==
  /\ loop = "refused"
  /\ line' = [line EXCEPT !.refused = refused]
  /\ loop' = "stale"
  /\ UNCHANGED <<conns, counters, stats, status, reloads>>

ReadStale ==
  /\ loop = "stale"
  /\ line' = [line EXCEPT !.stale = stale]
  /\ loop' = "notify"
  /\ UNCHANGED <<conns, counters, stats, status, reloads>>

\* Mutant: signals that came in while the line was made are covered by it.
NotifyDraining ==
  /\ loop = "notify"
  /\ status' = line
  /\ stats' = FALSE
  /\ loop' = "waiting"
  /\ UNCHANGED <<conns, counters, line, reloads>>

Notify ==
  /\ loop = "notify"
  /\ status' = line
  /\ loop' = "waiting"
  /\ UNCHANGED <<conns, counters, stats, line, reloads>>

Loop == TakeStats \/ EndReload \/ ReadServed \/ ReadRefused \/ ReadStale
          \/ Notify

Handle(c) ==
  \/ Accept(c) \/ Reject(c) \/ Resolve(c) \/ Withhold(c) \/ Write(c)
  \/ Count(c) \/ Signal(c) \/ Close(c)

Next == Loop \/ TakeReload \/ \E c \in Conns : Handle(c)

\* The loop and the handlers are scheduled; every handler's waits have
\* deadlines.
Fairness ==
  /\ WF_vars(Loop)
  /\ \A c \in Conns : WF_vars(conns[c].pc # "new" /\ Handle(c))

Spec == Init /\ [][Next]_vars
FairSpec == Spec /\ Fairness

-----------------------------------------------------------------------------
\* Properties.

After(c) == conns[c].pc \in {"counted", "signaled", "closed"}

\* Whatever way a connection ended, it is counted once: as served if the
\* requester got the whole credential, as refused otherwise.
EveryConnectionIsCounted ==
  /\ served = Cardinality({c \in Conns : After(c) /\ conns[c].got = "all"})
  /\ refused = Cardinality({c \in Conns : After(c) /\ conns[c].got # "all"})

\* The status line is current whenever nothing is on its way to it: a signal
\* that coalesced with another, or came while the line was made or a reload
\* blocked the loop, is not lost.
StatusIsCurrent ==
  loop = "waiting" /\ ~stats /\ (\A c \in Conns : conns[c].pc # "counted") =>
    status.served = served /\ status.refused = refused

\* Once connections stop coming in, the status line ends up right for good,
\* the stale count included.
StatusCatchesUp ==
  <>[](status = [served |-> served, refused |-> refused, stale |-> stale])
=============================================================================
