------------------------------ MODULE Watchdog ------------------------------
(***************************************************************************)
(* The service manager kills the daemon when no ping came for WatchdogSec. *)
(* The loop of the main goroutine pings on a ticker of half that interval, *)
(* and a reload, which keeps the loop from the ticker, pings at both of    *)
(* its edges: every step of Reload, with the pings it sends.               *)
(***************************************************************************)
EXTENDS Reload

CONSTANT WatchdogSec  \* WatchdogSec= of the unit

\* What the unit file asks of the interval, and the daemon warns about.
ASSUME WatchdogAssumption ==
  /\ WatchdogSec \in Nat
  /\ WatchdogSec > ReloadTimeout + RevokeTimeout

VARIABLES
  pinged,  \* when the manager was last pinged
  tickAt,  \* when the ticker fires next
  ticked   \* a tick is in the ticker's channel

watchdog == <<pinged, tickAt, ticked>>
watchdogVars == <<vars, watchdog>>

Half == WatchdogSec \div 2

\* The manager waits for pings from READY=1 until the daemon stops.
Armed == pc \in {"serving", "loading", "login", "returned", "discarding",
                 "swapping", "swapped", "retire"}

WatchdogTypeOK ==
  /\ TypeOK
  /\ pinged \in Nat /\ tickAt \in Nat /\ ticked \in BOOLEAN

WatchdogInit ==
  /\ Init
  /\ pinged = 0 /\ tickAt = Half /\ ticked = FALSE

\* Mutant: only the end of a reload pings.
EdgeAtEnd == pc # "serving" /\ pc' = "serving"

\* READY=1, the start of a reload, and its end, success or not.
Edge == \/ pc = "serving" /\ pc' = "loading"
        \/ pc # "serving" /\ pc' = "serving"

\* The loop is scheduled at once when it need not wait for OpenBao, the
\* manager or the ticker.
Waits == \/ pc \in {"auth", "login", "discarding", "revoking"}
         \/ pc = "serving" /\ ~ticked

\* The ping a step sends, and the ticker READY=1 is followed by.
Pings ==
  /\ now' # now => Waits /\ (Armed => now < tickAt)
  /\ pinged' = IF Edge THEN now ELSE pinged
  /\ tickAt' = IF pc = "ready" THEN now + Half ELSE tickAt
  /\ UNCHANGED ticked

\* The ticker's channel holds one tick.
TickerFires ==
  /\ Armed /\ now = tickAt
  /\ ticked' = TRUE
  /\ tickAt' = now + Half
  /\ UNCHANGED <<vars, pinged>>

\* The loop takes a tick.
Ping ==
  /\ pc = "serving" /\ ticked
  /\ pinged' = now
  /\ ticked' = FALSE
  /\ UNCHANGED <<vars, tickAt>>

WatchdogNext ==
  \/ Next /\ Pings
  \/ TickerFires
  \/ Ping

WatchdogSpec == WatchdogInit /\ [][WatchdogNext]_watchdogVars

\* The ticker is a timer, and the loop takes what is ready.
FairWatchdog ==
  /\ WatchdogSpec /\ Fairness
  /\ WF_watchdogVars(TickerFires) /\ WF_watchdogVars(Ping)

-----------------------------------------------------------------------------
\* The daemon is never killed for a reload: pings are less than the interval
\* apart, through a login that is given up and whose late answer is revoked.
WatchdogIsFed == Armed => now - pinged < WatchdogSec
=============================================================================
