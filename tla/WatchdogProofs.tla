--------------------------- MODULE WatchdogProofs ---------------------------
(***************************************************************************)
(* The watchdog is fed for every interval above what a reload can take:    *)
(* WatchdogIsFed for all constants of Watchdog.                            *)
(***************************************************************************)
EXTENDS Watchdog, TLAPS

ClockTypes ==
  /\ now \in Nat /\ pinged \in Nat /\ tickAt \in Nat /\ ticked \in BOOLEAN
  /\ giveUpAt \in Nat \cup {Never} /\ until \in Nat /\ fired \in BOOLEAN

\* While the loop waits, the next tick is at most half the interval after
\* the last ping, or is already in the channel.
ServingInTime ==
  pc = "serving" =>
    /\ now <= pinged + Half
    /\ ticked \/ tickAt <= pinged + Half

\* The ticker goes on while a reload keeps the loop from it.
TickerInTime == Armed => now <= tickAt /\ tickAt <= now + Half

\* A reload's login is given up ReloadTimeout after the ping that began it.
LoginInTime ==
  /\ pc = "loading" => now = pinged
  /\ pc = "login" =>
       IF fired THEN now <= pinged + ReloadTimeout
                ELSE giveUpAt = pinged + ReloadTimeout /\ now <= giveUpAt
  /\ pc \in {"returned", "swapping", "swapped", "retire"} =>
       now <= pinged + ReloadTimeout

\* The revocation of a discarded login ends RevokeTimeout later.
DiscardInTime ==
  pc = "discarding" =>
    now <= until /\ until <= pinged + ReloadTimeout + RevokeTimeout

FedInv == ClockTypes /\ ServingInTime /\ TickerInTime /\ LoginInTime
          /\ DiscardInTime

Parts == ServingInTime /\ TickerInTime /\ LoginInTime /\ DiscardInTime

-----------------------------------------------------------------------------
\* Half the interval is below the interval, however it rounds.
LEMMA HalfIsShorter == Half \in Nat /\ Half < WatchdogSec
BY ReloadAssumptions, WatchdogAssumption DEF Half

\* The invariant keeps every gap below the interval.
LEMMA FedInvFeeds == FedInv => WatchdogIsFed
<1> SUFFICES ASSUME FedInv, Armed PROVE now - pinged < WatchdogSec
  BY DEF WatchdogIsFed
<1> USE DEF FedInv, ClockTypes
<1>1. CASE pc = "serving"
  BY <1>1, HalfIsShorter, WatchdogAssumption DEF ServingInTime
<1>2. CASE pc = "discarding"
  BY <1>2, ReloadAssumptions, WatchdogAssumption DEF DiscardInTime
<1>3. CASE pc \in {"loading", "login", "returned", "swapping", "swapped",
                   "retire"}
  BY <1>3, ReloadAssumptions, WatchdogAssumption DEF LoginInTime
<1> QED BY <1>1, <1>2, <1>3 DEF Armed

LEMMA FedInitially == WatchdogInit => FedInv
<1> SUFFICES ASSUME WatchdogInit PROVE FedInv
  OBVIOUS
<1>1. /\ now = 0 /\ pc = "start" /\ giveUpAt = Never /\ fired = FALSE
      /\ until = 0 /\ pinged = 0 /\ tickAt = Half /\ ticked = FALSE
  BY DEF WatchdogInit, Init
<1> QED BY <1>1, HalfIsShorter DEF FedInv, ClockTypes, ServingInTime,
           TickerInTime, LoginInTime, DiscardInTime, Armed

\* Every step but the clock's leaves the clock alone, and starts no timer in
\* the past.
LEMMA ClockTypesStep == ASSUME FedInv, Next /\ Pings PROVE ClockTypes'
<1> USE HalfIsShorter DEF FedInv, ClockTypes, Pings
<1>1. CASE Load
  <2>1. now' = now /\ until' = until
    BY <1>1 DEF Load, world, making
  <2>2. \/ giveUpAt' = giveUpAt /\ fired' = fired
        \/ giveUpAt' = now + ReloadTimeout /\ fired' = FALSE
    BY <1>1 DEF Load, making
  <2>3. fired' \in BOOLEAN
    BY <2>2
  <2>4. giveUpAt' \in Nat \cup {Never}
    BY <2>2, ReloadAssumptions
  <2>5. pinged' \in Nat /\ tickAt' \in Nat /\ ticked' \in BOOLEAN
    OBVIOUS
  <2> QED BY <2>1, <2>3, <2>4, <2>5
<1>2. CASE StopTimer
  BY <1>2, ReloadAssumptions DEF StopTimer, world
<1>3. CASE Tick
  BY <1>3 DEF Tick, making
<1>4. CASE FireGiveUp
  BY <1>4 DEF FireGiveUp, world
<1>5. ASSUME Edit \/ Hangup \/ Terminate \/ Start \/ Authenticate
             \/ FailAuthentication \/ Recheck \/ Ready \/ TakeReload
      PROVE  ClockTypes'
  BY <1>5 DEF Edit, Hangup, Terminate, Start, Authenticate,
     FailAuthentication, Recheck, Ready, TakeReload, world, making
<1>6. ASSUME Discard \/ SwapRules \/ SwapClient \/ Retire \/ Leave
             \/ CloseListeners \/ RevokeLast \/ LoginSucceeds \/ LoginFails
             \/ LoseListener \/ (\E t \in timers : Revoke(t))
             \/ \E q \in Requests : Accept(q) \/ Capture(q) \/ Finish(q)
      PROVE  ClockTypes'
  BY <1>6 DEF Discard, SwapRules, SwapClient, Retire, Leave, CloseListeners,
     RevokeLast, LoginSucceeds, LoginFails, LoseListener, Revoke, Accept,
     Capture, Finish, Request, world, making
<1> QED BY <1>1, <1>2, <1>3, <1>4, <1>5, <1>6 DEF Next, Main

\* Time passes, up to the ticker, the give-up timer and the revocation.
LEMMA TimeStep == ASSUME FedInv, Tick, Pings PROVE FedInv'
<1> USE HalfIsShorter, ReloadAssumptions DEF FedInv, ClockTypes
<1>1. /\ now' = now + 1 /\ pc' = pc /\ giveUpAt' = giveUpAt /\ until' = until
      /\ fired' = fired /\ ticked' = ticked
      /\ Waits /\ (Armed => now < tickAt)
  BY DEF Tick, making, Pings
<1>2. pinged' = pinged /\ (Armed => tickAt' = tickAt)
  BY <1>1 DEF Pings, Edge, Armed
<1>3. Armed' <=> Armed
  BY <1>1 DEF Armed
<1>4. ClockTypes'
  BY <1>1, ClockTypesStep DEF Next
<1>5. ServingInTime'
  BY <1>1, <1>2 DEF ServingInTime, Waits, Armed
<1>6. TickerInTime'
  BY <1>1, <1>2, <1>3 DEF TickerInTime
<1>7. LoginInTime'
  BY <1>1, <1>2 DEF LoginInTime, Waits, Tick, Never
<1>8. DiscardInTime'
  BY <1>1, <1>2 DEF DiscardInTime, Tick
<1> QED BY <1>4, <1>5, <1>6, <1>7, <1>8

\* A step that takes the loop nowhere and sets no clock keeps the gaps.
LEMMA IdleStep ==
  ASSUME FedInv, Pings, UNCHANGED <<now, pc, giveUpAt, until, fired>>
  PROVE  Parts'
<1>1. pinged' = pinged /\ ticked' = ticked /\ (Armed => tickAt' = tickAt)
  BY DEF Pings, Edge, Armed
<1> QED BY <1>1 DEF FedInv, Parts, ServingInTime, TickerInTime, LoginInTime,
           DiscardInTime, Armed

\* A step before READY=1 or after the loop was left is not watched.
LEMMA UnwatchedStep == ASSUME pc' \notin {"serving"}, ~Armed' PROVE Parts'
BY DEF Parts, ServingInTime, TickerInTime, LoginInTime, DiscardInTime, Armed

\* A step that takes the loop back to its wait sends a ping.
LEMMA ReturnStep ==
  ASSUME FedInv, Pings, now' = now, pc' = "serving", pc # "serving",
         pc = "ready" \/ Armed
  PROVE  Parts'
<1>1. pinged' = now /\ ticked' = ticked
  BY DEF Pings, Edge
<1>2. now <= tickAt' /\ tickAt' <= now + Half
  BY HalfIsShorter DEF Pings, FedInv, ClockTypes, TickerInTime, Armed
<1> QED BY <1>1, <1>2, HalfIsShorter DEF FedInv, ClockTypes, Parts,
           ServingInTime, TickerInTime, LoginInTime, DiscardInTime

\* Inside a reload, every step keeps to the time of the one before.
LEMMA ReloadStep ==
  ASSUME FedInv, Pings,
         TakeReload \/ Load \/ StopTimer \/ Discard \/ SwapRules \/ SwapClient
         \/ Retire \/ FireGiveUp \/ LoginSucceeds \/ LoginFails
  PROVE  Parts'
<1> USE HalfIsShorter, ReloadAssumptions DEF FedInv, ClockTypes
<1>1. CASE TakeReload
  <2>1. pc = "serving" /\ pc' = "loading" /\ now' = now
    BY <1>1 DEF TakeReload, world
  <2>2. pinged' = now /\ tickAt' = tickAt
    BY <2>1 DEF Pings, Edge
  <2> QED BY <2>1, <2>2 DEF Parts, ServingInTime, TickerInTime, LoginInTime,
             DiscardInTime, Armed
<1>2. CASE Load
  <2>1. pc = "loading" /\ now' = now
    BY <1>2 DEF Load, world
  <2>2. CASE pc' = "serving"
    BY <2>1, <2>2, ReturnStep DEF Armed
  <2>3. CASE pc' # "serving"
    <3>1. pc' = "login" /\ giveUpAt' = now + ReloadTimeout /\ fired' = FALSE
      BY <1>2, <2>3 DEF Load
    <3>2. pinged' = pinged /\ tickAt' = tickAt
      BY <2>1, <3>1 DEF Pings, Edge
    <3> QED BY <2>1, <3>1, <3>2 DEF Parts, ServingInTime, TickerInTime,
               LoginInTime, DiscardInTime, Armed
  <2> QED BY <2>2, <2>3
<1>3. CASE StopTimer
  <2>1. pc = "returned" /\ now' = now
    BY <1>3 DEF StopTimer, world
  <2>2. CASE pc' = "serving"
    BY <2>1, <2>2, ReturnStep DEF Armed
  <2>3. CASE pc' # "serving"
    <3>1. \/ pc' = "swapping"
          \/ pc' = "discarding" /\ until' = now + RevokeTimeout
      BY <1>3, <2>3 DEF StopTimer
    <3>2. pinged' = pinged /\ tickAt' = tickAt
      BY <2>1, <3>1 DEF Pings, Edge
    <3> QED BY <2>1, <3>1, <3>2 DEF Parts, ServingInTime, TickerInTime,
               LoginInTime, DiscardInTime, Armed
  <2> QED BY <2>2, <2>3
<1>4. CASE Discard
  BY <1>4, ReturnStep DEF Discard, world, Armed
<1>5. CASE Retire
  BY <1>5, ReturnStep DEF Retire, world, Armed
<1>6. CASE SwapRules
  <2>1. pc = "swapping" /\ pc' = "swapped" /\ now' = now
    BY <1>6 DEF SwapRules, world
  <2>2. pinged' = pinged /\ tickAt' = tickAt
    BY <2>1 DEF Pings, Edge
  <2> QED BY <2>1, <2>2 DEF Parts, ServingInTime, TickerInTime, LoginInTime,
             DiscardInTime, Armed
<1>7. CASE SwapClient
  <2>1. pc = "swapped" /\ pc' = "retire" /\ now' = now
    BY <1>7 DEF SwapClient, world
  <2>2. pinged' = pinged /\ tickAt' = tickAt
    BY <2>1 DEF Pings, Edge
  <2> QED BY <2>1, <2>2 DEF Parts, ServingInTime, TickerInTime, LoginInTime,
             DiscardInTime, Armed
<1>8. CASE FireGiveUp
  <2>1. now = giveUpAt /\ fired' /\ pc' = pc /\ now' = now /\ until' = until
    BY <1>8 DEF FireGiveUp, world
  <2>2. pinged' = pinged /\ (Armed => tickAt' = tickAt) /\ ticked' = ticked
    BY <2>1 DEF Pings, Edge, Armed
  <2> QED BY <2>1, <2>2 DEF Parts, ServingInTime, TickerInTime, LoginInTime,
             DiscardInTime, Armed
<1>9. CASE LoginSucceeds \/ LoginFails
  <2>1. pc = "login" /\ pc' = "returned" /\ now' = now
    BY <1>9 DEF LoginSucceeds, LoginFails, world
  <2>2. pinged' = pinged /\ tickAt' = tickAt
    BY <2>1 DEF Pings, Edge
  <2>3. now <= pinged + ReloadTimeout
    BY <2>1 DEF LoginInTime
  <2> QED BY <2>1, <2>2, <2>3 DEF Parts, ServingInTime, TickerInTime,
             LoginInTime, DiscardInTime, Armed
<1> QED BY <1>1, <1>2, <1>3, <1>4, <1>5, <1>6, <1>7, <1>8, <1>9

LEMMA FedStep == ASSUME FedInv, [WatchdogNext]_watchdogVars PROVE FedInv'
<1>1. CASE Next /\ Pings
  <2>1. SUFFICES Parts'
    BY <1>1, ClockTypesStep DEF FedInv, Parts
  <2>2. CASE Tick
    BY <1>1, <2>2, TimeStep DEF FedInv, Parts
  <2>3. CASE \/ TakeReload \/ Load \/ StopTimer \/ Discard \/ SwapRules
             \/ SwapClient \/ Retire \/ FireGiveUp \/ LoginSucceeds
             \/ LoginFails
    BY <1>1, <2>3, ReloadStep
  <2>4. CASE Ready
    BY <1>1, <2>4, ReturnStep DEF Ready, world
  <2>5. CASE \/ Start \/ Authenticate \/ FailAuthentication \/ Recheck
             \/ Leave \/ CloseListeners \/ RevokeLast \/ LoseListener
    <3>1. ~Armed'
      BY <2>5 DEF Start, Authenticate, FailAuthentication, Recheck, Leave,
         CloseListeners, RevokeLast, LoseListener, Armed
    <3> QED BY <3>1, UnwatchedStep DEF Armed
  <2>6. CASE \/ Edit \/ Hangup \/ Terminate \/ (\E t \in timers : Revoke(t))
             \/ \E q \in Requests : Accept(q) \/ Capture(q) \/ Finish(q)
    <3>1. UNCHANGED <<now, pc, giveUpAt, until, fired>>
      BY <2>6 DEF Edit, Hangup, Terminate, Revoke, Accept, Capture, Finish,
         Request, world, making
    <3> QED BY <1>1, <3>1, IdleStep
  <2> QED BY <1>1, <2>2, <2>3, <2>4, <2>5, <2>6 DEF Next, Main
<1>2. CASE TickerFires
  BY <1>2, HalfIsShorter DEF TickerFires, vars, FedInv, ClockTypes,
     ServingInTime, TickerInTime, LoginInTime, DiscardInTime, Armed
<1>3. CASE Ping
  <2>1. /\ pc = "serving" /\ pc' = pc /\ now' = now /\ pinged' = now
        /\ ticked' = FALSE /\ tickAt' = tickAt
        /\ UNCHANGED <<giveUpAt, until, fired>>
    BY <1>3 DEF Ping, vars
  <2>2. now <= tickAt /\ tickAt <= now + Half
    BY <2>1 DEF FedInv, TickerInTime, Armed
  <2>3. ClockTypes'
    BY <2>1 DEF FedInv, ClockTypes
  <2>4. ServingInTime' /\ TickerInTime'
    BY <2>1, <2>2, HalfIsShorter DEF FedInv, ClockTypes, ServingInTime,
       TickerInTime
  <2> QED BY <2>1, <2>3, <2>4 DEF FedInv, LoginInTime, DiscardInTime
<1>4. CASE UNCHANGED watchdogVars
  BY <1>4 DEF watchdogVars, vars, watchdog, FedInv, ClockTypes,
     ServingInTime, TickerInTime, LoginInTime, DiscardInTime, Armed
<1> QED BY <1>1, <1>2, <1>3, <1>4 DEF WatchdogNext

-----------------------------------------------------------------------------
\* The watchdog is fed in every behaviour, for any interval the unit file
\* allows (main.go:204-225, 244-277, 323-349).
THEOREM AlwaysFed == WatchdogSpec => []WatchdogIsFed
<1>1. WatchdogInit => FedInv
  BY FedInitially
<1>2. FedInv /\ [WatchdogNext]_watchdogVars => FedInv'
  BY FedStep
<1>3. FedInv => WatchdogIsFed
  BY FedInvFeeds
<1> QED BY <1>1, <1>2, <1>3, PTL DEF WatchdogSpec
=============================================================================
