---------------------------- MODULE ReloadProofs ----------------------------
(***************************************************************************)
(* Proofs about the main goroutine of Reload, for any requests, timeouts,  *)
(* edits and number of reloads: which tokens live, who works with them,    *)
(* and what becomes of a SIGHUP.                                           *)
(***************************************************************************)
EXTENDS Reload, TLAPS

\* Where the loop is up, where it holds a token, and where a reload has a
\* client that is not in use yet.
Up       == {"serving", "loading", "login", "returned", "discarding",
             "swapping", "swapped", "retire", "closing"}
Starting == {"start", "auth", "recheck", "ready"}
Holding  == Up \cup {"recheck", "ready", "revoking"}
Making   == {"login", "returned", "discarding", "swapping", "swapped",
             "retire"}

\* Clients are numbered in the order they are made, so a new one was never
\* canceled and has no token and no timer.
Numbered ==
  /\ client <= clients /\ next <= clients
  /\ live \subseteq 0..clients /\ canceled \subseteq 0..clients
  /\ \A t \in timers : t.client <= clients
  /\ pc = "loading" => clients < MaxClients

\* The client in use works, and it is the one the cache has, except between
\* the cache's swap and the retirement.
InUse ==
  /\ listening <=> pc \in Up
  /\ pc \in Up => inner.client = IF pc = "retire" THEN next ELSE client
  /\ pc \in Holding => client \in live /\ client \notin canceled

\* The client a reload makes is its own, has a token once it is made, and is
\* installed only if the timer did not fire.
BeingMade ==
  /\ pc \in Making => next # client /\ \A t \in timers : t.client # next
  /\ pc \in Making /\ ~fired => next \notin canceled
  /\ pc = "login" => ~made
  /\ pc = "login" => next \notin live
  /\ pc = "returned" /\ made => next \in live
  /\ pc = "returned" /\ ~made => next \notin live \ stranded
  /\ pc \in {"discarding", "swapping", "swapped", "retire"} => next \in live
  /\ pc \in {"swapping", "swapped", "retire"} => ~fired
  /\ giveUpAt # Never => pc \in {"login", "returned"}

\* A timer stands for one client, which is not in use and whose token lives.
Owed ==
  /\ \A t \in timers : t.client \in live /\ t.client # client
  /\ \A s, t \in timers : s.client = t.client => s = t
  /\ pc \in Starting => timers = {} /\ live \ stranded \subseteq {client}
  /\ pc \in {"start", "auth"} => client \notin live \ stranded

\* Unless a reload is about to load the file, the last SIGHUP is in the
\* channel or was followed.
Asked ==
  /\ wanted <= file.version
  /\ pc # "loading" /\ ~sighup => attempted >= wanted

\* The server's rules are one swap ahead of the cache's client between the
\* two swaps, and nowhere else.
Epochs ==
  pc \in Up \cup {"revoking"} =>
    /\ cur.epoch = IF pc = "swapped" THEN inner.epoch + 1 ELSE inner.epoch
    /\ cur.timeout = IF pc \in {"swapped", "retire"} THEN nextCfg.timeout
                                                     ELSE cfg.timeout

\* A request that holds no client yet and loaded its timeout after the swap
\* that brought the cache's client is over in time.
InTime(r) ==
  /\ r.epoch <= cur.epoch
  /\ r.epoch = cur.epoch => r.deadline <= now + cur.timeout
  /\ r.epoch < cur.epoch /\ inner.epoch <= r.epoch
       => r.deadline <= now + cfg.timeout

\* The time of the rules in effect, or, between the swaps, of those replaced.
Bounded(r) ==
  \/ r.deadline <= now + cur.timeout
  \/ pc = "swapped" /\ r.deadline <= now + cfg.timeout

\* What keeps the token of a request: its client is in use, or about to be
\* retired, or retired with a timer that outlasts the request; or it is over.
Kept(r) ==
  \/ r.client = inner.client /\ Bounded(r)
  \/ /\ pc = "retire" /\ r.client = client
     /\ r.deadline <= now + Larger(cfg.timeout, nextCfg.timeout)
  \/ \E t \in timers : t.client = r.client /\ Ends(r) <= t.at
  \/ Ends(r) <= now

\* A request before and after it takes its client.
HeldOne(r) ==
  /\ r.pc = "loaded" => InTime(r)
  /\ r.pc = "captured" /\ ~r.late => Kept(r)

Held ==
  /\ pc \in Starting => \A q \in Requests : requests[q].pc = "idle"
  /\ \A q \in Requests : HeldOne(requests[q])

\* What the main goroutine, the timers and a login decide on.
Daemon == Numbered /\ InUse /\ BeingMade /\ Owed /\ Epochs

ReloadInv == TypeOK /\ Daemon /\ Asked /\ Held

-----------------------------------------------------------------------------
LEMMA ReloadInit == Init => ReloadInv
<1> SUFFICES ASSUME Init PROVE ReloadInv
  OBVIOUS
<1> USE ReloadAssumptions DEF Init
<1>1. file \in File /\ 0 \in Client
  BY DEF File, Client
<1>2. TypeOK
  BY <1>1 DEF TypeOK, Idle, File, Never, Timer
<1>3. Daemon
  BY DEF Daemon, Numbered, InUse, BeingMade, Owed, Epochs, Up, Starting,
         Holding, Making, Never
<1>4. Asked /\ Held
  BY <1>1 DEF Asked, Held, HeldOne, Starting, Idle, File
<1> QED  BY <1>2, <1>3, <1>4 DEF ReloadInv

\* The steps outside the main goroutine leave its state alone.
Outside ==
  \/ Edit \/ Hangup \/ Terminate \/ Tick
  \/ \E q \in Requests : Accept(q) \/ Capture(q) \/ Finish(q)

LEMMA OutsideLeaves ==
  Outside => UNCHANGED <<pc, service, making, listening, tokens>>
BY DEF Outside, Edit, Hangup, Terminate, Tick, Accept, Capture, Finish, Request

LEMMA OutsideStep == ASSUME Daemon, Outside PROVE Daemon'
<1>1. /\ UNCHANGED <<pc, cfg, client, cur, inner, next, nextCfg>>
      /\ UNCHANGED <<made, giveUpAt, fired, listening, clients, live>>
      /\ UNCHANGED <<canceled, timers, stranded>>
  BY OutsideLeaves DEF service, making, tokens
<1>2. Numbered' /\ InUse'
  BY <1>1 DEF Daemon, Numbered, InUse
<1>3. BeingMade' /\ Owed'
  BY <1>1 DEF Daemon, BeingMade, Owed
<1>4. Epochs'
  BY <1>1 DEF Daemon, Epochs
<1> QED  BY <1>2, <1>3, <1>4 DEF Daemon

\* The other steps.
Inside ==
  \/ Main \/ FireGiveUp \/ LoginSucceeds \/ LoginFails \/ LoseListener
  \/ \E t \in timers : Revoke(t)

LEMMA NextSplit == Next => Outside \/ Inside
BY DEF Next, Outside, Inside

-----------------------------------------------------------------------------
\* Types.

LEMMA TypeStep == ASSUME ReloadInv, Next PROVE TypeOK'
<1> USE ReloadAssumptions
    DEF ReloadInv, TypeOK, world, service, making, tokens, RevokeSelf
<1>1. CASE Edit
  <2>1. file' \in File
    BY <1>1 DEF Edit, File
  <2> QED  BY <1>1, <2>1 DEF Edit
<1>2. CASE Hangup
  BY <1>2 DEF Hangup, File
<1>3. CASE Terminate
  BY <1>3 DEF Terminate
<1>4. CASE Tick
  BY <1>4 DEF Tick
<1>5. CASE Start \/ FailAuthentication
  BY <1>5 DEF Start, FailAuthentication
<1>6. CASE Authenticate
  BY <1>6 DEF Authenticate, Client
<1>7. CASE Recheck
  BY <1>7 DEF Recheck
<1>8. CASE Ready
  <2>1. cur' \in [timeout : Timeouts, epoch : Nat]
    BY <1>8 DEF Ready, File
  <2>2. inner' \in [client : Client, epoch : Nat]
    BY <1>8 DEF Ready
  <2> QED  BY <1>8, <2>1, <2>2 DEF Ready
<1>9. CASE TakeReload
  BY <1>9 DEF TakeReload
<1>10. CASE Load
  <2>1. clients' \in Client /\ next' \in Client
    BY <1>10 DEF Load, Client, Daemon, Numbered
  <2>2. \/ giveUpAt' = giveUpAt /\ fired' = fired /\ made' = made
        \/ giveUpAt' = now + ReloadTimeout /\ fired' = FALSE /\ made' = FALSE
    BY <1>10 DEF Load
  <2>3. nextCfg' \in File /\ until' \in Nat /\ attempted' \in 0..MaxVersion
    BY <1>10 DEF Load, File
  <2>4. made' \in BOOLEAN /\ fired' \in BOOLEAN
    BY <2>2, Zenon
  <2>5. giveUpAt' \in Nat \cup {Never}
    BY <2>2
  <2> QED  BY <1>10, <2>1, <2>3, <2>4, <2>5 DEF Load
<1>11. CASE FireGiveUp
  BY <1>11 DEF FireGiveUp
<1>12. CASE LoginSucceeds \/ LoginFails
  BY <1>12 DEF LoginSucceeds, LoginFails
<1>13. CASE StopTimer
  BY <1>13 DEF StopTimer
<1>14. CASE Discard
  BY <1>14 DEF Discard
<1>15. CASE SwapRules
  <2>1. cur' \in [timeout : Timeouts, epoch : Nat]
    BY <1>15 DEF SwapRules, File
  <2> QED  BY <1>15, <2>1 DEF SwapRules
<1>16. CASE SwapClient
  <2>1. inner' \in [client : Client, epoch : Nat]
    BY <1>16 DEF SwapClient
  <2> QED  BY <1>16, <2>1 DEF SwapClient
<1>17. CASE Retire
  <2>1. cfg.timeout \in Nat /\ nextCfg.timeout \in Nat
    BY DEF File
  <2>2. GracePeriod \in Nat
    BY <2>1 DEF GracePeriod, Larger
  <2>3. timers' \subseteq Timer
    BY <1>17, <2>2 DEF Retire, Timer
  <2> QED  BY <1>17, <2>3 DEF Retire
<1>18. CASE Leave \/ LoseListener \/ CloseListeners \/ RevokeLast
  BY <1>18 DEF Leave, LoseListener, CloseListeners, RevokeLast
<1>19. CASE \E t \in timers : Revoke(t)
  <2>1. PICK t \in timers : Revoke(t)
    BY <1>19
  <2>2. t.client \in Client
    BY DEF Timer
  <2>3. live' \subseteq Client /\ stranded' \subseteq Client
    BY <2>1, <2>2 DEF Revoke
  <2>4. timers' \subseteq Timer
    BY <2>1 DEF Revoke
  <2> QED  BY <2>1, <2>3, <2>4 DEF Revoke
<1>20. CASE \E q \in Requests : Accept(q) \/ Capture(q) \/ Finish(q)
  <2>1. PICK q \in Requests : Accept(q) \/ Capture(q) \/ Finish(q)
    BY <1>20
  <2>2. requests' \in [Requests -> {Idle} \cup Loaded \cup Captured]
    <3>1. CASE Accept(q)
      <4>1. cur.timeout \in Nat /\ cur.epoch \in Nat /\ now \in Nat
        OBVIOUS
      <4>2. [pc |-> "loaded", epoch |-> cur.epoch,
             deadline |-> now + cur.timeout] \in Loaded
        BY <4>1 DEF Loaded
      <4> QED  BY <3>1, <4>2 DEF Accept, Request
    <3>2. CASE Capture(q)
      <4>1. requests[q] \in Loaded
        BY <3>2 DEF Capture, Idle, Captured
      <4> QED  BY <3>2, <4>1 DEF Capture, Request, Loaded, Captured
    <3>3. CASE Finish(q)
      BY <3>3 DEF Finish, Request
    <3> QED  BY <2>1, <3>1, <3>2, <3>3
  <2> QED  BY <2>1, <2>2 DEF Accept, Capture, Finish, Request
<1> QED  BY <1>1, <1>2, <1>3, <1>4, <1>5, <1>6, <1>7, <1>8, <1>9, <1>10, <1>11,
            <1>12, <1>13, <1>14, <1>15, <1>16, <1>17, <1>18, <1>19, <1>20
         DEF Next, Main

-----------------------------------------------------------------------------
\* The clients, their tokens and their timers.

\* What the types say of the clients.
Numbers ==
  /\ MaxClients \in Nat /\ clients \in 0..MaxClients
  /\ client \in Nat /\ next \in Nat
  /\ now \in Nat /\ giveUpAt \in Nat \cup {Never}
  /\ \A t \in timers : t.client \in Nat

LEMMA TypesNumber == TypeOK => Numbers
BY ReloadAssumptions DEF TypeOK, Client, Timer, Numbers

LEMMA NumberedStep == ASSUME Numbers, Daemon, Inside PROVE Numbered'
<1>1. /\ clients \in Nat /\ client \in 0..clients /\ next \in 0..clients
      /\ live \subseteq 0..clients /\ canceled \subseteq 0..clients
      /\ \A t \in timers : t.client \in 0..clients
      /\ pc = "loading" => clients < MaxClients
  BY DEF Daemon, Numbered, Numbers
<1>2. CASE Authenticate
  BY <1>1, <1>2 DEF Authenticate, making, Numbered
<1>3. CASE Load
  <2>1. \/ clients' = clients + 1 /\ next' = clients + 1
        \/ clients' = clients /\ next' = next
    BY <1>3 DEF Load, making
  <2>2. UNCHANGED <<client, live, canceled, timers>> /\ pc' # "loading"
    BY <1>3 DEF Load, service
  <2> QED  BY <1>1, <2>1, <2>2 DEF Numbered
<1>4. CASE TakeReload
  BY <1>1, <1>4 DEF TakeReload, service, making, tokens, Numbered
<1>5. CASE Retire
  BY <1>1, <1>5 DEF Retire, making, Numbered
<1>6. CASE ~(Authenticate \/ Load \/ TakeReload \/ Retire)
  <2>1. UNCHANGED <<clients, client, next>> /\ live' \subseteq live \cup {next}
        /\ timers' \subseteq timers
        /\ (pc' = "loading" => pc = "loading")
    <3>1. CASE Start \/ FailAuthentication \/ Recheck \/ Ready
      BY <3>1 DEF Start, FailAuthentication, Recheck, Ready, service, making,
         tokens, RevokeSelf
    <3>2. CASE StopTimer \/ Discard \/ SwapRules \/ SwapClient
      BY <3>2 DEF StopTimer, Discard, SwapRules, SwapClient, service, making,
         tokens, RevokeSelf
    <3>3. CASE Leave \/ CloseListeners \/ RevokeLast \/ LoseListener
      BY <3>3 DEF Leave, CloseListeners, RevokeLast, LoseListener, service,
         making, tokens, RevokeSelf
    <3>4. CASE FireGiveUp \/ LoginSucceeds \/ LoginFails
      BY <3>4 DEF FireGiveUp, LoginSucceeds, LoginFails, service, making,
         tokens
    <3>5. CASE \E t \in timers : Revoke(t)
      BY <3>5 DEF Revoke, RevokeSelf, service, making
    <3> QED  BY <1>6, <3>1, <3>2, <3>3, <3>4, <3>5 DEF Inside, Main
  <2>2. canceled' \subseteq canceled \cup {client, next}
    <3>1. CASE Start \/ FailAuthentication \/ Recheck \/ Ready
      BY <3>1 DEF Start, FailAuthentication, Recheck, Ready, tokens
    <3>2. CASE StopTimer \/ Discard \/ SwapRules \/ SwapClient
      BY <3>2 DEF StopTimer, Discard, SwapRules, SwapClient, tokens
    <3>3. CASE Leave \/ CloseListeners \/ RevokeLast \/ LoseListener
      BY <3>3 DEF Leave, CloseListeners, RevokeLast, LoseListener, tokens
    <3>4. CASE FireGiveUp \/ LoginSucceeds \/ LoginFails
      BY <3>4 DEF FireGiveUp, LoginSucceeds, LoginFails, tokens
    <3>5. CASE \E t \in timers : Revoke(t)
      BY <3>5 DEF Revoke
    <3> QED  BY <1>6, <3>1, <3>2, <3>3, <3>4, <3>5 DEF Inside, Main
  <2> QED  BY <1>1, <2>1, <2>2 DEF Numbered
<1> QED  BY <1>2, <1>3, <1>4, <1>5, <1>6

LEMMA InUseStep == ASSUME Numbers, Daemon, Inside PROVE InUse'
<1> USE DEF Daemon, InUse, Numbers, Up, Holding, service, making, tokens,
            RevokeSelf
<1>1. CASE Authenticate
  <2>1. clients + 1 \notin canceled
    BY DEF Numbered
  <2> QED  BY <1>1, <2>1 DEF Authenticate
<1>2. CASE Recheck
  BY <1>2 DEF Recheck
<1>3. CASE Load
  BY <1>3 DEF Load
<1>4. CASE FireGiveUp
  BY <1>4 DEF FireGiveUp, BeingMade, Making, Never
<1>5. CASE LoginSucceeds \/ LoginFails
  BY <1>5 DEF LoginSucceeds, LoginFails
<1>6. CASE StopTimer
  BY <1>6 DEF StopTimer, BeingMade, Making
<1>7. CASE Discard
  BY <1>7 DEF Discard, BeingMade, Making
<1>8. CASE SwapRules \/ SwapClient
  BY <1>8 DEF SwapRules, SwapClient
<1>9. CASE Retire
  BY <1>9 DEF Retire, BeingMade, Making
<1>10. CASE Start \/ FailAuthentication \/ Ready \/ TakeReload
  BY <1>10 DEF Start, FailAuthentication, Ready, TakeReload
<1>11. CASE Leave \/ CloseListeners \/ RevokeLast \/ LoseListener
  BY <1>11 DEF Leave, CloseListeners, RevokeLast, LoseListener
<1>12. CASE \E t \in timers : Revoke(t)
  BY <1>12 DEF Revoke, Owed
<1> QED  BY <1>1, <1>2, <1>3, <1>4, <1>5, <1>6, <1>7, <1>8, <1>9, <1>10, <1>11,
            <1>12 DEF Inside, Main

LEMMA BeingMadeStep == ASSUME Numbers, Daemon, Inside PROVE BeingMade'
<1> USE DEF Daemon, BeingMade, Numbers, Making, Never, service, making, tokens,
            RevokeSelf
<1>1. CASE Authenticate \/ Recheck
  BY <1>1 DEF Authenticate, Recheck
<1>2. CASE Load
  BY <1>2 DEF Load, Numbered
<1>3. CASE FireGiveUp
  BY <1>3 DEF FireGiveUp
<1>4. CASE LoginSucceeds \/ LoginFails
  BY <1>4 DEF LoginSucceeds, LoginFails
<1>5. CASE StopTimer
  BY <1>5 DEF StopTimer
<1>6. CASE Discard \/ SwapRules \/ SwapClient \/ Retire
  BY <1>6 DEF Discard, SwapRules, SwapClient, Retire
<1>7. CASE Start \/ FailAuthentication \/ Ready \/ TakeReload
  BY <1>7 DEF Start, FailAuthentication, Ready, TakeReload
<1>8. CASE Leave \/ CloseListeners \/ RevokeLast \/ LoseListener
  BY <1>8 DEF Leave, CloseListeners, RevokeLast, LoseListener
<1>9. CASE \E t \in timers : Revoke(t)
  BY <1>9 DEF Revoke
<1> QED  BY <1>1, <1>2, <1>3, <1>4, <1>5, <1>6, <1>7, <1>8, <1>9
         DEF Inside, Main

LEMMA OwedStep == ASSUME Numbers, Daemon, Inside PROVE Owed'
<1> USE DEF Daemon, Owed, Numbers, Starting, service, making, tokens,
            RevokeSelf
<1>1. CASE Authenticate \/ Recheck
  BY <1>1 DEF Authenticate, Recheck, Numbered
<1>2. CASE Load \/ FireGiveUp
  BY <1>2 DEF Load, FireGiveUp
<1>3. CASE LoginSucceeds \/ LoginFails
  BY <1>3 DEF LoginSucceeds, LoginFails
<1>4. CASE StopTimer \/ SwapRules \/ SwapClient
  BY <1>4 DEF StopTimer, SwapRules, SwapClient
<1>5. CASE Discard
  BY <1>5 DEF Discard, BeingMade, Making
<1>6. CASE Retire
  <2>1. /\ client \in live /\ next # client
        /\ \A t \in timers : t.client # next
    BY <1>6 DEF Retire, BeingMade, Making, InUse, Holding, Up
  <2> QED  BY <1>6, <2>1 DEF Retire
<1>7. CASE Start \/ FailAuthentication \/ Ready \/ TakeReload
  BY <1>7 DEF Start, FailAuthentication, Ready, TakeReload
<1>8. CASE Leave \/ CloseListeners \/ RevokeLast \/ LoseListener
  BY <1>8 DEF Leave, CloseListeners, RevokeLast, LoseListener
<1>9. CASE \E t \in timers : Revoke(t)
  BY <1>9 DEF Revoke
<1> QED  BY <1>1, <1>2, <1>3, <1>4, <1>5, <1>6, <1>7, <1>8, <1>9
         DEF Inside, Main

LEMMA EpochsStep == ASSUME Numbers, Daemon, Inside PROVE Epochs'
<1> USE DEF Daemon, Epochs, Up, service, making, tokens
<1>1. CASE Authenticate \/ Recheck \/ Start \/ FailAuthentication \/ Ready
  BY <1>1 DEF Authenticate, Recheck, Start, FailAuthentication, Ready
<1>2. CASE Load \/ TakeReload \/ FireGiveUp \/ LoginSucceeds \/ LoginFails
  BY <1>2 DEF Load, TakeReload, FireGiveUp, LoginSucceeds, LoginFails
<1>3. CASE StopTimer \/ Discard
  BY <1>3 DEF StopTimer, Discard
<1>4. CASE SwapRules
  BY <1>4 DEF SwapRules
<1>5. CASE SwapClient
  BY <1>5 DEF SwapClient
<1>6. CASE Retire
  BY <1>6 DEF Retire
<1>7. CASE Leave \/ CloseListeners \/ RevokeLast \/ LoseListener
  BY <1>7 DEF Leave, CloseListeners, RevokeLast, LoseListener
<1>8. CASE \E t \in timers : Revoke(t)
  BY <1>8 DEF Revoke
<1> QED  BY <1>1, <1>2, <1>3, <1>4, <1>5, <1>6, <1>7, <1>8 DEF Inside, Main

-----------------------------------------------------------------------------
\* Signals.

LEMMA AskedStep == ASSUME TypeOK, Asked, Next PROVE Asked'
<1>1. /\ file.version \in Nat /\ wanted \in Nat /\ attempted \in Nat
      /\ sighup \in BOOLEAN
  BY ReloadAssumptions DEF TypeOK, File
<1> USE DEF Asked, world
<1>2. CASE Edit
  BY <1>1, <1>2 DEF Edit
<1>3. CASE Hangup
  BY <1>1, <1>3 DEF Hangup
<1>4. CASE TakeReload
  BY <1>1, <1>4 DEF TakeReload
<1>5. CASE Load
  BY <1>1, <1>5 DEF Load
<1>6. CASE ~(Edit \/ Hangup \/ TakeReload \/ Load)
  <2>1. UNCHANGED <<file, sighup, wanted, attempted>>
        /\ (pc = "loading" => pc' = "loading")
    <3>1. CASE Start \/ Authenticate \/ FailAuthentication \/ Recheck \/ Ready
      BY <3>1 DEF Start, Authenticate, FailAuthentication, Recheck, Ready
    <3>2. CASE StopTimer \/ Discard \/ SwapRules \/ SwapClient \/ Retire
      BY <3>2 DEF StopTimer, Discard, SwapRules, SwapClient, Retire
    <3>3. CASE Leave \/ CloseListeners \/ RevokeLast \/ LoseListener
      BY <3>3 DEF Leave, CloseListeners, RevokeLast, LoseListener
    <3>4. CASE FireGiveUp \/ LoginSucceeds \/ LoginFails \/ Terminate \/ Tick
      BY <3>4 DEF FireGiveUp, LoginSucceeds, LoginFails, Terminate, Tick
    <3>5. CASE \E t \in timers : Revoke(t)
      BY <3>5 DEF Revoke
    <3>6. CASE \E q \in Requests : Accept(q) \/ Capture(q) \/ Finish(q)
      BY <3>6 DEF Accept, Capture, Finish, Request
    <3> QED  BY <1>6, <3>1, <3>2, <3>3, <3>4, <3>5, <3>6 DEF Next, Main
  <2> QED  BY <2>1
<1> QED  BY <1>2, <1>3, <1>4, <1>5, <1>6

-----------------------------------------------------------------------------
\* Requests and the tokens they work with.

\* What the types say of times and epochs.
Times ==
  /\ now \in Nat /\ ProbeTimeout \in Nat
  /\ cur.timeout \in Nat /\ cfg.timeout \in Nat /\ nextCfg.timeout \in Nat
  /\ cur.epoch \in Nat /\ inner.epoch \in Nat
  /\ \A t \in timers : t.at \in Nat
  /\ \A q \in Requests :
       LET r == requests[q] IN
       /\ r.pc \in {"idle", "loaded", "captured"}
       /\ r.pc # "idle" => r.deadline \in Nat
       /\ r.pc = "loaded" => r.epoch \in Nat

LEMMA TypesTime == TypeOK => Times
<1> SUFFICES ASSUME TypeOK PROVE Times
  OBVIOUS
<1>1. /\ now \in Nat /\ ProbeTimeout \in Nat
      /\ cur.timeout \in Nat /\ cfg.timeout \in Nat /\ nextCfg.timeout \in Nat
      /\ cur.epoch \in Nat /\ inner.epoch \in Nat
      /\ \A t \in timers : t.at \in Nat
  BY ReloadAssumptions DEF TypeOK, File, Timer
<1>2. ASSUME NEW q \in Requests
      PROVE  requests[q] \in {Idle} \cup Loaded \cup Captured
  BY <1>2 DEF TypeOK
<1>3. \A r \in {Idle} \cup Loaded \cup Captured :
        /\ r.pc \in {"idle", "loaded", "captured"}
        /\ r.pc # "idle" => r.deadline \in Nat
        /\ r.pc = "loaded" => r.epoch \in Nat
  BY DEF Idle, Loaded, Captured
<1> QED  BY <1>1, <1>2, <1>3 DEF Times

\* Before the listeners are open there are no requests.
LEMMA StartingIsQuiet ==
  ASSUME Daemon, Held, Next
  PROVE  /\ pc \in Starting => requests' = requests
         /\ pc' \in Starting => pc \in Starting
<1>1. pc \in Starting => ~listening
  BY DEF Daemon, InUse, Starting, Up
<1>2. CASE Outside
  <2>1. pc' = pc
    BY <1>2, OutsideLeaves
  <2>2. pc \in Starting => requests' = requests
    BY <1>1, <1>2 DEF Outside, Edit, Hangup, Terminate, Tick, Accept, Capture,
       Finish, Held, world
  <2> QED  BY <2>1, <2>2
<1>3. CASE Inside
  <2>1. CASE Start \/ Authenticate \/ FailAuthentication \/ Recheck \/ Ready
    BY <2>1 DEF Start, Authenticate, FailAuthentication, Recheck, Ready, world,
       Starting
  <2>2. CASE TakeReload \/ Load \/ StopTimer \/ Discard
    BY <2>2 DEF TakeReload, Load, StopTimer, Discard, world, Starting
  <2>3. CASE SwapRules \/ SwapClient \/ Retire \/ Leave \/ CloseListeners
             \/ RevokeLast
    BY <2>3 DEF SwapRules, SwapClient, Retire, Leave, CloseListeners,
       RevokeLast, world, Starting
  <2>4. CASE FireGiveUp \/ LoginSucceeds \/ LoginFails \/ LoseListener
             \/ \E t \in timers : Revoke(t)
    BY <2>4 DEF FireGiveUp, LoginSucceeds, LoginFails, LoseListener, Revoke,
       world, Starting
  <2> QED  BY <1>3, <2>1, <2>2, <2>3, <2>4 DEF Inside, Main
<1> QED  BY <1>2, <1>3, NextSplit

\* What was promised to a request stays promised while the clock goes on and
\* timers are added.
LEMMA KeptLater ==
  ASSUME Times, NEW r, r.deadline \in Nat,
         now' \in Nat, now <= now', timers \subseteq timers',
         UNCHANGED <<cur, inner, cfg, client>>,
         pc = "swapped" => pc' = "swapped",
         pc = "retire" => pc' = "retire" /\ nextCfg' = nextCfg
  PROVE  /\ r.epoch \in Nat /\ InTime(r) => InTime(r)'
         /\ Kept(r) => Kept(r)'
<1>1. r.epoch \in Nat /\ InTime(r) => InTime(r)'
  BY DEF Times, InTime
<1>2. Ends(r) \in Nat
  BY DEF Times, Ends
<1>3. ASSUME Kept(r) PROVE Kept(r)'
  <2>1. CASE r.client = inner.client /\ Bounded(r)
    <3>1. Bounded(r)'
      BY <2>1 DEF Bounded, Times
    <3> QED  BY <2>1, <3>1 DEF Kept
  <2>2. CASE /\ pc = "retire" /\ r.client = client
             /\ r.deadline <= now + Larger(cfg.timeout, nextCfg.timeout)
    <3>1. Larger(cfg.timeout, nextCfg.timeout) \in Nat
      BY DEF Larger, Times
    <3>2. r.deadline <= now' + Larger(cfg.timeout, nextCfg.timeout)
      BY <2>2, <3>1 DEF Times
    <3> QED  BY <2>2, <3>2 DEF Kept, Larger
  <2>3. CASE \E t \in timers : t.client = r.client /\ Ends(r) <= t.at
    BY <2>3 DEF Kept, Ends
  <2>4. CASE Ends(r) <= now
    <3>1. Ends(r) <= now'
      BY <1>2, <2>4 DEF Times
    <3> QED  BY <3>1 DEF Kept, Ends
  <2> QED  BY <1>3, <2>1, <2>2, <2>3, <2>4 DEF Kept
<1> QED  BY <1>1, <1>3

\* The server's rules are swapped: a request that loaded the old timeout has
\* the old rules' time, and is not taken for one of the new.
LEMMA KeptOverRules ==
  ASSUME Times, Daemon, SwapRules,
         NEW r, r.deadline \in Nat
  PROVE  /\ r.epoch \in Nat /\ InTime(r) => InTime(r)'
         /\ Kept(r) => Kept(r)'
<1>1. /\ cur.epoch = inner.epoch /\ cur.timeout = cfg.timeout
      /\ pc = "swapping" /\ pc' = "swapped" /\ cur'.epoch = cur.epoch + 1
      /\ UNCHANGED <<now, inner, cfg, client, timers>>
  BY DEF Daemon, Epochs, Up, SwapRules, world, tokens
<1>2. r.epoch \in Nat /\ InTime(r) => InTime(r)'
  BY <1>1 DEF Times, InTime
<1>3. Kept(r) => Kept(r)'
  BY <1>1 DEF Kept, Bounded, Ends
<1> QED  BY <1>2, <1>3

\* The cache's client is swapped: whoever holds the old one is over in the
\* larger of the two timeouts.
LEMMA KeptOverClient ==
  ASSUME Times, Daemon, SwapClient,
         NEW r, r.deadline \in Nat
  PROVE  /\ r.epoch \in Nat /\ InTime(r) => InTime(r)'
         /\ Kept(r) => Kept(r)'
<1>1. /\ cur.epoch = inner.epoch + 1 /\ cur.timeout = nextCfg.timeout
      /\ inner.client = client
      /\ pc = "swapped" /\ pc' = "retire" /\ inner'.epoch = inner.epoch + 1
      /\ UNCHANGED <<now, cur, cfg, nextCfg, client, timers>>
  BY DEF Daemon, Epochs, InUse, Up, SwapClient, world, tokens, making
<1>2. r.epoch \in Nat /\ InTime(r) => InTime(r)'
  BY <1>1 DEF Times, InTime
<1>3. ASSUME Kept(r) PROVE Kept(r)'
  <2>1. CASE r.client = inner.client /\ Bounded(r)
    <3>1. r.deadline <= now + cfg.timeout \/ r.deadline <= now + nextCfg.timeout
      BY <1>1, <2>1 DEF Bounded
    <3>2. r.deadline <= now + Larger(cfg.timeout, nextCfg.timeout)
      BY <3>1 DEF Larger, Times
    <3> QED  BY <1>1, <2>1, <3>2 DEF Kept, Larger
  <2> QED  BY <1>1, <1>3, <2>1 DEF Kept, Ends
<1> QED  BY <1>2, <1>3

\* The replaced client is retired: its timer outlasts whoever holds it.
LEMMA KeptOverRetire ==
  ASSUME Times, Daemon, Retire,
         NEW r, r.deadline \in Nat
  PROVE  /\ r.epoch \in Nat /\ InTime(r) => InTime(r)'
         /\ Kept(r) => Kept(r)'
<1> DEFINE new == [client |-> client, at |-> now + GracePeriod]
<1>1. /\ cur.epoch = inner.epoch /\ cur.timeout = nextCfg.timeout
      /\ pc = "retire" /\ pc' = "serving" /\ timers' = timers \cup {new}
      /\ cfg' = nextCfg /\ UNCHANGED <<now, cur, inner>>
  BY DEF Daemon, Epochs, Up, Retire, world
<1>2. r.epoch \in Nat /\ InTime(r) => InTime(r)'
  BY <1>1 DEF Times, InTime
<1>3. ASSUME Kept(r) PROVE Kept(r)'
  <2>1. CASE /\ r.client = client
             /\ r.deadline <= now + Larger(cfg.timeout, nextCfg.timeout)
    <3>1. Larger(cfg.timeout, nextCfg.timeout) \in Nat
      BY DEF Larger, Times
    <3>2. Ends(r) <= now + GracePeriod
      BY <2>1, <3>1 DEF Ends, GracePeriod, Times
    <3>3. new \in timers' /\ new.client = r.client /\ Ends(r) <= new.at
      BY <1>1, <2>1, <3>2
    <3> QED  BY <3>3 DEF Kept, Ends
  <2>2. CASE r.client = inner.client /\ Bounded(r)
    BY <1>1, <2>2 DEF Kept, Bounded
  <2>3. CASE \E t \in timers : t.client = r.client /\ Ends(r) <= t.at
    BY <1>1, <2>3 DEF Kept, Ends
  <2>4. CASE Ends(r) <= now
    BY <1>1, <2>4 DEF Kept, Ends
  <2> QED  BY <1>3, <2>1, <2>2, <2>3, <2>4 DEF Kept
<1> QED  BY <1>2, <1>3

\* A revocation comes when the requests its timer stands for are over.
LEMMA KeptOverRevoke ==
  ASSUME Times, NEW t \in timers, Revoke(t), NEW r
  PROVE  /\ r.epoch \in Nat /\ InTime(r) => InTime(r)'
         /\ Kept(r) => Kept(r)'
<1>1. /\ now = t.at /\ timers' = timers \ {t}
      /\ UNCHANGED <<now, pc, cur, inner, cfg, nextCfg, client>>
  BY DEF Revoke, world, service, making
<1>2. r.epoch \in Nat /\ InTime(r) => InTime(r)'
  BY <1>1 DEF InTime
<1>3. ASSUME Kept(r) PROVE Kept(r)'
  <2>1. CASE \E s \in timers : s.client = r.client /\ Ends(r) <= s.at
    <3>1. PICK s \in timers : s.client = r.client /\ Ends(r) <= s.at
      BY <2>1
    <3>2. CASE s = t
      BY <1>1, <3>1, <3>2 DEF Kept, Ends
    <3>3. CASE s # t
      BY <1>1, <3>1, <3>3 DEF Kept, Ends
    <3> QED  BY <3>2, <3>3
  <2> QED  BY <1>1, <1>3, <2>1 DEF Kept, Bounded, Ends, Larger
<1> QED  BY <1>2, <1>3

\* The rules are at most one swap ahead of the client a request can take.
LEMMA CurAhead ==
  ASSUME TypeOK, Daemon, pc \notin Starting, pc # "exited"
  PROVE  /\ pc # "swapped" => cur.epoch = inner.epoch
         /\ pc = "swapped" => cur.epoch = inner.epoch + 1
BY DEF TypeOK, Daemon, Epochs, Up, Starting

\* The steps a request takes itself.
LEMMA RequestStep ==
  ASSUME TypeOK, Daemon, Held, pc \notin Starting, pc # "exited",
         NEW p \in Requests, Accept(p) \/ Capture(p) \/ Finish(p)
  PROVE  \A q \in Requests : HeldOne(requests[q])'
<1>1. Times
  BY TypesTime
<1>2. /\ UNCHANGED <<now, pc, cur, inner, cfg, client, nextCfg, timers>>
      /\ \A q \in Requests \ {p} : requests'[q] = requests[q]
  BY DEF Accept, Capture, Finish, Request, service, making, tokens, TypeOK
<1>3. ASSUME NEW r, HeldOne(r) PROVE HeldOne(r)'
  BY <1>2, <1>3 DEF HeldOne, InTime, Kept, Bounded, Ends, Larger
<1>4. HeldOne(requests[p])'
  <2>1. CASE Accept(p)
    <3>1. requests'[p] = [pc |-> "loaded", epoch |-> cur.epoch,
                          deadline |-> now + cur.timeout]
      BY <2>1 DEF Accept, Request, TypeOK
    <3> QED  BY <1>1, <1>2, <3>1 DEF HeldOne, InTime, Times
  <2>2. CASE Capture(p)
    <3> DEFINE r == requests[p]
    <3>1. requests'[p] = [pc |-> "captured", deadline |-> r.deadline,
                          client |-> inner.client,
                          late |-> r.epoch < inner.epoch
                                   /\ now + cur.timeout < r.deadline]
      BY <2>2 DEF Capture, Request, TypeOK
    <3>2. InTime(r) /\ r.epoch \in Nat /\ r.deadline \in Nat
      BY <1>1, <2>2 DEF Capture, Held, HeldOne, Times
    <3>3. CASE r.epoch < inner.epoch /\ now + cur.timeout < r.deadline
      <4> DEFINE late == r.epoch < inner.epoch /\ now + cur.timeout < r.deadline
      <4>1. PICK new : new = [pc |-> "captured", deadline |-> r.deadline,
                              client |-> inner.client, late |-> late]
        OBVIOUS
      <4>2. new.pc = "captured" /\ new.late = late
        BY <4>1, Zenon
      <4>3. requests'[p] = new
        BY <3>1, <4>1, Zenon
      <4>4. late
        BY <3>3
      <4> HIDE DEF late
      <4> QED  BY <4>2, <4>3, <4>4, Zenon DEF HeldOne
    <3>4. CASE ~(r.epoch < inner.epoch /\ now + cur.timeout < r.deadline)
      <4>1. Bounded(r)
        BY <1>1, <3>2, <3>4, CurAhead DEF InTime, Bounded, Times
      <4> QED  BY <1>2, <3>1, <4>1 DEF HeldOne, Kept, Bounded
    <3> QED  BY <3>3, <3>4
  <2>3. CASE Finish(p)
    <3>1. requests'[p] = Idle
      BY <2>3 DEF Finish, Request, TypeOK
    <3> QED  BY <3>1 DEF HeldOne, Idle
  <2> QED  BY <2>1, <2>2, <2>3
<1>5. ASSUME NEW q \in Requests PROVE HeldOne(requests[q])'
  <2>1. CASE q = p
    BY <1>4, <2>1
  <2>2. CASE q # p
    <3>1. PICK r : r = requests[q]
      OBVIOUS
    <3>2. HeldOne(r)'
      BY <1>3, <3>1 DEF Held
    <3>3. requests'[q] = r
      BY <1>2, <2>2, <3>1
    <3> QED  BY <3>2, <3>3 DEF HeldOne, InTime, Kept, Bounded, Ends
  <2> QED  BY <2>1, <2>2
<1> QED  BY <1>5

\* The steps of the loop, the timers and the clock.
LEMMA LoopStep ==
  ASSUME TypeOK, Daemon, Next, pc \notin Starting,
         ~(pc # "exited"
             /\ \E p \in Requests : Accept(p) \/ Capture(p) \/ Finish(p)),
         NEW r, HeldOne(r),
         r.pc # "idle" => r.deadline \in Nat,
         r.pc = "loaded" => r.epoch \in Nat
  PROVE  HeldOne(r)' /\ requests' = requests
<1>1. Times
  BY TypesTime
<1>2. CASE SwapRules
  BY <1>1, <1>2, KeptOverRules DEF HeldOne, SwapRules, world
<1>3. CASE SwapClient
  BY <1>1, <1>3, KeptOverClient DEF HeldOne, SwapClient, world
<1>4. CASE Retire
  BY <1>1, <1>4, KeptOverRetire DEF HeldOne, Retire, world
<1>5. CASE \E t \in timers : Revoke(t)
  <2>1. PICK t \in timers : Revoke(t)
    BY <1>5
  <2> QED  BY <1>1, <2>1, KeptOverRevoke DEF HeldOne, Revoke, world
<1>6. CASE ~(SwapRules \/ SwapClient \/ Retire \/ \E t \in timers : Revoke(t))
  <2>1. /\ now' \in Nat /\ now <= now' /\ requests' = requests
        /\ UNCHANGED <<cur, inner, cfg, client, timers>>
        /\ pc = "swapped" => pc' = "swapped"
        /\ pc = "retire" => pc' = "retire" /\ nextCfg' = nextCfg
    <3>1. CASE Edit \/ Hangup \/ Terminate
      BY <1>1, <3>1 DEF Edit, Hangup, Terminate, world, service, making, tokens,
         Times
    <3>2. CASE Tick
      BY <1>1, <3>2 DEF Tick, service, making, tokens, Times
    <3>3. CASE Start \/ Authenticate \/ FailAuthentication \/ Recheck \/ Ready
      BY <3>3 DEF Start, Authenticate, FailAuthentication, Recheck, Ready,
         Starting
    <3>4. CASE TakeReload \/ Load \/ StopTimer \/ Discard
      BY <1>1, <3>4 DEF TakeReload, Load, StopTimer, Discard, world, service,
         tokens, Times
    <3>5. CASE Leave \/ CloseListeners \/ RevokeLast
      BY <1>1, <3>5 DEF Leave, CloseListeners, RevokeLast, world, service,
         tokens, Times
    <3>6. CASE FireGiveUp \/ LoginSucceeds \/ LoginFails \/ LoseListener
      BY <1>1, <3>6 DEF FireGiveUp, LoginSucceeds, LoginFails, LoseListener,
         world, service, making, tokens, Times
    <3> QED  BY <1>6, <3>1, <3>2, <3>3, <3>4, <3>5, <3>6 DEF Next, Main
  <2>2. timers \subseteq timers'
    BY <2>1
  <2> QED  BY <1>1, <2>1, <2>2, KeptLater DEF HeldOne
<1> QED  BY <1>2, <1>3, <1>4, <1>5, <1>6

LEMMA HeldStep == ASSUME TypeOK, Daemon, Held, Next PROVE Held'
<1>1. CASE pc \in Starting
  <2>1. \A q \in Requests : requests'[q].pc = "idle"
    BY <1>1, StartingIsQuiet DEF Held
  <2> QED  BY <2>1 DEF Held, HeldOne
<1>2. CASE pc \notin Starting
  <2>1. pc' \notin Starting
    BY <1>2, StartingIsQuiet
  <2>2. CASE /\ pc # "exited"
             /\ \E p \in Requests : Accept(p) \/ Capture(p) \/ Finish(p)
    BY <1>2, <2>1, <2>2, RequestStep DEF Held
  <2>3. CASE ~(pc # "exited"
               /\ \E p \in Requests : Accept(p) \/ Capture(p) \/ Finish(p))
    <3>1. ASSUME NEW q \in Requests PROVE HeldOne(requests[q])'
      <4>1. PICK r : r = requests[q]
        OBVIOUS
      <4>2. /\ HeldOne(r)
            /\ r.pc # "idle" => r.deadline \in Nat
            /\ r.pc = "loaded" => r.epoch \in Nat
        BY <4>1, TypesTime DEF Held, Times
      <4>3. HeldOne(r)' /\ requests'[q] = r
        BY <1>2, <2>3, <4>1, <4>2, LoopStep
      <4> QED  BY <4>3 DEF HeldOne, InTime, Kept, Bounded, Ends
    <3> QED  BY <2>1, <3>1 DEF Held
  <2> QED  BY <2>2, <2>3
<1> QED  BY <1>1, <1>2

-----------------------------------------------------------------------------
LEMMA ReloadStep == ReloadInv /\ [Next]_vars => ReloadInv'
<1>1. ASSUME ReloadInv, Next PROVE ReloadInv'
  <2>1. TypeOK' /\ Asked' /\ Held'
    BY <1>1, TypeStep, AskedStep, HeldStep DEF ReloadInv
  <2>2. CASE Outside
    BY <1>1, <2>1, <2>2, OutsideStep DEF ReloadInv
  <2>3. CASE Inside
    BY <1>1, <2>1, <2>3, TypesNumber, NumberedStep, InUseStep, BeingMadeStep,
       OwedStep, EpochsStep DEF ReloadInv, Daemon
  <2> QED  BY <1>1, <2>2, <2>3, NextSplit
<1>2. ASSUME ReloadInv, UNCHANGED vars PROVE ReloadInv'
  <2> USE <1>2 DEF vars, ReloadInv
  <2>1. TypeOK' /\ Asked'
    BY DEF TypeOK, Asked
  <2>2. Daemon'
    BY DEF Daemon, Numbered, InUse, BeingMade, Owed, Epochs
  <2>3. Held'
    BY DEF Held, HeldOne, InTime, Kept, Bounded, Ends
  <2> QED  BY <2>1, <2>2, <2>3
<1> QED  BY <1>1, <1>2

\* The state of the main goroutine, its timers and its requests is well typed
\* in every behaviour.
THEOREM ReloadTypeCorrect == Spec => []TypeOK
<1>1. ReloadInv => TypeOK
  BY DEF ReloadInv
<1> QED  BY ReloadInit, ReloadStep, <1>1, PTL DEF Spec

\* What requests are served with works as long as connections are accepted:
\* no reload, whatever its timer does, leaves the cache a client whose token
\* was revoked or whose renewal was stopped.
THEOREM ServedByALiveClient == Spec => []InstalledClientIsAlive
<1>1. ReloadInv => InstalledClientIsAlive
  <2> SUFFICES ASSUME ReloadInv, listening
               PROVE  inner.client \in live /\ inner.client \notin canceled
    BY DEF InstalledClientIsAlive
  <2>1. pc \in Up
    BY DEF ReloadInv, Daemon, InUse
  <2>2. CASE pc = "retire"
    BY <2>2 DEF ReloadInv, Daemon, InUse, BeingMade, Making, Up
  <2>3. CASE pc # "retire"
    BY <2>1, <2>3 DEF ReloadInv, Daemon, InUse, Holding, Up
  <2> QED  BY <2>2, <2>3
<1> QED  BY ReloadInit, ReloadStep, <1>1, PTL DEF Spec

\* The wait before a revocation is long enough, for any timeouts and any number
\* of reloads: only a request that both swaps overtook between its two loads,
\* with more time left than the new timeout gives, can lose its token before it
\* is over.
THEOREM GraceIsEnough == Spec => []TokenOutlivesItsRequests
<1>1. ReloadInv => TokenOutlivesItsRequests
  <2> SUFFICES ASSUME ReloadInv, NEW q \in Requests,
                      requests[q].pc = "captured",
                      ~requests[q].late,
                      now < Ends(requests[q]), ~Stopping
               PROVE  requests[q].client \in live
    BY DEF TokenOutlivesItsRequests
  <2> DEFINE r == requests[q]
  <2>1. Times /\ Kept(r)
    BY TypesTime DEF ReloadInv, Held, HeldOne
  <2>2. pc \in Up
    <3>1. pc \notin Starting
      BY DEF ReloadInv, Held
    <3> QED  BY <3>1 DEF ReloadInv, TypeOK, Stopping, Starting, Up
  <2>3. client \in live
    BY <2>2 DEF ReloadInv, Daemon, InUse, Holding
  <2>4. inner.client \in live
    <3>1. CASE pc = "retire"
      BY <2>2, <3>1 DEF ReloadInv, Daemon, InUse, BeingMade
    <3>2. CASE pc # "retire"
      BY <2>2, <2>3, <3>2 DEF ReloadInv, Daemon, InUse
    <3> QED  BY <3>1, <3>2
  <2>5. \A t \in timers : t.client \in live
    BY DEF ReloadInv, Daemon, Owed
  <2>6. ~(Ends(r) <= now)
    <3>1. Ends(r) \in Nat /\ now \in Nat
      BY <2>1 DEF Times, Ends
    <3> QED  BY <3>1
  <2> QED  BY <2>1, <2>3, <2>4, <2>5, <2>6 DEF Kept
<1> QED  BY ReloadInit, ReloadStep, <1>1, PTL DEF Spec

\* A SIGHUP is not lost to the reload under way, however signals, edits and
\* reloads interleave.
THEOREM HangupIsFollowed == Spec => []HangupIsNotLost
<1>1. ReloadInv => HangupIsNotLost
  BY DEF ReloadInv, Asked, HangupIsNotLost
<1> QED  BY ReloadInit, ReloadStep, <1>1, PTL DEF Spec

-----------------------------------------------------------------------------
\* Where each live token is accounted for.
LEMMA AccountStep ==
  ASSUME TypeOK, Daemon, NoTokenIsForgotten, Inside, pc # "exited",
         pc' # "exited", NEW c \in live' \ stranded'
  PROVE  \/ c = client'
         \/ /\ c = next'
            /\ pc' \in {"returned", "discarding", "swapping", "swapped",
                        "retire"}
         \/ \E t \in timers' : t.client = c
<1>1. c \in live \ stranded =>
        \/ c = client
        \/ /\ c = next
           /\ pc \in {"returned", "discarding", "swapping", "swapped", "retire"}
        \/ \E t \in timers : t.client = c
  BY DEF NoTokenIsForgotten
<1>2. pc \in {"start", "auth"} => live \ stranded = {}
  BY DEF Daemon, Owed, Starting
<1> USE DEF service, making, tokens, RevokeSelf
<1>3. CASE Start \/ Authenticate \/ FailAuthentication \/ Recheck \/ Ready
  BY <1>1, <1>2, <1>3
     DEF Start, Authenticate, FailAuthentication, Recheck, Ready
<1>4. CASE TakeReload \/ Load
  BY <1>1, <1>4 DEF TakeReload, Load
<1>5. CASE StopTimer
  <2>1. ~made => next \notin live \ stranded
    BY <1>5 DEF StopTimer, Daemon, BeingMade
  <2> QED  BY <1>1, <1>5, <2>1 DEF StopTimer
<1>6. CASE Discard \/ SwapRules \/ SwapClient
  BY <1>1, <1>6 DEF Discard, SwapRules, SwapClient
<1>7. CASE Retire
  <2> DEFINE new == [client |-> client, at |-> now + GracePeriod]
  <2>1. UNCHANGED <<live, stranded, next>> /\ client' = next /\ pc = "retire"
        /\ timers' = timers \cup {new}
    BY <1>7 DEF Retire
  <2>2. new \in timers' /\ new.client = client /\ timers \subseteq timers'
    BY <2>1
  <2> HIDE DEF new
  <2> QED  BY <1>1, <2>1, <2>2
<1>8. CASE Leave \/ CloseListeners \/ RevokeLast \/ LoseListener
  BY <1>1, <1>8 DEF Leave, CloseListeners, RevokeLast, LoseListener
<1>9. CASE FireGiveUp \/ LoginSucceeds \/ LoginFails
  BY <1>1, <1>9 DEF FireGiveUp, LoginSucceeds, LoginFails
<1>10. CASE \E t \in timers : Revoke(t)
  BY <1>1, <1>10 DEF Revoke
<1> QED  BY <1>3, <1>4, <1>5, <1>6, <1>7, <1>8, <1>9, <1>10 DEF Inside, Main

\* Every login the daemon was answered is in use, being installed, or has a timer
\* that will revoke it, or its revocation was tried and failed, whatever races
\* the reload's own timer loses or wins.
THEOREM EveryTokenIsRemembered == Spec => []NoTokenIsForgotten
<1>1. Init => NoTokenIsForgotten
  BY DEF Init, NoTokenIsForgotten
<1>2. ReloadInv /\ NoTokenIsForgotten /\ [Next]_vars => NoTokenIsForgotten'
  <2> SUFFICES ASSUME ReloadInv, NoTokenIsForgotten, [Next]_vars
               PROVE  NoTokenIsForgotten'
    OBVIOUS
  <2>1. CASE Inside
    <3>1. pc = "exited" => pc' = "exited"
      <4>1. CASE Main
        BY <4>1 DEF Main, Start, Authenticate, FailAuthentication, Recheck,
           Ready, TakeReload, Load, StopTimer, Discard, SwapRules, SwapClient,
           Retire, Leave, CloseListeners, RevokeLast
      <4>2. CASE ~Main
        BY <2>1, <4>2 DEF Inside, FireGiveUp, LoginSucceeds, LoginFails,
           LoseListener, Revoke
      <4> QED  BY <4>1, <4>2
    <3> QED  BY <2>1, <3>1, AccountStep DEF ReloadInv, NoTokenIsForgotten
  <2>2. CASE Outside \/ UNCHANGED vars
    <3>1. UNCHANGED <<pc, client, next, live, stranded, timers>>
      BY <2>2, OutsideLeaves DEF service, making, tokens, vars
    <3> QED  BY <3>1 DEF NoTokenIsForgotten
  <2> QED  BY <2>1, <2>2, NextSplit
<1> QED  BY ReloadInit, ReloadStep, <1>1, <1>2, PTL DEF Spec
=============================================================================
