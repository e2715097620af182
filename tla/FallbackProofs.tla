--------------------------- MODULE FallbackProofs ---------------------------
(***************************************************************************)
(* Proofs about the time an entry of StaleCache spends in memory, and that *)
(* StaleCache implements FallbackPromise, for any instance of either.      *)
(***************************************************************************)
EXTENDS StaleCacheProofs

\* A read under way is inside its own time, and its answer came during it.
Timely(r) ==
  /\ now <= r.deadline
  /\ r.pc = "reading" => r.deadline <= now + ReadTimeout
  /\ r.pc = "answered" => /\ r.answer.issued <= now
                          /\ r.deadline <= r.answer.issued + ReadTimeout

\* An entry was stored by the end of its read, and the sweep to come is at
\* most one interval past its window.
Young(e) ==
  /\ e.issued <= e.at /\ e.at <= e.issued + ReadTimeout /\ e.at <= now
  /\ nextSweep <= e.at + ServableFor(e, maxAge) + SweepInterval

AgeInv ==
  /\ TypeOK
  /\ now <= nextSweep /\ nextSweep <= now + SweepInterval
  /\ \A q \in Requests : reads[q].pc # "idle" => Timely(reads[q])
  /\ \A e \in entries : Young(e)
  /\ maxAge = 0 => entries = {}
  /\ \A e, f \in entries : e.ref = f.ref => e = f
  /\ StaleWithinWindow

-----------------------------------------------------------------------------
\* A window is a number of ticks, whatever the lease.
LEMMA WindowType ==
  ASSUME NEW e, e.lease \in Leases, NEW age \in Ages
  PROVE  ServableFor(e, age) \in Nat
BY CacheAssumptions DEF CacheAssumptions, ServableFor

\* No read is under way and nothing is remembered in the initial state.
LEMMA AgeInit == Init => AgeInv
<1> SUFFICES ASSUME Init PROVE AgeInv
  OBVIOUS
<1>1. TypeOK
  BY TypeInit
<1>2. SweepInterval \in Nat
  BY CacheAssumptions DEF CacheAssumptions
<1> QED  BY <1>1, <1>2 DEF Init, AgeInv, NoRead, Nothing, StaleWithinWindow

\* A returning read leaves only young entries, one per secret, and what it
\* serves from memory is inside its window.
LEMMA AgeReturn ==
  ASSUME AgeInv, NEW q \in Requests, Return(q)
  PROVE  /\ \A e \in entries' : Young(e)'
         /\ maxAge' = 0 => entries' = {}
         /\ \A e, f \in entries' : e.ref = f.ref => e = f
         /\ StaleWithinWindow'
<1> DEFINE r == reads[q]
<1>1. /\ r \in Answered /\ r.ref \in Refs /\ r.answer \in Answer
      /\ now \in Nat /\ maxAge \in Ages /\ nextSweep \in Nat
      /\ entries \subseteq Entry
      /\ Timely(r)
  BY ReturnShape DEF AgeInv, TypeOK, Return
<1>2. now' = now /\ nextSweep' = nextSweep /\ maxAge' = maxAge
  BY DEF Return
<1>3. ReadTimeout \in Nat /\ SweepInterval \in Nat /\ Ages \subseteq Nat
  BY CacheAssumptions DEF CacheAssumptions
<1>4. \A e \in entries : Young(e)'
  BY <1>2 DEF AgeInv, Young
<1>5. CASE Fresh(r)
  <2> DEFINE n == [ref |-> r.ref, version |-> r.answer.version, at |-> now,
                   lease |-> r.answer.lease, issued |-> r.answer.issued]
  <2>1. ASSUME NEW m, m = n PROVE Young(m)'
    <3>1. m.lease \in Leases /\ m.at = now /\ m.issued = r.answer.issued
          /\ r.answer.issued \in Nat /\ r.deadline \in Nat
      BY <1>1, <2>1 DEF Answer, Answered
    <3>2. ServableFor(m, maxAge) \in Nat
      BY <1>1, <3>1, WindowType
    <3>3. r.answer.issued <= now /\ now <= r.answer.issued + ReadTimeout
      BY <1>1, <1>3, <3>1 DEF Timely, Return
    <3>4. nextSweep <= now + SweepInterval
      BY DEF AgeInv
    <3>5. Young(m)
      BY <1>1, <1>3, <3>1, <3>2, <3>3, <3>4 DEF Young
    <3> QED  BY <1>2, <3>5 DEF Young
  <2>2. entries' \subseteq Without(r.ref) \cup {n} \/ entries' = entries
    BY <1>5 DEF Fresh
  <2>3. maxAge' = 0 => entries' = {}
    BY <1>1, <1>2, <1>3, <1>5 DEF Fresh, AgeInv
  <2>4. \A e, f \in entries' : e.ref = f.ref => e = f
    BY <2>2 DEF Without, AgeInv
  <2>5. StaleWithinWindow'
    BY <1>5 DEF Fresh, StaleWithinWindow
  <2>6. \A e \in entries' : e \in entries \/ e = n
    BY <2>2 DEF Without
  <2> QED  BY <1>4, <2>1, <2>3, <2>4, <2>5, <2>6
<1>6. CASE Supersede(r)
  BY <1>2, <1>4, <1>6
     DEF Supersede, Without, AgeInv, StaleWithinWindow
<1>7. CASE Fallback(r)
  <2>1. entries' \subseteq entries
    BY <1>7 DEF Fallback, Without
  <2>2. StaleWithinWindow'
    <3>1. CASE \E e \in entries :
                 /\ e.ref = r.ref /\ Live(e, maxAge)
                 /\ out' = [kind |-> "stale", ref |-> r.ref,
                            err |-> r.answer.err, version |-> e.version,
                            lease |-> e.lease, issued |-> e.issued]
      <4>1. PICK e \in entries :
              /\ Live(e, maxAge)
              /\ out'.lease = e.lease /\ out'.issued = e.issued
        BY <3>1
      <4>2. e.at \in Nat /\ e.issued \in Nat /\ e.lease \in Leases
        BY <1>1 DEF Entry
      <4>3. ServableFor(e, maxAge) \in Nat
            /\ ServableFor(out', maxAge') = ServableFor(e, maxAge)
        BY <1>1, <1>2, <4>1, <4>2, WindowType DEF ServableFor
      <4>4. now - e.at <= ServableFor(e, maxAge)
            /\ e.at <= e.issued + ReadTimeout
        BY <4>1 DEF Live, AgeInv, Young
      <4>5. now - e.issued <= ServableFor(e, maxAge) + ReadTimeout
        BY <1>1, <1>3, <4>2, <4>3, <4>4
      <4> QED  BY <1>2, <4>1, <4>3, <4>5 DEF StaleWithinWindow
    <3>2. CASE out' = [kind |-> "failed", ref |-> r.ref,
                       err |-> r.answer.err, version |-> 0, lease |-> 0,
                       issued |-> now]
      BY <3>2 DEF StaleWithinWindow
    <3> QED  BY <1>7, <3>1, <3>2 DEF Fallback
  <2> QED  BY <1>2, <1>4, <2>1, <2>2 DEF AgeInv
<1> QED  BY <1>5, <1>6, <1>7, ReturnShape DEF AgeInv

\* Every step keeps the reads inside their time and the entries young.
LEMMA AgeStep == AgeInv /\ [Next]_vars => AgeInv'
<1> SUFFICES ASSUME AgeInv, [Next]_vars PROVE AgeInv'
  OBVIOUS
<1>1. TypeOK /\ TypeOK'
  BY TypeStep DEF AgeInv
<1>2. /\ now \in Nat /\ nextSweep \in Nat /\ maxAge \in Ages
      /\ ReadTimeout \in Nat /\ SweepInterval \in Nat /\ Ages \subseteq Nat
  BY <1>1, CacheAssumptions DEF TypeOK, CacheAssumptions
<1>3. \A e \in entries : /\ e.at \in Nat /\ e.issued \in Nat
                         /\ e.lease \in Leases
                         /\ \A age \in Ages : ServableFor(e, age) \in Nat
  BY <1>1, WindowType DEF TypeOK, Entry
<1>4. \A q \in Requests :
        /\ reads[q].pc # "idle" => reads[q].deadline \in Nat
        /\ reads[q].pc = "answered" => reads[q].answer.issued \in Nat
  BY <1>1, ReadShapes DEF Waiting, Answered, Answer
<1>5. ASSUME NEW k \in Refs, Change(k) PROVE AgeInv'
  BY <1>1, <1>5
     DEF Change, AgeInv, Timely, Young, StaleWithinWindow, Nothing
<1>6. CASE Tick
  <2>1. \A q \in Requests : reads'[q].pc # "idle" => Timely(reads[q])'
    BY <1>2, <1>4, <1>6 DEF Tick, Busy, AgeInv, Timely
  <2>2. \A e \in entries' : Young(e)'
    BY <1>2, <1>3, <1>6 DEF Tick, AgeInv, Young
  <2> QED  BY <1>1, <1>2, <1>6, <2>1, <2>2
           DEF Tick, AgeInv, StaleWithinWindow, Nothing
<1>7. CASE Sweep
  <2>1. \A e \in entries' : Young(e)'
    <3> SUFFICES ASSUME NEW e \in entries, Live(e, maxAge)
                 PROVE  Young(e)'
      BY <1>7 DEF Sweep, Servable
    <3>1. now - e.at <= ServableFor(e, maxAge) /\ Young(e)
      BY DEF Live, AgeInv
    <3>2. now <= e.at + ServableFor(e, maxAge)
      BY <1>2, <1>3, <3>1
    <3> QED  BY <1>2, <1>3, <1>7, <3>1, <3>2 DEF Sweep, Young
  <2>2. \A q \in Requests : reads'[q].pc # "idle" => Timely(reads[q])'
    BY <1>7 DEF Sweep, AgeInv, Timely
  <2> QED  BY <1>1, <1>2, <1>7, <2>1, <2>2
           DEF Sweep, Servable, AgeInv, StaleWithinWindow, Nothing
<1>8. ASSUME NEW client \in Clients, NEW age \in Ages, Swap(client, age)
      PROVE  AgeInv'
  <2>1. \A e \in entries' : Young(e)'
    <3> SUFFICES ASSUME NEW e \in entries, Live(e, age)
                 PROVE  Young(e)'
      BY <1>8 DEF Swap, Servable
    <3>1. now - e.at <= ServableFor(e, age) /\ Young(e)
      BY DEF Live, AgeInv
    <3>2. nextSweep <= now + SweepInterval /\ ServableFor(e, age) \in Nat
      BY <1>3 DEF AgeInv
    <3>3. nextSweep <= e.at + ServableFor(e, age) + SweepInterval
      BY <1>2, <1>3, <3>1, <3>2
    <3> QED  BY <1>8, <3>1, <3>3 DEF Swap, Young
  <2>2. \A q \in Requests : reads'[q].pc # "idle" => Timely(reads[q])'
    BY <1>8 DEF Swap, AgeInv, Timely
  <2> QED  BY <1>1, <1>2, <1>8, <2>1, <2>2
           DEF Swap, Servable, AgeInv, StaleWithinWindow, Nothing
<1>9. ASSUME NEW q \in Requests, Begin(q) PROVE AgeInv'
  <2>1. /\ reads'[q].pc = "reading" /\ reads'[q].deadline = now + ReadTimeout
        /\ \A p \in Requests \ {q} : reads'[p] = reads[p]
    BY <1>1, <1>9 DEF Begin, TypeOK
  <2>2. \A p \in Requests : reads'[p].pc # "idle" => Timely(reads[p])'
    BY <1>2, <1>9, <2>1 DEF Begin, AgeInv, Timely
  <2> QED  BY <1>1, <1>9, <2>2
           DEF Begin, AgeInv, Young, StaleWithinWindow, Nothing
<1>10. ASSUME NEW q \in Requests, Respond(q) PROVE AgeInv'
  <2>1. PICK a \in Unanswered \cup IF world[reads[q].ref].readable
                                   THEN Data(reads[q].ref)
                                   ELSE Refused(reads[q].ref) :
          reads' = [reads EXCEPT ![q] =
            [pc |-> "answered", ref |-> reads[q].ref,
             client |-> reads[q].client, gen |-> reads[q].gen,
             deadline |-> reads[q].deadline, answer |-> a]]
    BY <1>10 DEF Respond
  <2>2. a.issued = now
    BY <2>1 DEF Unanswered, Data, Refused
  <2>3. /\ reads'[q].pc = "answered" /\ reads'[q].answer.issued = now
        /\ reads'[q].deadline = reads[q].deadline
        /\ \A p \in Requests \ {q} : reads'[p] = reads[p]
    BY <1>1, <2>1, <2>2 DEF TypeOK
  <2>4. Timely(reads[q]) /\ reads[q].pc = "reading"
    BY <1>10 DEF Respond, AgeInv
  <2>5. \A p \in Requests : reads'[p].pc # "idle" => Timely(reads[p])'
    BY <1>2, <1>4, <1>10, <2>3, <2>4 DEF Respond, AgeInv, Timely
  <2> QED  BY <1>1, <1>10, <2>5
           DEF Respond, AgeInv, Young, StaleWithinWindow, Nothing
<1>11. ASSUME NEW q \in Requests, Return(q) PROVE AgeInv'
  <2>1. reads'[q].pc = "idle" /\ \A p \in Requests \ {q} : reads'[p] = reads[p]
    BY <1>1, <1>11, ReturnShape DEF TypeOK, NoRead
  <2>2. \A p \in Requests : reads'[p].pc # "idle" => Timely(reads[p])'
    BY <1>11, <2>1 DEF Return, AgeInv, Timely
  <2>3. now' = now /\ nextSweep' = nextSweep
    BY <1>11 DEF Return
  <2> QED  BY <1>1, <1>11, <2>2, <2>3, AgeReturn DEF AgeInv
<1>12. CASE UNCHANGED vars
  BY <1>1, <1>12 DEF vars, AgeInv, Timely, Young, StaleWithinWindow
<1> QED  BY <1>5, <1>6, <1>7, <1>8, <1>9, <1>10, <1>11, <1>12 DEF Next

\* Nothing is served past its window, counted from OpenBao's answer, by more
\* than the time its own read took.
THEOREM WindowsAreKept == Spec => []StaleWithinWindow
<1>1. AgeInv => StaleWithinWindow
  BY DEF AgeInv
<1> QED  BY AgeInit, AgeStep, <1>1, PTL DEF Spec

\* Secret material leaves memory within one sweep interval of its window.
THEOREM MemoryIsCleared == Spec => []Residency
<1>1. AgeInv => Residency
  <2> SUFFICES ASSUME AgeInv, NEW e \in entries
               PROVE  now - e.at <= ServableFor(e, maxAge) + SweepInterval
    BY DEF AgeInv, Residency
  <2>1. /\ now \in Nat /\ nextSweep \in Nat /\ SweepInterval \in Nat
        /\ e.at \in Nat /\ ServableFor(e, maxAge) \in Nat
    BY CacheAssumptions, WindowType DEF AgeInv, TypeOK, Entry, CacheAssumptions
  <2>2. now <= nextSweep
        /\ nextSweep <= e.at + ServableFor(e, maxAge) + SweepInterval
    BY DEF AgeInv, Young
  <2> QED  BY <2>1, <2>2
<1> QED  BY AgeInit, AgeStep, <1>1, PTL DEF Spec

-----------------------------------------------------------------------------
\* A returning read keeps the fallback: it replaces the response with its own
\* data, drops it for OpenBao's refusal, or serves it.
LEMMA ReturnKeepsFallback ==
  ASSUME TypeOK, NEW q \in Requests, Return(q), NEW e \in entries
  PROVE  KeepsFallback(e)
<1> SUFFICES ASSUME Live(e, maxAge) PROVE KeepsFallback(e)
  BY DEF KeepsFallback
<1> DEFINE r == reads[q]
<1>1. r.answer \in Answer /\ (Fresh(r) \/ Supersede(r) \/ Fallback(r))
  BY ReturnShape
<1>2. CASE Fresh(r)
  <2>1. out'.err = Nil /\ Nil \notin NetErrors
    BY <1>2, RefusalsAuthoritative DEF Fresh
  <2>2. ASSUME e \notin entries'
        PROVE  \E f \in entries' : f.ref = e.ref /\ f.at = now
    <3> DEFINE n == [ref |-> r.ref, version |-> r.answer.version, at |-> now,
                     lease |-> r.answer.lease, issued |-> r.answer.issued]
    <3>1. entries' = Without(r.ref) \cup {n}
      BY <1>2, <2>2 DEF Fresh
    <3>2. e.ref = r.ref
      BY <2>2, <3>1 DEF Without
    <3>3. n \in entries' /\ n.ref = r.ref /\ n.at = now
      BY <3>1
    <3> HIDE DEF n
    <3> QED  BY <3>2, <3>3
  <2> QED  BY <2>1, <2>2 DEF KeepsFallback
<1>3. CASE Supersede(r)
  <2>1. out'.err = r.answer.err /\ out'.ref = r.ref /\ out' # Nothing
    BY <1>3 DEF Supersede, Nothing
  <2>2. r.answer.err \in Refusals /\ r.answer.err \notin NetErrors
    BY <1>1, <1>3, RefusalsAuthoritative DEF Supersede, Answer
  <2>3. e \in entries' \/ e.ref = r.ref
    BY <1>3 DEF Supersede, Without
  <2> QED  BY <2>1, <2>2, <2>3 DEF KeepsFallback
<1>4. CASE Fallback(r)
  <2>1. e.ref = r.ref => out'.kind = "stale" /\ e \in entries'
    BY <1>4 DEF Fallback
  <2>2. out'.ref = r.ref
    BY <1>4 DEF Fallback
  <2>3. e \in entries'
    BY <1>4, <2>1 DEF Fallback, Without
  <2> QED  BY <2>1, <2>2, <2>3 DEF KeepsFallback
<1> QED  BY <1>1, <1>2, <1>3, <1>4

\* No outage, whatever its errors, costs a response that could be served.
THEOREM OutageCostsNothing == Spec => OutageKeepsFallback
<1>1. ASSUME TypeOK, Next, NEW e \in entries PROVE KeepsFallback(e)
  <2>1. CASE \E q \in Requests : Return(q)
    BY <1>1, <2>1, ReturnKeepsFallback
  <2>2. CASE Sweep
    BY <1>1, <2>2 DEF Sweep, Servable, Live, KeepsFallback, Nothing
  <2>3. CASE \E client \in Clients, age \in Ages : Swap(client, age)
    <3>1. PICK client \in Clients, age \in Ages : Swap(client, age)
      BY <2>3
    <3>2. age <= 0 => age = 0
      BY CacheAssumptions DEF CacheAssumptions
    <3> QED  BY <1>1, <3>1, <3>2 DEF Swap, Servable, KeepsFallback, Nothing
  <2>4. CASE Tick \/ (\E k \in Refs : Change(k))
             \/ \E q \in Requests : Begin(q) \/ Respond(q)
    BY <1>1, <2>4 DEF Tick, Change, Begin, Respond, KeepsFallback
  <2> QED  BY <1>1, <2>1, <2>2, <2>3, <2>4 DEF Next
<1>2. TypeOK /\ [Next]_vars => [\A e \in entries : KeepsFallback(e)]_vars
  BY <1>1
<1> QED  BY TypeCorrect, <1>2, PTL DEF Spec, OutageKeepsFallback

-----------------------------------------------------------------------------
\* A returning read is one of the four ends the promise knows.
LEMMA ReturnIsARead ==
  ASSUME RefusalInv, AgeInv, NEW q \in Requests, Return(q)
  PROVE  Promise!Read(reads[q].ref)
<1> DEFINE r == reads[q]
           k == reads[q].ref
<1>1. /\ r \in Answered /\ k \in Refs /\ r.answer \in Answer
      /\ AnswerSound(r) /\ Timely(r) /\ r.pc = "answered"
  BY ReturnShape DEF RefusalInv, AgeInv, Return
<1>2. /\ now \in Nat /\ ReadTimeout \in Nat /\ Ages \subseteq Nat
      /\ maxAge \in Ages /\ world[k].version \in Nat
      /\ refusedAt \in [Refs -> Version] /\ Nothing.kind = "none"
  BY <1>1, CacheAssumptions
     DEF CacheAssumptions, RefusalInv, TypeOK, World, Version, Nothing
<1>3. now' = now /\ world' = world /\ maxAge' = maxAge
  BY DEF Return
<1>4. CASE Fresh(r)
  <2>1. r.answer.err = Nil /\ refusedAt' = refusedAt
    BY <1>4, RefusalsAuthoritative DEF Fresh, Return
  <2>2. /\ r.answer.version \in 0..world[k].version
        /\ r.answer.lease \in Leases
        /\ r.answer.issued \in (now - ReadTimeout)..now
    BY <1>1, <1>2, <2>1 DEF AnswerSound, Timely, Answer, Answered, Version
  <2>3. Told' = Promise!Says("fresh", k, r.answer.version, r.answer.lease,
                             r.answer.issued)
    BY <1>4 DEF Fresh, Told, Promise!Says, Nothing
  <2>4. \/ entries' = entries
        \/ /\ maxAge > 0 /\ r.answer.version > refusedAt[k]
           /\ entries' = Promise!Others(k) \cup
                {[ref |-> k, version |-> r.answer.version, at |-> now,
                  lease |-> r.answer.lease, issued |-> r.answer.issued]}
    BY <1>1, <1>4, <2>1 DEF Fresh, AnswerSound, Without, Promise!Others
  <2>5. Promise!Fresh(k, r.answer.version, r.answer.lease, r.answer.issued)
    BY <1>3, <2>1, <2>3, <2>4 DEF Promise!Fresh
  <2> QED  BY <1>1, <2>2, <2>5 DEF Promise!Read
<1>5. CASE Supersede(r)
  <2>1. r.answer.err \in Refusals
    BY <1>1, <1>5, RefusalsAuthoritative DEF Supersede, Answer
  <2>2. r.answer.version \in 0..world[k].version
    BY <1>1, <1>2, <2>1 DEF AnswerSound, Closed, Answer, Version
  <2>3. refusedAt' = [refusedAt EXCEPT ![k] =
          IF r.answer.version > @ THEN r.answer.version ELSE @]
    BY <1>1, <1>2, <2>1 DEF Return
  <2>4. Told' = Promise!Says("refused", k, 0, 0, now)
    BY <1>5 DEF Supersede, Told, Promise!Says, Nothing
  <2>5. Promise!Refuse(k, r.answer.version)
    BY <1>3, <1>5, <2>3, <2>4
       DEF Supersede, Without, Promise!Refuse, Promise!Others
  <2> QED  BY <1>1, <2>2, <2>5 DEF Promise!Read
<1>6. CASE Fallback(r)
  <2>1. refusedAt' = refusedAt
    BY <1>6, RefusalsAuthoritative DEF Fallback, Return
  <2>2. \A e : Live(e, maxAge) <=> now - e.at <= Promise!Window(e, maxAge)
    BY DEF Live, ServableFor, Promise!Window
  <2>3. CASE \E e \in entries :
               /\ e.ref = k /\ Live(e, maxAge)
               /\ out' = [kind |-> "stale", ref |-> k, err |-> r.answer.err,
                          version |-> e.version, lease |-> e.lease,
                          issued |-> e.issued]
               /\ UNCHANGED entries
    <3>1. PICK e \in Promise!Open(maxAge) :
            /\ e.ref = k
            /\ Told' = Promise!Says("stale", k, e.version, e.lease, e.issued)
      BY <2>2, <2>3 DEF Promise!Open, Told, Promise!Says, Nothing
    <3>2. Promise!Stale(k)
      BY <1>3, <2>1, <2>3, <3>1 DEF Promise!Stale
    <3> QED  BY <3>2 DEF Promise!Read
  <2>4. CASE /\ \A e \in entries : e.ref = k => ~Live(e, maxAge)
             /\ out' = [kind |-> "failed", ref |-> k, err |-> r.answer.err,
                        version |-> 0, lease |-> 0, issued |-> now]
             /\ entries' = Without(k)
    <3>1. Told' = Promise!Says("failed", k, 0, 0, now)
      BY <2>4 DEF Told, Promise!Says, Nothing
    <3>2. Promise!Fail(k)
      BY <1>3, <2>1, <2>2, <2>4, <3>1
         DEF Promise!Fail, Promise!Open, Promise!Others, Without
    <3> QED  BY <3>2 DEF Promise!Read
  <2> QED  BY <1>6, <2>3, <2>4 DEF Fallback
<1> QED  BY <1>4, <1>5, <1>6, ReturnShape DEF AgeInv

\* Every step of the cache is a step of the promise, or none.
LEMMA StepIsPromised ==
  ASSUME RefusalInv, AgeInv, [Next]_vars
  PROVE  [Promise!Next]_(Promise!vars)
<1>1. ASSUME NEW k \in Refs, Change(k) PROVE Promise!Rewrite(k)
  <2>1. [j \in Refs |-> world[j].version]' =
          [[j \in Refs |-> world[j].version] EXCEPT ![k] = @ + 1]
    <3>1. PICK readable \in BOOLEAN :
            world' = [world EXCEPT ![k] = [version |-> world[k].version + 1,
                                           readable |-> readable]]
      BY <1>1 DEF Change
    <3>2. \A j \in Refs : world'[j].version =
            IF j = k THEN world[k].version + 1 ELSE world[j].version
      BY <3>1 DEF RefusalInv, TypeOK
    <3>3. [j \in Refs |-> world[j].version]' =
            [j \in Refs |-> IF j = k THEN world[k].version + 1
                                     ELSE world[j].version]
      BY <3>2
    <3> QED  BY <3>3
  <2> QED  BY <1>1, <2>1
           DEF Change, Promise!Rewrite, Told, Promise!Silent, Nothing
<1>2. ASSUME Tick PROVE Promise!Pass
  BY <1>2 DEF Tick, Promise!Pass, Told, Promise!Silent, Nothing
<1>3. \A age : Servable(age) = Promise!Open(age)
  BY DEF Servable, Live, ServableFor, Promise!Open, Promise!Window
<1>4. ASSUME Sweep PROVE Promise!Forget
  BY <1>3, <1>4 DEF Sweep, Promise!Forget, Told, Promise!Silent, Nothing
<1>5. ASSUME NEW client \in Clients, NEW age \in Ages, Swap(client, age)
      PROVE  Promise!Configure(age)
  <2>1. age \in Nat
    BY CacheAssumptions DEF CacheAssumptions
  <2>2. age <= 0 <=> age = 0
    BY <2>1
  <2> QED  BY <1>3, <1>5, <2>2
           DEF Swap, Promise!Configure, Told, Promise!Silent, Nothing
<1>6. ASSUME NEW q \in Requests, Begin(q) \/ Respond(q) PROVE Promise!Forget
  BY <1>6 DEF Begin, Respond, Promise!Forget, Told, Promise!Silent, Nothing
<1>7. ASSUME NEW q \in Requests, Return(q)
      PROVE  reads[q].ref \in Refs /\ Promise!Read(reads[q].ref)
  BY <1>7, ReturnIsARead, ReturnShape DEF AgeInv
<1>8. CASE UNCHANGED vars
  BY <1>8 DEF vars, Promise!vars, Told
<1> QED  BY <1>1, <1>2, <1>4, <1>5, <1>6, <1>7, <1>8 DEF Next, Promise!Next

\* StaleCache implements FallbackPromise.
THEOREM CacheKeepsThePromise == Spec => KeepsThePromise
<1>1. Init => Promise!Init
  <2> SUFFICES ASSUME Init PROVE Promise!Init
    OBVIOUS
  <2>1. [k \in Refs |-> world[k].version] = [k \in Refs |-> 1]
    BY DEF Init
  <2> QED  BY <2>1 DEF Init, Promise!Init, Told, Promise!Silent, Nothing
<1> QED  BY RefusalInit, RefusalStep, AgeInit, AgeStep, StepIsPromised, <1>1,
            PTL
         DEF Spec, KeepsThePromise, Promise!Spec
=============================================================================
