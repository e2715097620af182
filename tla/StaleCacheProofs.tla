-------------------------- MODULE StaleCacheProofs --------------------------
(***************************************************************************)
(* Proofs about StaleCache, for any secrets, requests, leases, windows and *)
(* bounds: its type invariant, and that a refusal supersedes everything    *)
(* OpenBao answered before it.                                             *)
(***************************************************************************)
EXTENDS StaleCache, TLAPS

\* Whatever refuses a secret leaves its version behind for good: a version
\* that was refused is never readable again.
Closed(k, v) ==
  /\ v <= world[k].version
  /\ v = world[k].version => ~world[k].readable

\* What a read that already has its answer may still do to the cache.  Data
\* that the generation will let in is newer than every refusal that came in.
AnswerSound(r) ==
  /\ r.answer.err = Nil =>
       /\ r.answer.version <= world[r.ref].version
       /\ r.gen = gen => r.answer.version > refusedAt[r.ref]
  /\ r.answer.err \in Refusals => Closed(r.ref, r.answer.version)

RefusalInv ==
  /\ TypeOK
  /\ \A k \in Refs : Closed(k, refusedAt[k])
  /\ \A e \in entries : e.version > refusedAt[e.ref]
  /\ \A q \in Requests : reads[q].pc # "idle" => reads[q].gen <= gen
  /\ \A q \in Requests : reads[q].pc = "answered" => AnswerSound(reads[q])
  /\ RefusalSupersedes

-----------------------------------------------------------------------------
\* Every answer about a secret is authoritative and no failure is, whatever
\* else their error chains hold: the order of the tests in retryable decides.
LEMMA ErrorsSplit ==
  /\ \A e \in SecretAnswers : Authoritative(e) /\ e # Nil
  /\ \A e \in Failures : ~Authoritative(e) /\ e # Nil
<1>1. \A e \in SecretAnswers : Authoritative(e)
  BY DEF SecretAnswers, Forbidden, NotFound, NoData, TooLarge, Authoritative,
         Retryable
<1>2. \A e \in Failures : ~Authoritative(e)
  BY DEF Failures, TokenFault, ServerError, Throttled, Unreachable,
         Downgrade, Deadline, Unparsable, Authoritative, Retryable
<1>3. \A e \in SecretAnswers : "nil" \notin e
  BY DEF SecretAnswers, Forbidden, NotFound, NoData, TooLarge
<1>4. \A e \in Failures : "nil" \notin e
  BY DEF Failures, TokenFault, ServerError, Throttled, Unreachable,
         Downgrade, Deadline, Unparsable
<1> QED  BY <1>1, <1>2, <1>3, <1>4 DEF Nil

\* The same for the errors an instance exercises.
LEMMA RefusalsAuthoritative ==
  /\ \A e \in Refusals : Authoritative(e) /\ e # Nil
  /\ \A e \in NetErrors : ~Authoritative(e) /\ e # Nil
BY ErrorsSplit, CacheAssumptions DEF CacheAssumptions

\* A read that is under way has the record its state calls for.
LEMMA ReadShapes ==
  ASSUME TypeOK, NEW q \in Requests
  PROVE  /\ reads[q].pc = "idle" => reads[q] = NoRead
         /\ reads[q].pc = "reading" => reads[q] \in Waiting
         /\ reads[q].pc = "answered" => reads[q] \in Answered
         /\ reads[q].pc \in {"idle", "reading", "answered"}
BY DEF TypeOK, NoRead, Waiting, Answered

\* The initial state is well typed.
LEMMA TypeInit == Init => TypeOK
BY CacheAssumptions
   DEF CacheAssumptions, Init, TypeOK, World, Version, NoRead, Nothing

\* A read keeps what it took in its first critical section when its answer
\* comes in.
LEMMA RespondShape ==
  ASSUME TypeOK, NEW q \in Requests, Respond(q)
  PROVE  \E a \in Answer :
           /\ reads' = [reads EXCEPT ![q] =
                [pc |-> "answered", ref |-> reads[q].ref,
                 client |-> reads[q].client, gen |-> reads[q].gen,
                 deadline |-> reads[q].deadline, answer |-> a]]
           /\ a.err = Nil => /\ world[reads[q].ref].readable
                             /\ a.version = world[reads[q].ref].version
           /\ a.err \in Refusals => /\ ~world[reads[q].ref].readable
                                    /\ a.version = world[reads[q].ref].version
<1> DEFINE k == reads[q].ref
<1>1. reads[q] \in Waiting /\ k \in Refs
  BY ReadShapes DEF Respond, Waiting
<1>2. world[k] \in World /\ now \in Nat /\ 0 \in Leases
  BY <1>1, CacheAssumptions DEF TypeOK, CacheAssumptions
<1>3. PICK a \in Unanswered \cup IF world[k].readable THEN Data(k)
                                                      ELSE Refused(k) :
        reads' = [reads EXCEPT ![q] =
          [pc |-> "answered", ref |-> reads[q].ref,
           client |-> reads[q].client, gen |-> reads[q].gen,
           deadline |-> reads[q].deadline, answer |-> a]]
  BY DEF Respond
<1>4. CASE a \in Unanswered
  <2>1. a \in Answer /\ a.err \in NetErrors
    BY <1>2, <1>4 DEF Unanswered, Answer, Version
  <2>2. a.err # Nil /\ a.err \notin Refusals
    BY <2>1, RefusalsAuthoritative
  <2> QED  BY <1>3, <2>1, <2>2
<1>5. CASE a \notin Unanswered /\ world[k].readable
  <2>1. a \in Data(k)
    BY <1>3, <1>5
  <2>2. a \in Answer /\ a.err = Nil /\ a.version = world[k].version
    BY <1>2, <2>1 DEF Data, Answer, Version, World
  <2>3. a.err \notin Refusals
    BY <2>2, RefusalsAuthoritative
  <2> QED  BY <1>3, <1>5, <2>2, <2>3
<1>6. CASE a \notin Unanswered /\ ~world[k].readable
  <2>1. a \in Refused(k)
    BY <1>3, <1>6
  <2>2. a \in Answer /\ a.err \in Refusals /\ a.version = world[k].version
    BY <1>2, <2>1 DEF Refused, Answer, Version, World
  <2>3. a.err # Nil
    BY <2>2, RefusalsAuthoritative
  <2> QED  BY <1>3, <1>6, <2>2, <2>3
<1> QED  BY <1>4, <1>5, <1>6

\* The step of a read's second critical section, with the read named.
LEMMA ReturnShape ==
  ASSUME TypeOK, NEW q \in Requests, Return(q)
  PROVE  /\ reads[q] \in Answered
         /\ reads[q].ref \in Refs
         /\ reads[q].answer \in Answer
         /\ Fresh(reads[q]) \/ Supersede(reads[q]) \/ Fallback(reads[q])
         /\ reads' = [reads EXCEPT ![q] = NoRead]
         /\ refusedAt' \in [Refs -> Version]
<1>1. reads[q] \in Answered
  BY ReadShapes DEF Return
<1>2. reads[q].ref \in Refs /\ reads[q].answer \in Answer
  BY <1>1 DEF Answered
<1>3. refusedAt' \in [Refs -> Version]
  BY <1>2 DEF TypeOK, Return, Answer, Version
<1> QED  BY <1>1, <1>2, <1>3 DEF Return

\* The cache and the result of a returning read are well typed.
LEMMA ReturnType ==
  ASSUME TypeOK, NEW q \in Requests, Return(q)
  PROVE  entries' \subseteq Entry /\ out' \in Result /\ gen' \in Nat
<1> DEFINE r == reads[q]
<1>1. r \in Answered /\ r.ref \in Refs /\ r.answer \in Answer
      /\ now \in Nat /\ 0 \in Leases /\ gen \in Nat
  BY ReturnShape, CacheAssumptions DEF CacheAssumptions, TypeOK
<1>2. entries \subseteq Entry
  BY DEF TypeOK
<1>3. CASE Fresh(r)
  <2>1. [ref |-> r.ref, version |-> r.answer.version, at |-> now,
         lease |-> r.answer.lease, issued |-> r.answer.issued] \in Entry
    BY <1>1 DEF Entry, Answer
  <2>2. entries' \subseteq Entry
    BY <1>2, <1>3, <2>1 DEF Fresh, Without
  <2>3. out' \in Result
    BY <1>1, <1>3 DEF Fresh, Result, Answer
  <2> QED  BY <1>1, <1>3, <2>2, <2>3 DEF Fresh
<1>4. CASE Supersede(r)
  BY <1>1, <1>2, <1>4 DEF Supersede, Without, Result, Answer, Version
<1>5. CASE Fallback(r)
  <2>1. entries' \subseteq Entry
    BY <1>2, <1>5 DEF Fallback, Without
  <2>2. out' \in Result
    <3>1. CASE \E e \in entries :
                 /\ e.ref = r.ref /\ Live(e, maxAge)
                 /\ out' = [kind |-> "stale", ref |-> r.ref,
                            err |-> r.answer.err, version |-> e.version,
                            lease |-> e.lease, issued |-> e.issued]
      BY <1>1, <1>2, <3>1 DEF Entry, Result, Answer
    <3>2. CASE out' = [kind |-> "failed", ref |-> r.ref,
                       err |-> r.answer.err, version |-> 0, lease |-> 0,
                       issued |-> now]
      BY <1>1, <3>2 DEF Result, Answer, Version
    <3> QED  BY <1>5, <3>1, <3>2 DEF Fallback
  <2> QED  BY <1>1, <1>5, <2>1, <2>2 DEF Fallback
<1> QED  BY <1>3, <1>4, <1>5, ReturnShape

\* Every step keeps the state well typed.
LEMMA TypeStep == TypeOK /\ [Next]_vars => TypeOK'
<1> SUFFICES ASSUME TypeOK, [Next]_vars PROVE TypeOK'
  OBVIOUS
<1> USE DEF TypeOK
<1>1. ASSUME NEW k \in Refs, Change(k) PROVE TypeOK'
  BY <1>1 DEF Change, World, Version, Nothing
<1>2. CASE Tick
  BY <1>2 DEF Tick, Nothing
<1>3. CASE Sweep
  BY <1>3, CacheAssumptions DEF Sweep, Servable, CacheAssumptions, Nothing
<1>4. ASSUME NEW client \in Clients, NEW age \in Ages, Swap(client, age)
      PROVE  TypeOK'
  BY <1>4 DEF Swap, Servable, Nothing
<1>5. ASSUME NEW q \in Requests, Begin(q) PROVE TypeOK'
  <2>1. PICK k \in Refs :
          reads' = [reads EXCEPT ![q] =
            [pc |-> "reading", ref |-> k, client |-> inner, gen |-> gen,
             deadline |-> now + ReadTimeout]]
    BY <1>5 DEF Begin
  <2>2. [pc |-> "reading", ref |-> k, client |-> inner, gen |-> gen,
         deadline |-> now + ReadTimeout] \in Waiting
    BY CacheAssumptions DEF Waiting, CacheAssumptions
  <2>3. reads' \in [Requests -> {NoRead} \cup Waiting \cup Answered]
    BY <2>1, <2>2
  <2> QED  BY <1>5, <2>3 DEF Begin, Nothing
<1>6. ASSUME NEW q \in Requests, Respond(q) PROVE TypeOK'
  <2>1. reads[q] \in Waiting
    BY <1>6, ReadShapes DEF Respond
  <2>2. PICK a \in Answer :
          reads' = [reads EXCEPT ![q] =
            [pc |-> "answered", ref |-> reads[q].ref,
             client |-> reads[q].client, gen |-> reads[q].gen,
             deadline |-> reads[q].deadline, answer |-> a]]
    BY <1>6, RespondShape
  <2>3. [pc |-> "answered", ref |-> reads[q].ref, client |-> reads[q].client,
         gen |-> reads[q].gen, deadline |-> reads[q].deadline,
         answer |-> a] \in Answered
    BY <2>1 DEF Waiting, Answered
  <2>4. reads' \in [Requests -> {NoRead} \cup Waiting \cup Answered]
    BY <2>2, <2>3
  <2> QED  BY <1>6, <2>4 DEF Respond, Nothing
<1>7. ASSUME NEW q \in Requests, Return(q) PROVE TypeOK'
  <2>1. entries' \subseteq Entry /\ out' \in Result /\ gen' \in Nat
    BY <1>7, ReturnType
  <2>2. /\ reads' = [reads EXCEPT ![q] = NoRead]
        /\ refusedAt' \in [Refs -> Version]
    BY <1>7, ReturnShape
  <2> QED  BY <1>7, <2>1, <2>2 DEF Return
<1>8. CASE UNCHANGED vars
  BY <1>8 DEF vars
<1> QED  BY <1>1, <1>2, <1>3, <1>4, <1>5, <1>6, <1>7, <1>8 DEF Next

\* The state of the cache is well typed in every behaviour.
THEOREM TypeCorrect == Spec => []TypeOK
BY TypeInit, TypeStep, PTL DEF Spec

-----------------------------------------------------------------------------
\* Nothing was refused or answered yet in the initial state.
LEMMA RefusalInit == Init => RefusalInv
BY TypeInit DEF Init, RefusalInv, Closed, NoRead, Nothing, RefusalSupersedes

\* A returning read keeps the cache clear of refused data, and what the other
\* reads under way may still do to it.
LEMMA RefusalReturn ==
  ASSUME RefusalInv, NEW q \in Requests, Return(q)
  PROVE  /\ \A k \in Refs : Closed(k, refusedAt[k])'
         /\ \A e \in entries' : e.version > refusedAt'[e.ref]
         /\ gen' >= gen
         /\ gen' = gen => UNCHANGED refusedAt
         /\ out'.kind = "stale" => out'.version > refusedAt'[out'.ref]
<1> DEFINE r == reads[q]
<1> USE DEF RefusalInv
<1>1. /\ r \in Answered /\ r.ref \in Refs /\ r.answer \in Answer
      /\ AnswerSound(r) /\ gen \in Nat /\ now \in Nat
      /\ world \in [Refs -> World] /\ refusedAt \in [Refs -> Version]
      /\ entries \subseteq Entry
  BY ReturnShape DEF Return, TypeOK
<1>2. /\ world' = world
      /\ refusedAt' =
           IF r.answer.err \in Refusals /\ r.answer.version > refusedAt[r.ref]
           THEN [refusedAt EXCEPT ![r.ref] = r.answer.version]
           ELSE refusedAt
  BY DEF Return
<1>3. \A k \in Refs : Closed(k, refusedAt[k])'
  BY <1>1, <1>2 DEF AnswerSound, Closed
<1>4. CASE Fresh(r)
  <2>1. refusedAt' = refusedAt
    BY <1>2, <1>4, RefusalsAuthoritative DEF Fresh
  <2>2. r.gen = gen => r.answer.version > refusedAt[r.ref]
    BY <1>1, <1>4 DEF AnswerSound, Fresh
  <2>3. \A e \in entries' : e.version > refusedAt'[e.ref]
    BY <1>4, <2>1, <2>2 DEF Fresh, Without
  <2> QED  BY <1>1, <1>3, <1>4, <2>1, <2>3 DEF Fresh
<1>5. CASE Supersede(r)
  <2>1. \A e \in entries' : e \in entries /\ e.ref # r.ref
    BY <1>5 DEF Supersede, Without
  <2>2. \A e \in entries' : e.version > refusedAt'[e.ref]
    BY <1>1, <1>2, <2>1 DEF Entry
  <2> QED  BY <1>1, <1>3, <1>5, <2>2 DEF Supersede
<1>6. CASE Fallback(r)
  <2>1. refusedAt' = refusedAt
    BY <1>2, <1>6, RefusalsAuthoritative DEF Fallback
  <2>2. \A e \in entries' : e \in entries
    BY <1>6 DEF Fallback, Without
  <2>3. out'.kind = "stale" => out'.version > refusedAt'[out'.ref]
    BY <1>6, <2>1 DEF Fallback
  <2> QED  BY <1>1, <1>3, <1>6, <2>1, <2>2, <2>3 DEF Fallback
<1> QED  BY <1>4, <1>5, <1>6, ReturnShape

\* Every step keeps refused data out of the cache.
LEMMA RefusalStep == RefusalInv /\ [Next]_vars => RefusalInv'
<1> SUFFICES ASSUME RefusalInv, [Next]_vars PROVE RefusalInv'
  OBVIOUS
<1>1. TypeOK /\ TypeOK'
  BY TypeStep DEF RefusalInv
<1>2. ASSUME NEW k \in Refs, Change(k) PROVE RefusalInv'
  <2>1. \A j \in Refs, v \in Version : Closed(j, v) => Closed(j, v)'
    BY <1>1, <1>2 DEF Change, TypeOK, World, Version, Closed
  <2>2. \A j \in Refs : Closed(j, refusedAt[j])'
    BY <1>1, <1>2, <2>1 DEF Change, RefusalInv, TypeOK
  <2>3. ASSUME NEW p \in Requests, reads[p].pc = "answered"
        PROVE  AnswerSound(reads[p])'
    <3>1. reads[p] \in Answered /\ AnswerSound(reads[p])
      BY <1>1, <2>3, ReadShapes DEF RefusalInv
    <3>2. reads[p].ref \in Refs /\ reads[p].answer \in Answer
      BY <3>1 DEF Answered
    <3>3. reads[p].answer.err \in Refusals =>
            Closed(reads[p].ref, reads[p].answer.version)'
      <4>1. reads' = reads
        BY <1>2 DEF Change
      <4>2. reads[p].answer.version \in Version
        BY <3>2 DEF Answer
      <4> QED  BY <2>1, <3>1, <3>2, <4>1, <4>2 DEF AnswerSound
    <3>4. world[reads[p].ref].version <= world'[reads[p].ref].version
          /\ world[reads[p].ref].version \in Nat
          /\ world'[reads[p].ref].version \in Nat
      BY <1>1, <1>2, <3>2 DEF Change, TypeOK, World, Version
    <3> QED  BY <1>2, <3>1, <3>2, <3>3, <3>4
             DEF AnswerSound, Answer, Version, Change
  <2> QED  BY <1>1, <1>2, <2>2, <2>3
           DEF Change, RefusalInv, RefusalSupersedes, Nothing
<1>3. CASE Tick
  BY <1>1, <1>3 DEF Tick, RefusalInv, RefusalSupersedes, Closed, AnswerSound
<1>4. CASE Sweep
  BY <1>1, <1>4 DEF Sweep, Servable, RefusalInv, RefusalSupersedes, Closed,
                    AnswerSound
<1>5. ASSUME NEW client \in Clients, NEW age \in Ages, Swap(client, age)
      PROVE  RefusalInv'
  BY <1>1, <1>5 DEF Swap, Servable, RefusalInv, RefusalSupersedes, Closed,
                    AnswerSound
<1>6. ASSUME NEW q \in Requests, Begin(q) PROVE RefusalInv'
  <2>1. gen \in Nat /\ reads \in [Requests -> {NoRead} \cup Waiting \cup Answered]
    BY <1>1 DEF TypeOK
  <2>2. reads'[q].pc = "reading" /\ reads'[q].gen = gen
        /\ \A p \in Requests \ {q} : reads'[p] = reads[p]
    BY <1>6, <2>1 DEF Begin
  <2>3. \A p \in Requests : reads'[p].pc # "idle" => reads'[p].gen <= gen
    BY <2>1, <2>2 DEF RefusalInv
  <2>4. \A p \in Requests : reads'[p].pc = "answered" =>
          AnswerSound(reads'[p])
    BY <2>2 DEF RefusalInv
  <2> QED  BY <1>1, <1>6, <2>3, <2>4
           DEF Begin, RefusalInv, RefusalSupersedes, Closed, AnswerSound
<1>7. ASSUME NEW q \in Requests, Respond(q) PROVE RefusalInv'
  <2>1. PICK a \in Answer :
          /\ reads' = [reads EXCEPT ![q] =
               [pc |-> "answered", ref |-> reads[q].ref,
                client |-> reads[q].client, gen |-> reads[q].gen,
                deadline |-> reads[q].deadline, answer |-> a]]
          /\ a.err = Nil => /\ world[reads[q].ref].readable
                            /\ a.version = world[reads[q].ref].version
          /\ a.err \in Refusals => /\ ~world[reads[q].ref].readable
                                   /\ a.version = world[reads[q].ref].version
    BY <1>1, <1>7, RespondShape
  <2>2. reads[q] \in Waiting
    BY <1>1, <1>7, ReadShapes DEF Respond
  <2>3. /\ reads[q].ref \in Refs /\ reads[q].gen <= gen
        /\ world[reads[q].ref] \in World /\ refusedAt[reads[q].ref] \in Nat
        /\ Closed(reads[q].ref, refusedAt[reads[q].ref])
    BY <1>1, <2>2 DEF Waiting, RefusalInv, TypeOK, Version
  <2>4. AnswerSound(reads'[q])
    <3>1. /\ reads'[q].ref = reads[q].ref /\ reads'[q].gen = reads[q].gen
          /\ reads'[q].answer = a
      BY <1>1, <2>1 DEF TypeOK
    <3>2. a.err = Nil => a.version > refusedAt[reads[q].ref]
      BY <2>1, <2>3 DEF Closed, World, Version
    <3>3. a.err \in Refusals => Closed(reads[q].ref, a.version)
      BY <2>1, <2>3 DEF Closed, World, Version
    <3> QED  BY <2>1, <2>3, <3>1, <3>2, <3>3 DEF AnswerSound, World, Version
  <2>5. \A p \in Requests \ {q} : reads'[p] = reads[p]
    BY <1>1, <2>1 DEF TypeOK
  <2>6. \A p \in Requests : reads'[p].pc # "idle" => reads'[p].gen <= gen
    BY <1>1, <2>1, <2>3, <2>5 DEF RefusalInv, TypeOK
  <2>7. \A p \in Requests : reads'[p].pc = "answered" =>
          AnswerSound(reads'[p])
    BY <2>4, <2>5 DEF RefusalInv
  <2> QED  BY <1>1, <1>7, <2>6, <2>7
           DEF Respond, RefusalInv, RefusalSupersedes, Closed, AnswerSound
<1>8. ASSUME NEW q \in Requests, Return(q) PROVE RefusalInv'
  <2>1. /\ \A k \in Refs : Closed(k, refusedAt[k])'
        /\ \A e \in entries' : e.version > refusedAt'[e.ref]
        /\ gen' >= gen
        /\ gen' = gen => refusedAt' = refusedAt
        /\ out'.kind = "stale" => out'.version > refusedAt'[out'.ref]
    BY <1>8, RefusalReturn
  <2>2. reads'[q].pc = "idle" /\ \A p \in Requests \ {q} : reads'[p] = reads[p]
    BY <1>1, <1>8, ReturnShape DEF TypeOK, NoRead
  <2>3. ASSUME NEW p \in Requests, reads'[p].pc # "idle"
        PROVE  reads'[p].gen <= gen'
    <3>1. p # q /\ reads'[p] = reads[p] /\ reads[p].gen <= gen
      BY <2>2, <2>3 DEF RefusalInv
    <3>2. reads[p].gen \in Nat
      BY <1>1, <2>3, <3>1, ReadShapes DEF Waiting, Answered
    <3> QED  BY <1>1, <2>1, <3>1, <3>2 DEF TypeOK
  <2>4. ASSUME NEW p \in Requests, reads'[p].pc = "answered"
        PROVE  AnswerSound(reads[p])'
    <3>1. reads'[p] = reads[p] /\ AnswerSound(reads[p]) /\ reads[p].gen <= gen
      BY <2>2, <2>4 DEF RefusalInv
    <3>2. reads[p].gen \in Nat /\ reads[p].ref \in Refs
      BY <1>1, <2>4, <3>1, ReadShapes DEF Answered
    <3>3. world' = world
      BY <1>8 DEF Return
    <3>4. reads[p].gen = gen' => gen' = gen
      BY <1>1, <2>1, <3>1, <3>2 DEF TypeOK
    <3> QED  BY <2>1, <3>1, <3>3, <3>4 DEF AnswerSound, Closed
  <2>5. RefusalSupersedes'
    BY <2>1 DEF RefusalSupersedes
  <2> QED  BY <1>1, <2>1, <2>3, <2>4, <2>5 DEF RefusalInv
<1>9. CASE UNCHANGED vars
  BY <1>1, <1>9 DEF vars, RefusalInv, RefusalSupersedes, Closed, AnswerSound
<1> QED  BY <1>2, <1>3, <1>4, <1>5, <1>6, <1>7, <1>8, <1>9 DEF Next

\* Data that OpenBao refused never resurfaces, in the cache or from it.
THEOREM RefusalIsFinal == Spec => []RefusalSupersedes
<1>1. RefusalInv => RefusalSupersedes
  BY DEF RefusalInv
<1> QED  BY RefusalInit, RefusalStep, <1>1, PTL DEF Spec
=============================================================================
