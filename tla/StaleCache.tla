----------------------------- MODULE StaleCache -----------------------------
(***************************************************************************)
(* bao.StaleCache: the fallback every credential request reads through.    *)
(* Read takes the mutex twice, before and after the OpenBao call, so it is *)
(* two actions with OpenBao's answer between them; Swap (a reload) and the *)
(* background sweep interleave with any number of reads.                   *)
(*                                                                         *)
(* OpenBao is the environment: each secret has a version that an operator  *)
(* can change, and at each version it is readable or refused.  A version   *)
(* stands for the data of the secret.                                      *)
(***************************************************************************)
EXTENDS Integers, FiniteSets, BaoErrors

CONSTANTS
  Refs,           \* config.SecretRef: the keys of the cache
  Requests,       \* calls of Read that can overlap
  Clients,        \* the clients reloads install
  Ages,           \* values serve_stale_for can have; 0 is off
  Leases,         \* leases answers can carry; 0 is none
  NetErrors,      \* the failures of a call that are exercised
  Refusals,       \* the answers about a secret that are exercised
  ReadTimeout,    \* what a read can take, from its start to its return
  SweepInterval,  \* the period of the sweep
  MaxTime, MaxVersion, MaxGen  \* bounds on the clock, versions, refusals

ASSUME CacheAssumptions ==
  /\ Ages \subseteq Nat /\ Leases \subseteq Nat /\ 0 \in Leases
  /\ NetErrors \subseteq Failures /\ Refusals \subseteq SecretAnswers
  /\ ReadTimeout \in Nat \ {0} /\ SweepInterval \in Nat \ {0}
  /\ MaxTime \in Nat /\ MaxVersion \in Nat /\ MaxGen \in Nat

VARIABLES
  now,        \* the clock
  world,      \* OpenBao: the version of each secret, and whether it is readable
  inner, maxAge, entries, gen,  \* the fields of StaleCache
  nextSweep,  \* when the sweep's ticker fires next
  reads,      \* the Read calls under way
  out,        \* what the last step returned to a requester, if it returned
  refusedAt   \* history: the latest version of a secret whose refusal arrived

vars == <<now, world, inner, maxAge, entries, gen, nextSweep, reads, out,
          refusedAt>>

Version == Nat
World == [version : Version, readable : BOOLEAN]

\* What a read got from OpenBao: data with its lease, or an error.  issued is
\* when OpenBao answered; an error has no lease, a failure no version.
Answer == [err : {Nil} \cup Refusals \cup NetErrors, version : Version,
           lease : Leases, issued : Nat]

\* entries is a Go map: at most one entry per ref.
Entry == [ref : Refs, version : Version, at : Nat, lease : Leases,
          issued : Nat]

\* A Read between its two critical sections, with what it took in the first.
NoRead == [pc |-> "idle"]
Waiting == [pc : {"reading"}, ref : Refs, client : Clients, gen : Nat,
            deadline : Nat]
Answered == [pc : {"answered"}, ref : Refs, client : Clients, gen : Nat,
             deadline : Nat, answer : Answer]

Nothing == [kind |-> "none"]
Result == [kind : {"fresh", "stale", "refused", "failed"}, ref : Refs,
           err : {Nil} \cup Refusals \cup NetErrors, version : Version,
           lease : Leases, issued : Nat]

TypeOK ==
  /\ now \in Nat
  /\ world \in [Refs -> World]
  /\ inner \in Clients /\ maxAge \in Ages /\ gen \in Nat /\ nextSweep \in Nat
  /\ entries \subseteq Entry
  /\ reads \in [Requests -> {NoRead} \cup Waiting \cup Answered]
  /\ out \in {Nothing} \cup Result
  /\ refusedAt \in [Refs -> Version]

Busy == {q \in Requests : reads[q].pc # "idle"}

\* How long past its fetch an entry can be served under the given max age.
ServableFor(e, age) == IF e.lease > 0 /\ e.lease < age THEN e.lease ELSE age

\* Mutant: the lease is forgotten.
LiveIgnoringLease(e, age) == now - e.at <= age

Live(e, age) == now - e.at <= ServableFor(e, age)

Without(ref) == {e \in entries : e.ref # ref}

Init ==
  /\ now = 0
  /\ world \in [Refs -> [version : {1}, readable : BOOLEAN]]
  /\ inner \in Clients /\ maxAge \in Ages
  /\ entries = {} /\ gen = 0 /\ nextSweep = SweepInterval
  /\ reads = [q \in Requests |-> NoRead]
  /\ out = Nothing
  /\ refusedAt = [k \in Refs |-> 0]

-----------------------------------------------------------------------------
\* OpenBao and the clock.

\* An operator rewrites, denies, deletes or restores a secret.
Change(k) ==
  /\ world[k].version < MaxVersion
  /\ \E readable \in BOOLEAN :
       world' = [world EXCEPT ![k] = [version |-> @.version + 1,
                                      readable |-> readable]]
  /\ out' = Nothing
  /\ UNCHANGED <<now, inner, maxAge, entries, gen, nextSweep, reads, refusedAt>>

\* Time passes up to the next deadline of a read and the next sweep.
Tick ==
  /\ now < MaxTime
  /\ now < nextSweep
  /\ \A q \in Busy : now < reads[q].deadline
  /\ now' = now + 1
  /\ out' = Nothing
  /\ UNCHANGED <<world, inner, maxAge, entries, gen, nextSweep, reads, refusedAt>>

\* What OpenBao and the network can make of a read of k that ends now: the
\* data or a refusal of it, or no answer about the secret.
Data(k)    == [err : {Nil}, version : {world[k].version}, lease : Leases,
               issued : {now}]
Refused(k) == [err : Refusals, version : {world[k].version}, lease : {0},
               issued : {now}]
Unanswered == [err : NetErrors, version : {0}, lease : {0}, issued : {now}]

\* ReadSecret ends.
Respond(q) ==
  /\ reads[q].pc = "reading"
  /\ \E a \in Unanswered \cup IF world[reads[q].ref].readable
                              THEN Data(reads[q].ref)
                              ELSE Refused(reads[q].ref) :
       reads' = [reads EXCEPT ![q] =
         [pc |-> "answered", ref |-> @.ref, client |-> @.client, gen |-> @.gen,
          deadline |-> @.deadline, answer |-> a]]
  /\ out' = Nothing
  /\ UNCHANGED <<now, world, inner, maxAge, entries, gen, nextSweep, refusedAt>>

-----------------------------------------------------------------------------
\* The cache.

\* Read up to the call: the client and the generation are taken together.
Begin(q) ==
  /\ reads[q].pc = "idle"
  /\ gen + Cardinality(Busy) < MaxGen
  /\ \E k \in Refs :
       reads' = [reads EXCEPT ![q] =
         [pc |-> "reading", ref |-> k, client |-> inner, gen |-> gen,
          deadline |-> now + ReadTimeout]]
  /\ out' = Nothing
  /\ UNCHANGED <<now, world, inner, maxAge, entries, gen, nextSweep, refusedAt>>

\* Mutant: a refusal during the read does not stop the store.
FreshIgnoringGen(r) ==
  /\ r.answer.err = Nil
  /\ entries' = IF maxAge > 0
                THEN Without(r.ref) \cup
                     {[ref |-> r.ref, version |-> r.answer.version, at |-> now,
                       lease |-> r.answer.lease, issued |-> r.answer.issued]}
                ELSE entries
  /\ out' = [kind |-> "fresh", ref |-> r.ref, err |-> Nil,
             version |-> r.answer.version, lease |-> r.answer.lease,
             issued |-> r.answer.issued]
  /\ UNCHANGED gen

\* The data goes to the requester, and into the cache unless the fallback is
\* off or a refusal came in since the read began.
Fresh(r) ==
  /\ r.answer.err = Nil
  /\ entries' = IF maxAge > 0 /\ gen = r.gen
                THEN Without(r.ref) \cup
                     {[ref |-> r.ref, version |-> r.answer.version, at |-> now,
                       lease |-> r.answer.lease, issued |-> r.answer.issued]}
                ELSE entries
  /\ out' = [kind |-> "fresh", ref |-> r.ref, err |-> Nil,
             version |-> r.answer.version, lease |-> r.answer.lease,
             issued |-> r.answer.issued]
  /\ UNCHANGED gen

\* Mutant: the generation runs the wrong way.
SupersedeCountingDown(r) ==
  /\ r.answer.err # Nil /\ Authoritative(r.answer.err)
  /\ entries' = Without(r.ref)
  /\ gen' = gen - 1
  /\ out' = [kind |-> "refused", ref |-> r.ref, err |-> r.answer.err,
             version |-> 0, lease |-> 0, issued |-> now]

\* Mutant: a refusal wipes the whole cache.
SupersedeClearing(r) ==
  /\ r.answer.err # Nil /\ Authoritative(r.answer.err)
  /\ entries' = {}
  /\ gen' = gen + 1
  /\ out' = [kind |-> "refused", ref |-> r.ref, err |-> r.answer.err,
             version |-> 0, lease |-> 0, issued |-> now]

\* An authoritative answer supersedes what is remembered.
Supersede(r) ==
  /\ r.answer.err # Nil /\ Authoritative(r.answer.err)
  /\ entries' = Without(r.ref)
  /\ gen' = gen + 1
  /\ out' = [kind |-> "refused", ref |-> r.ref, err |-> r.answer.err,
             version |-> 0, lease |-> 0, issued |-> now]

\* Without an answer about the secret the remembered response is served while
\* its window is open, and dropped when it is not.
Fallback(r) ==
  /\ r.answer.err # Nil /\ ~Authoritative(r.answer.err)
  /\ \/ \E e \in entries :
          /\ e.ref = r.ref /\ Live(e, maxAge)
          /\ out' = [kind |-> "stale", ref |-> r.ref, err |-> r.answer.err,
                     version |-> e.version, lease |-> e.lease,
                     issued |-> e.issued]
          /\ UNCHANGED entries
     \/ /\ \A e \in entries : e.ref = r.ref => ~Live(e, maxAge)
        /\ out' = [kind |-> "failed", ref |-> r.ref, err |-> r.answer.err,
                   version |-> 0, lease |-> 0, issued |-> now]
        /\ entries' = Without(r.ref)
  /\ UNCHANGED gen

\* Read from the answer on: one critical section.  refusedAt records what the
\* answer really was, whatever the code makes of it.
Return(q) ==
  LET r == reads[q] IN
  /\ r.pc = "answered"
  /\ Fresh(r) \/ Supersede(r) \/ Fallback(r)
  /\ reads' = [reads EXCEPT ![q] = NoRead]
  /\ refusedAt' =
       IF r.answer.err \in Refusals /\ r.answer.version > refusedAt[r.ref]
       THEN [refusedAt EXCEPT ![r.ref] = r.answer.version]
       ELSE refusedAt
  /\ UNCHANGED <<now, world, inner, maxAge, nextSweep>>

Servable(age) == {e \in entries : Live(e, age)}

\* Mutant: a reload that turns the fallback off leaves entries to the sweep.
SwapWithoutClear(client, age) ==
  /\ inner' = client /\ maxAge' = age
  /\ entries' = Servable(age)
  /\ out' = Nothing
  /\ UNCHANGED <<now, world, gen, nextSweep, reads, refusedAt>>

\* A reload installs a client and a max age.
Swap(client, age) ==
  /\ inner' = client /\ maxAge' = age
  /\ entries' = IF age <= 0 THEN {} ELSE Servable(age)
  /\ out' = Nothing
  /\ UNCHANGED <<now, world, gen, nextSweep, reads, refusedAt>>

\* sweepLoop: the ticker fires.
Sweep ==
  /\ now = nextSweep
  /\ entries' = Servable(maxAge)
  /\ nextSweep' = now + SweepInterval
  /\ out' = Nothing
  /\ UNCHANGED <<now, world, inner, maxAge, gen, reads, refusedAt>>

Next ==
  \/ \E k \in Refs : Change(k)
  \/ Tick
  \/ Sweep
  \/ \E client \in Clients, age \in Ages : Swap(client, age)
  \/ \E q \in Requests : Begin(q) \/ Respond(q) \/ Return(q)

Spec == Init /\ [][Next]_vars

-----------------------------------------------------------------------------
\* Properties.

\* A refusal is final until the secret is readable again: once it has been
\* returned to any requester, nothing OpenBao answered before it stays in the
\* cache or is served from it, whatever order the overlapping reads return in
\* (stale.go: "must not resurface during a later outage").
RefusalSupersedes ==
  /\ \A e \in entries : e.version > refusedAt[e.ref]
  /\ out # Nothing /\ out.kind = "stale" => out.version > refusedAt[out.ref]

\* What is served stale left OpenBao no longer ago than its window or its lease
\* and the time its own read took, even when a reload shrank the window after
\* it was stored: the lease counts from the store (stale.go:176), and nothing
\* else adds to it.  What the documents say of it is ExpiredIsNeverServed.
StaleWithinWindow ==
  out # Nothing /\ out.kind = "stale" =>
    now - out.issued <= ServableFor(out, maxAge) + ReadTimeout

\* The documented promise: "A dynamic secret is remembered only for as long as
\* its lease, so one that OpenBao has already expired is never served"
\* (docs/operations.md:99-100).
ExpiredIsNeverServed ==
  out # Nothing /\ out.kind = "stale" /\ out.lease > 0 =>
    now - out.issued <= out.lease

\* Secret material is not kept past use: nothing with the fallback off, one
\* entry per ref, and none longer than a sweep interval past its window, for
\* a secret that is never read again too.
Residency ==
  /\ maxAge = 0 => entries = {}
  /\ \A e \in entries : now - e.at <= ServableFor(e, maxAge) + SweepInterval
  /\ \A e, f \in entries : e.ref = f.ref => e = f

\* An outage never costs the fallback: a read OpenBao did not answer is served
\* the remembered response if one is servable, and an entry that is servable
\* before and after a step goes only for newer data or OpenBao's own refusal.
KeepsFallback(e) ==
  Live(e, maxAge) =>
    /\ out' # Nothing /\ out'.ref = e.ref /\ out'.err \in NetErrors
         => out'.kind = "stale"
    /\ e \notin entries' =>
         \/ \E f \in entries' : f.ref = e.ref /\ f.at = now
         \/ out' # Nothing /\ out'.ref = e.ref /\ out'.err \in Refusals
         \/ maxAge' = 0 \/ ~Live(e, maxAge')

OutageKeepsFallback == [][\A e \in entries : KeepsFallback(e)]_vars

\* The cache keeps the promise of FallbackPromise, although its reads overlap:
\* each one takes effect at its return.  What was returned is all a requester
\* sees of an answer; the kinds of errors behind it are hidden.
Told == IF out = Nothing THEN Nothing
        ELSE [kind |-> out.kind, ref |-> out.ref, version |-> out.version,
              lease |-> out.lease, issued |-> out.issued]

Promise == INSTANCE FallbackPromise WITH
  Patience <- ReadTimeout,
  latest   <- [k \in Refs |-> world[k].version],
  refused  <- refusedAt,
  memory   <- entries,
  out      <- Told

\* StaleCache implements FallbackPromise: no interleaving of the two critical
\* sections of Read with other reads, the sweep, a reload and changes at
\* OpenBao shows a requester anything one atomic read could not.
KeepsThePromise == Promise!Spec
=============================================================================
