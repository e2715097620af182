--------------------------- MODULE FallbackPromise ---------------------------
(***************************************************************************)
(* What the fallback promises a requester, without a word about how: every *)
(* read is one step that answers with data OpenBao gave out during the     *)
(* read, with OpenBao's refusal, with a remembered response, or fails.     *)
(* There are no reads under way, no generation, no clients and no ticker.  *)
(* StaleCache is shown to implement it.                                    *)
(***************************************************************************)
EXTENDS Integers

CONSTANTS
  Refs,      \* the secrets
  Ages,      \* windows the configuration can give; 0 is off
  Leases,    \* leases answers can carry; 0 is none
  Patience   \* how long a read can take

VARIABLES
  now,
  latest,    \* OpenBao: the version each secret has reached
  refused,   \* the latest version of each secret a requester was refused
  maxAge,    \* the window in effect
  memory,    \* the responses that are remembered
  out        \* what a requester was just told

vars == <<now, latest, refused, maxAge, memory, out>>

Silent == [kind |-> "none"]

Says(kind, k, version, lease, issued) ==
  [kind |-> kind, ref |-> k, version |-> version, lease |-> lease,
   issued |-> issued]

\* A response can be served for its window, and no longer than its lease.
Window(e, age) == IF e.lease > 0 /\ e.lease < age THEN e.lease ELSE age
Open(age)      == {e \in memory : now - e.at <= Window(e, age)}
Others(k)      == {e \in memory : e.ref # k}

Init ==
  /\ now = 0
  /\ latest = [k \in Refs |-> 1] /\ refused = [k \in Refs |-> 0]
  /\ maxAge \in Ages /\ memory = {} /\ out = Silent

-----------------------------------------------------------------------------
\* The surroundings.
Pass ==
  /\ now' = now + 1 /\ out' = Silent
  /\ UNCHANGED <<latest, refused, maxAge, memory>>

Rewrite(k) ==
  /\ latest' = [latest EXCEPT ![k] = @ + 1] /\ out' = Silent
  /\ UNCHANGED <<now, refused, maxAge, memory>>

\* What is no longer open may go at any time.
Forget ==
  /\ memory' \in {memory, Open(maxAge)} /\ out' = Silent
  /\ UNCHANGED <<now, latest, refused, maxAge>>

\* A new window applies at once, to what is remembered too.
Configure(age) ==
  /\ maxAge' = age
  /\ memory' = IF age = 0 THEN {} ELSE Open(age)
  /\ out' = Silent
  /\ UNCHANGED <<now, latest, refused>>

-----------------------------------------------------------------------------
\* The four ways a read ends.

\* Data OpenBao gave out during the read.  It may be remembered, in place of
\* what was, unless a refusal of it or of a later version was returned before.
\* It need not be the latest version OpenBao gave out, nor newer than what it
\* replaces: two overlapping reads can succeed in either order.
Fresh(k, version, lease, issued) ==
  /\ out' = Says("fresh", k, version, lease, issued)
  /\ \/ UNCHANGED memory
     \/ /\ maxAge > 0 /\ version > refused[k]
        /\ memory' = Others(k) \cup
             {[ref |-> k, version |-> version, at |-> now, lease |-> lease,
               issued |-> issued]}
  /\ UNCHANGED <<now, latest, refused, maxAge>>

\* A refusal is passed on, whatever is remembered, and wipes it out.
Refuse(k, version) ==
  /\ out' = Says("refused", k, 0, 0, now)
  /\ memory' = Others(k)
  /\ refused' = [refused EXCEPT ![k] = IF version > @ THEN version ELSE @]
  /\ UNCHANGED <<now, latest, maxAge>>

\* OpenBao had nothing to say: an open response is served, and only without
\* one does the read fail.
Stale(k) ==
  /\ \E e \in Open(maxAge) :
       /\ e.ref = k
       /\ out' = Says("stale", k, e.version, e.lease, e.issued)
  /\ UNCHANGED <<now, latest, refused, maxAge, memory>>

Fail(k) ==
  /\ \A e \in Open(maxAge) : e.ref # k
  /\ out' = Says("failed", k, 0, 0, now)
  /\ memory' = Others(k)
  /\ UNCHANGED <<now, latest, refused, maxAge>>

Read(k) ==
  \/ \E version \in 0..latest[k], lease \in Leases,
       issued \in (now - Patience)..now : Fresh(k, version, lease, issued)
  \/ \E version \in 0..latest[k] : Refuse(k, version)
  \/ Stale(k)
  \/ Fail(k)

Next ==
  \/ Pass \/ Forget
  \/ \E age \in Ages : Configure(age)
  \/ \E k \in Refs : Rewrite(k) \/ Read(k)

Spec == Init /\ [][Next]_vars
=============================================================================
