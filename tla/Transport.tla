----------------------------- MODULE Transport -----------------------------
(***************************************************************************)
(* guardTransport: one call to OpenBao, from the request to its last byte. *)
(* Every hop of a redirect and every body goes through it; the client      *)
(* library reads the body to its end before it looks at the status.        *)
(***************************************************************************)
EXTENDS Integers, BaoErrors

CONSTANTS
  Limit,    \* responseSizeMax
  MaxSize,  \* the largest body there is
  MaxHops   \* bound on redirects

ASSUME TransportAssumptions ==
  Limit \in Nat /\ MaxSize \in Nat /\ Limit <= MaxSize /\ MaxHops \in Nat

VARIABLE call  \* the call under way

\* How a call can end, and the error its caller gets.  A connection that
\* breaks in the middle of a body ends in io.ErrUnexpectedEOF, which is in no
\* *url.Error.
ErrorOf == [yes |-> Nil, no |-> Forbidden, down |-> ServerError,
            throttled |-> Throttled, garbage |-> Unparsable,
            unreachable |-> Unreachable, slow |-> Deadline, cert |-> BadCert,
            plaintext |-> Downgrade, large |-> TooLarge, broken |-> Unparsable]

\* What OpenBao, or what stands in front of it, can say.
Says == {"yes", "no", "down", "throttled", "garbage"}

NoCall == [at |-> "none"]
Scheme == {"https", "http"}
Sent    == [at : {"sent"}, scheme : Scheme, hops : 0..MaxHops]
Reading == [at : {"reading"}, scheme : Scheme, says : Says, size : 0..MaxSize,
            got : 0..MaxSize, left : 0..(Limit + 1)]
Ended   == [at : {"done"}, scheme : Scheme, how : DOMAIN ErrorOf,
            size : 0..MaxSize, got : 0..MaxSize]
Call    == {NoCall} \cup Sent \cup Reading \cup Ended

Done(how, size, got) ==
  call' = [at |-> "done", scheme |-> call.scheme, how |-> how, size |-> size,
           got |-> got]

Send(scheme) == call' = [at |-> "sent", scheme |-> scheme, hops |-> 0]

\* No response: nothing listens, the server's certificate does not verify, or
\* the client library's timeout runs out.
NoResponse ==
  /\ call.at = "sent"
  /\ \E how \in {"unreachable", "cert", "slow"} : Done(how, 0, 0)

\* Mutant: a redirect is followed wherever it leads.
CheckDowngradeNever(from, to) == TRUE

\* A redirect may not lead away from https.
CheckDowngrade(from, to) == from = "https" => to = "https"

\* A Location without a scheme stays on the one of the request.
Redirect ==
  /\ call.at = "sent" /\ call.hops < MaxHops
  /\ \E to \in Scheme :
       \/ /\ CheckDowngrade(call.scheme, to)
          /\ call' = [call EXCEPT !.scheme = to, !.hops = @ + 1]
       \/ ~CheckDowngrade(call.scheme, to) /\ Done("plaintext", 0, 0)

\* Mutant: no byte of slack.
AllowanceTight == Limit

\* How much of a body may be read: one byte of slack, so that a body of
\* exactly the limit is read to its end.
Allowance == Limit + 1

\* The head of a response; a declared size is refused before the body.
Respond(says, size, declared) ==
  /\ call.at = "sent"
  /\ \/ declared /\ size > Limit /\ Done("large", size, 0)
     \/ /\ ~(declared /\ size > Limit)
        /\ call' = [at |-> "reading", scheme |-> call.scheme, says |-> says,
                    size |-> size, got |-> 0, left |-> Allowance]

\* Mutant: a read is not cut to what may still be read.
ReadBodyUncut ==
  /\ call.at = "reading"
  /\ \/ /\ call.left <= 0
        /\ Done("large", call.size, call.got)
     \/ /\ call.left > 0
        /\ \E n \in 0..(call.size - call.got) :
             \/ n > 0 /\ call' = [call EXCEPT !.got = @ + n, !.left = @ - n]
             \/ /\ call.got + n = call.size
                /\ Done(call.says, call.size, call.size)

\* limitBody.Read: however the reads are cut, and whether the end comes with
\* the last bytes or after them.
ReadBody ==
  /\ call.at = "reading"
  /\ \/ /\ call.left <= 0
        /\ Done("large", call.size, call.got)
     \/ /\ call.left > 0
        /\ \E n \in 0..(call.size - call.got) :
             /\ n <= call.left
             /\ \/ n > 0 /\ call' = [call EXCEPT !.got = @ + n, !.left = @ - n]
                \/ /\ call.got + n = call.size
                   /\ Done(call.says, call.size, call.size)

\* The connection breaks, or stalls, before the end of the body.
BreakBody ==
  /\ call.at = "reading" /\ call.got < call.size
  /\ \E how \in {"broken", "slow"} : Done(how, call.size, call.got)

-----------------------------------------------------------------------------
\* No part of a body is taken for the whole of it, and none within the limit
\* is refused for its size.  One byte above the limit passes only when the
\* end comes with it.
BodyWholeOrRefused ==
  call.at = "done" =>
    /\ call.how \in Says => call.got = call.size /\ call.size <= Limit + 1
    /\ call.how = "large" => call.size > Limit
=============================================================================
