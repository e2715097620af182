----------------------------- MODULE BaoErrors -----------------------------
(***************************************************************************)
(* What package bao tells apart in the error of an OpenBao call.  A Go     *)
(* error is abstracted to the set of the types errors.As and errors.Is     *)
(* find in its chain: a response over the size limit, for instance, is a   *)
(* *responseTooLargeError inside the *url.Error net/http wraps it in.      *)
(***************************************************************************)

\* No error.
Nil == {"nil"}

\* OpenBao's own answers about the secret.  A 403 stands for every rejection
\* with a 4xx status.
Forbidden  == {"status403"}
NotFound   == {"notFound"}
NoData     == {"noData"}
TooLarge   == {"url", "tooLarge"}
SecretAnswers == {Forbidden, NotFound, NoData, TooLarge}

\* Everything that says nothing about the secret.
TokenFault  == {"tokenFault", "status403"}
ServerError == {"status5xx"}
Throttled   == {"status429"}
Unreachable == {"url"}
Downgrade   == {"url", "downgrade"}
Deadline    == {"context"}
Unparsable  == {}
BadCert     == {"url", "certificate"}
Failures == {TokenFault, ServerError, Throttled, Unreachable, Downgrade,
             Deadline, Unparsable}

\* Mutant: the token fault is not told apart from the 403 it wraps.
RetryableByStatus(err) ==
  /\ err \cap {"tooLarge", "downgrade"} = {}
  /\ err \cap {"url", "context", "status5xx", "status429"} # {}

\* The order of the tests matters: a token fault wraps a 403, a refused size
\* or redirect is wrapped by a *url.Error.
Retryable(err) ==
  \/ "tokenFault" \in err
  \/ /\ err \cap {"tooLarge", "downgrade"} = {}
     /\ IF err \cap {"status403", "status429", "status5xx"} # {}
        THEN err \cap {"status5xx", "status429"} # {}
        ELSE err \cap {"url", "context"} # {}

\* Mutant: a certificate that does not verify is waited out.
LoginRetryableAsRetryable(err) == Retryable(err)

\* At a login a certificate that does not verify is nothing a retry can fix.
LoginRetryable(err) == "certificate" \notin err /\ Retryable(err)

Authoritative(err) ==
  /\ ~Retryable(err)
  /\ err \cap {"tooLarge", "status403", "notFound", "noData"} # {}
=============================================================================
