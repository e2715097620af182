---------------------------- MODULE MCStaleCache ----------------------------
\* Instances of StaleCache for TLC.
EXTENDS StaleCache, TLC

\* The two kinds whose chains pass for the other side: a failure that holds a
\* 403, and an answer that holds a *url.Error.  StaleCacheProofs!ErrorsSplit
\* has all eleven kinds.
MCNetErrors == {TokenFault}
MCRefusals  == {TooLarge}

Symmetry == Permutations(Requests) \cup Permutations(Refs)
                                   \cup Permutations(Clients)
=============================================================================
