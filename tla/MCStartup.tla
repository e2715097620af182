----------------------------- MODULE MCStartup -----------------------------
\* Instances of Startup for TLC.
EXTENDS Startup

With(methods, keys, timeout, window) ==
  [method : methods, keys : keys, timeout : timeout, window : window]

AllFiles ==
  With({{}} \cup {{m} : m \in Methods \cup {"ldap"}}, SUBSET Keys, {{}}, {{}})

\* Every file that loads and every one that is one option away from that,
\* and every spelling of the two durations.
MCFiles ==
  {f \in AllFiles : \E k \in Keys :
     \/ Valid(f)
     \/ Valid([f EXCEPT !.keys = @ \cup {k}])
     \/ Valid([f EXCEPT !.keys = @ \ {k}])}
  \cup With({{}}, {{}}, {{}, {-1}, {0}, {1}, {2}}, {{}, {-1}, {0}, {1}, {2}})
=============================================================================
