------------------------------ MODULE MCReload ------------------------------
\* Instances of Reload for TLC.
EXTENDS Reload, TLC

Symmetry == Permutations(Requests) \cup Permutations(Sections)
=============================================================================
