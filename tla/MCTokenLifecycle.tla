-------------------------- MODULE MCTokenLifecycle --------------------------
\* Instances of TokenLifecycle for TLC.
EXTENDS TokenLifecycle, TLC

Symmetry == Permutations(Requests)
=============================================================================
