---------------------------- MODULE MCCredServer ----------------------------
\* Instances of CredServer for TLC.
EXTENDS CredServer, TLC

Symmetry == Permutations(Conns)
=============================================================================
