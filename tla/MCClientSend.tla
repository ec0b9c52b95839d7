---------------------------- MODULE MCClientSend ----------------------------
\* Threads are interchangeable.
EXTENDS ClientSend, TLC

Symmetry == Permutations(Threads)
=============================================================================
