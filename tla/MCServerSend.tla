---------------------------- MODULE MCServerSend ----------------------------
\* Threads and handlers are interchangeable.
EXTENDS ServerSend, TLC

Symmetry == Permutations(Threads) \cup Permutations(Handlers)
=============================================================================
