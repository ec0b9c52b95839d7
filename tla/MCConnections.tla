---------------------------- MODULE MCConnections ----------------------------
\* Connections, addresses, handlers and senders are interchangeable.
EXTENDS Connections, TLC

Symmetry == Permutations(Conns) \cup Permutations(Addrs) \cup
            Permutations(Handlers) \cup Permutations(Senders)
=============================================================================
