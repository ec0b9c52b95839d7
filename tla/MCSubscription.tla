--------------------------- MODULE MCSubscription ---------------------------
\* Handlers are interchangeable, and so are the application channels.
EXTENDS Subscription, TLC

Symmetry == Permutations(Handlers) \cup Permutations(AppChannels)
=============================================================================
