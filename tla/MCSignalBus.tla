---------------------------- MODULE MCSignalBus ----------------------------
\* SignalBus on small instances.
EXTENDS SignalBus, TLC

Symmetric == Permutations(Subs)
=============================================================================
