---------------------------- MODULE MCSseDriver ----------------------------
EXTENDS SseDriver, TLC
Symmetry == Permutations(Topics) \cup Permutations(Handlers)
=============================================================================
