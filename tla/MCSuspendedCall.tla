-------------------------- MODULE MCSuspendedCall --------------------------
EXTENDS SuspendedCall, TLC

\* Runner tasks are interchangeable, and so are sweepers.
Interchangeable == Permutations(Task) \cup Permutations(Sweeper)
=============================================================================
