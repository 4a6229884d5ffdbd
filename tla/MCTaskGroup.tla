---------------------------- MODULE MCTaskGroup ----------------------------
EXTENDS TaskGroup, TLC

\* Runner tasks are interchangeable, and so are members.
Interchangeable == Permutations(Task) \cup Permutations(Member)
=============================================================================
