----------------------------- MODULE LeaseLock -----------------------------
(***************************************************************************)
(* What the lease of a worker id promises: a lock that can run out.  A     *)
(* process starts to serve only by taking or renewing the lock in the same *)
(* step, the lock passes from one process to another only through being    *)
(* free, and it is given back only by a process that no longer serves.     *)
(***************************************************************************)
CONSTANTS Proc, NoProc

VARIABLES holder, serving

LockInit == holder = NoProc /\ serving = {}

Take(p) ==
    /\ holder = NoProc
    /\ holder' = p
    /\ UNCHANGED serving

Enter(p) ==
    /\ holder \in {NoProc, p}
    /\ holder' = p
    /\ serving' = serving \cup {p}

Leave(p) ==
    /\ serving' = serving \ {p}
    /\ UNCHANGED holder

Release(p) ==
    /\ holder = p /\ p \notin serving
    /\ holder' = NoProc
    /\ UNCHANGED serving

Expire ==
    /\ holder' = NoProc
    /\ UNCHANGED serving

LockNext ==
    \/ \E p \in Proc : Take(p) \/ Enter(p) \/ Leave(p) \/ Release(p)
    \/ Expire

LockSpec == LockInit /\ [][LockNext]_<<holder, serving>>
=============================================================================
