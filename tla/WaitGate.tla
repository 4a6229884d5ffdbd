------------------------------ MODULE WaitGate ------------------------------
(***************************************************************************)
(* The idempotency gate of core/wait_gate.py, run by a runner task for     *)
(* every ResumeCommand before anything else looks at it                    *)
(* (worker/runner.py, _process_message_from_dict).  The gate is three      *)
(* Redis round trips, ZREM, then SET of the marker or EXISTS on it, and    *)
(* other tasks run between them.                                           *)
(***************************************************************************)
EXTENDS WaitState

\* Some task has removed the entry of w and not yet written its marker.
InWindow(w) == \E t \in Task : task[t].pc = "mark" /\ WaitOf(t) = w

Goto(t, pc) == task' = [task EXCEPT ![t].pc = pc]

\* XREADGROUP hands one reply copy to one task.
GateTake(t, w, k) ==
    /\ task[t].pc = "idle"
    /\ stream[w][k] > 0
    /\ stream' = [stream EXCEPT ![w][k] = @ - 1]
    /\ task' = [task EXCEPT ![t] = [pc |-> "zrem", caller |-> w[1],
                                    call |-> w[2], kind |-> k]]
    /\ UNCHANGED <<index, marker, exec, callee, sweeper, lock, hist, faults>>

\* ZREM returned 1: this copy is the claimant.
GateClaim(t) ==
    LET w == WaitOf(t) IN
    /\ task[t].pc = "zrem"
    /\ index[w] # "absent"
    /\ index' = [index EXCEPT ![w] = "absent"]
    /\ hist' = [hist EXCEPT ![w].allowed = @ + 1]
    /\ Goto(t, "mark")
    /\ UNCHANGED <<marker, stream, exec, callee, sweeper, lock, faults>>

\* ZREM returned 0: the marker decides.
GateMiss(t) ==
    /\ task[t].pc = "zrem"
    /\ index[WaitOf(t)] = "absent"
    /\ Goto(t, "check")
    /\ UNCHANGED <<redisVars, exec, callee, sweeper, lock, hist, faults>>

\* Mutant: the claimant resumes the caller without writing the marker.
GateMarkForgotten(t) ==
    /\ task[t].pc = "mark"
    /\ Goto(t, "resume")
    /\ UNCHANGED <<redisVars, exec, callee, sweeper, lock, hist, faults>>

\* _mark_consumed: the marker is written, or the write is lost (fail-soft).
GateMark(t) ==
    LET w == WaitOf(t) IN
    /\ task[t].pc = "mark"
    /\ Goto(t, "resume")
    /\ \/ /\ marker' = marker \cup {w}
          /\ UNCHANGED <<hist, faults>>
       \/ /\ Fault("redis_error")
          /\ hist' = [hist EXCEPT ![w].unmarked = TRUE]
          /\ UNCHANGED marker
    /\ UNCHANGED <<index, stream, exec, callee, sweeper, lock>>

\* Mutant: a reply without an entry is a duplicate, marker or not.
GateDenyUnmarked(t) ==
    LET w == WaitOf(t) IN
    /\ task[t].pc = "check"
    /\ task' = [task EXCEPT ![t] = IdleTask]
    /\ hist' = [hist EXCEPT ![w].denied = TRUE]
    /\ UNCHANGED <<redisVars, exec, callee, sweeper, lock, faults>>

\* No entry and a marker: a duplicate.  The orphaned_reply event is emitted,
\* the message acknowledged, the task is free again.
GateDeny(t) ==
    LET w == WaitOf(t) IN
    /\ task[t].pc = "check"
    /\ w \in marker
    /\ task' = [task EXCEPT ![t] = IdleTask]
    /\ hist' = [hist EXCEPT ![w].denied = TRUE]
    /\ UNCHANGED <<redisVars, exec, callee, sweeper, lock, faults>>

\* No entry and no marker: an unregistered wait, let through.
GateUnregistered(t) ==
    LET w == WaitOf(t)
        slip == IF InWindow(w) \/ hist[w].unmarked THEN 1 ELSE 0
    IN
    /\ task[t].pc = "check"
    /\ w \notin marker
    /\ hist' = [hist EXCEPT ![w].allowed = @ + 1,
                            ![w].slipped = @ + slip]
    /\ Goto(t, "resume")
    /\ UNCHANGED <<redisVars, exec, callee, sweeper, lock, faults>>

\* A Redis error in the ZREM or the EXISTS: the gate fails open.  A failed
\* ZREM may still have been executed by the server.
GateError(t) ==
    LET w == WaitOf(t) IN
    /\ task[t].pc \in {"zrem", "check"}
    /\ Fault("redis_error")
    /\ \E executed \in BOOLEAN :
          LET removed == executed /\ task[t].pc = "zrem" IN
          /\ index' = [index EXCEPT ![w] = IF removed THEN "absent" ELSE @]
          /\ hist' = [hist EXCEPT ![w].allowed = @ + 1,
                                  ![w].failedOpen = @ + 1,
                                  ![w].unmarked = @ \/ removed]
    /\ Goto(t, "resume")
    /\ UNCHANGED <<marker, stream, exec, callee, sweeper, lock>>

GateNext(t) ==
    \/ \E w \in Wait, k \in Kind : GateTake(t, w, k)
    \/ GateClaim(t)
    \/ GateMiss(t)
    \/ GateMark(t)
    \/ GateDeny(t)
    \/ GateUnregistered(t)
    \/ GateError(t)
=============================================================================
