---------------------------- MODULE WaitSweeper ----------------------------
(***************************************************************************)
(* The compensation half of core/wait_sweeper.py: a sweeper claims the     *)
(* shard, fetches the due entries and triages them one by one against the  *)
(* execution records and the worker leases.  Every read and every write is *)
(* a Redis round trip of its own, so each is a step of its own and what a  *)
(* step decides on may be stale when a later step acts on it.              *)
(***************************************************************************)
EXTENDS WaitState

SGoto(s, pc) == sweeper' = [sweeper EXCEPT ![s].pc = pc]

\* The triage of one entry is over.
NextEntry(s) == sweeper' = [sweeper EXCEPT ![s].pc = "pick", ![s].wait = NoWait,
                                           ![s].kind = "none", ![s].stop = FALSE]

\* acquire_scoped_lock: SET NX EX on the shard lock.
SweepLock(s) ==
    /\ sweeper[s].pc = "idle"
    /\ lock = NoSweeper
    /\ lock' = s
    /\ SGoto(s, "fetch")
    /\ UNCHANGED <<redisVars, exec, callee, task, hist, faults>>

\* The lock's TTL runs out: its holder died or could not release it or, in an
\* environment where a pass may take that long, is still sweeping.
SweepLockExpires ==
    /\ lock # NoSweeper
    /\ "lock_expiry" \in Environment \/ sweeper[lock].pc = "idle"
    /\ lock' = NoSweeper
    /\ UNCHANGED <<redisVars, exec, callee, task, sweeper, hist, faults>>

\* ZRANGEBYSCORE up to now.
SweepFetch(s) ==
    /\ sweeper[s].pc = "fetch"
    /\ sweeper' = [sweeper EXCEPT
                      ![s].pc = "pick",
                      ![s].todo = {w \in Wait : index[w] = "due"}]
    /\ UNCHANGED <<redisVars, exec, callee, task, lock, hist, faults>>

SweepPick(s, w) ==
    /\ sweeper[s].pc = "pick"
    /\ w \in sweeper[s].todo
    /\ sweeper' = [sweeper EXCEPT ![s].pc = "caller",
                                  ![s].todo = @ \ {w},
                                  ![s].wait = w]
    /\ UNCHANGED <<redisVars, exec, callee, task, lock, hist, faults>>

\* Mutant: the lock is deleted whoever holds it.
SweepReleaseAny(s) ==
    /\ sweeper[s].pc = "pick"
    /\ sweeper[s].todo = {}
    /\ sweeper' = [sweeper EXCEPT ![s] = IdleSweeper]
    /\ lock' = NoSweeper
    /\ UNCHANGED <<redisVars, exec, callee, task, hist, faults>>

\* The batch is done: release_scoped_lock deletes the lock only if the
\* sweeper's own token is still in it.
SweepRelease(s) ==
    /\ sweeper[s].pc = "pick"
    /\ sweeper[s].todo = {}
    /\ sweeper' = [sweeper EXCEPT ![s] = IdleSweeper]
    /\ lock' = IF lock = s THEN NoSweeper ELSE lock
    /\ UNCHANGED <<redisVars, exec, callee, task, hist, faults>>

\* _resolve_entry: the caller's record decides whether anybody waits.
SweepReadCaller(s) ==
    LET status == exec[sweeper[s].wait[1]].status IN
    /\ sweeper[s].pc = "caller"
    /\ \/ status \in Terminal /\ SGoto(s, "drop")
       \/ status \in {"QUEUED", "RUNNING"} /\ SGoto(s, "owner")
       \/ status = "WAITING_AGENT" /\ SGoto(s, "child")
    /\ UNCHANGED <<redisVars, exec, callee, task, lock, hist, faults>>

\* _resolve_unsuspended_caller: is the worker the record names online?
SweepReadOwner(s) ==
    /\ sweeper[s].pc = "owner"
    /\ SGoto(s, IF exec[sweeper[s].wait[1]].up THEN "extend" ELSE "drop")
    /\ UNCHANGED <<redisVars, exec, callee, task, lock, hist, faults>>

\* _triage_child up to the lease check: what the callee's record says.
SweepReadChild(s) ==
    LET pos == callee[sweeper[s].wait].pos IN
    /\ sweeper[s].pc = "child"
    /\ \/ /\ pos \in {"none", "recorded", "queued"}
          /\ sweeper' = [sweeper EXCEPT ![s].pc = "emit",
                                        ![s].kind = "failure"]
       \/ pos = "finished" /\ SGoto(s, "result")
       \/ pos = "suspended" /\ SGoto(s, "extend")
       \/ pos \in Working /\ SGoto(s, "lease")
    /\ UNCHANGED <<redisVars, exec, callee, task, lock, hist, faults>>

\* Mutant: a live lease renews the wait without a ceiling.
SweepReadLeaseNoCeiling(s) ==
    /\ sweeper[s].pc = "lease"
    /\ \/ callee[sweeper[s].wait].lease /\ SGoto(s, "extend")
       \/ /\ ~callee[sweeper[s].wait].lease
          /\ sweeper' = [sweeper EXCEPT ![s].pc = "emit",
                                        ![s].kind = "failure"]
    /\ UNCHANGED <<redisVars, exec, callee, task, lock, hist, faults>>

\* _triage_child on a callee some worker picked up: a live lease renews the
\* wait up to the ceiling, anything else is a failure.  A callee past the
\* ceiling still has a process, which is to be cancelled.
SweepReadLease(s) ==
    LET c == callee[sweeper[s].wait] IN
    /\ sweeper[s].pc = "lease"
    /\ \/ c.lease /\ ~c.late /\ SGoto(s, "extend")
       \/ /\ ~c.lease \/ c.late
          /\ sweeper' = [sweeper EXCEPT ![s].pc = "emit",
                                        ![s].kind = "failure",
                                        ![s].stop = c.lease]
    /\ UNCHANGED <<redisVars, exec, callee, task, lock, hist, faults>>

\* Mutant: the stored result is forwarded even if there is none.
SweepReadResultUnchecked(s) ==
    /\ sweeper[s].pc = "result"
    /\ sweeper' = [sweeper EXCEPT
                      ![s].pc = "emit",
                      ![s].kind = callee[sweeper[s].wait].stored]
    /\ UNCHANGED <<redisVars, exec, callee, task, lock, hist, faults>>

\* _recover_finished_child: the stored result, or else a failure.
SweepReadResult(s) ==
    /\ sweeper[s].pc = "result"
    /\ sweeper' = [sweeper EXCEPT
                      ![s].pc = "emit",
                      ![s].kind = IF callee[sweeper[s].wait].stored = "result"
                                  THEN "result" ELSE "failure"]
    /\ UNCHANGED <<redisVars, exec, callee, task, lock, hist, faults>>

\* _emit_reply: the stand-in goes on the caller's control stream.
SweepEmit(s) ==
    LET w == sweeper[s].wait IN
    /\ sweeper[s].pc = "emit"
    /\ Deliver(w, sweeper[s].kind)
    /\ hist' = [hist EXCEPT ![w].standIns = @ + 1]
    /\ SGoto(s, "extend")
    /\ UNCHANGED <<index, marker, exec, callee, task, lock, faults>>

\* Mutant: the entry is cleared once its triage has been acted on.
SweepExtendClears(s) ==
    /\ sweeper[s].pc = "extend"
    /\ index' = [index EXCEPT ![sweeper[s].wait] = "absent"]
    /\ IF sweeper[s].stop THEN SGoto(s, "cancel") ELSE NextEntry(s)
    /\ UNCHANGED <<marker, stream, exec, callee, task, lock, hist, faults>>

\* _extend_deadline: ZADD of the entry this pass was triaging, which also
\* creates it if it is gone by now.
SweepExtend(s) ==
    LET w == sweeper[s].wait
        again == IF index[w] = "absent" THEN 1 ELSE 0
    IN
    /\ sweeper[s].pc = "extend"
    /\ index' = [index EXCEPT ![w] = "live"]
    /\ hist' = [hist EXCEPT ![w].reinserted = @ + again]
    /\ IF sweeper[s].stop THEN SGoto(s, "cancel") ELSE NextEntry(s)
    /\ UNCHANGED <<marker, stream, exec, callee, task, lock, faults>>

\* _cancel_timed_out_child, if the deployment has it on, and best effort:
\* cancel_task marks the callee's record as CANCELLING unless it is terminal,
\* and sends the command to its worker.
SweepCancel(s) ==
    LET w == sweeper[s].wait IN
    /\ sweeper[s].pc = "cancel"
    /\ NextEntry(s)
    /\ \/ UNCHANGED callee
       \/ /\ "cancel_on_timeout" \in Environment
          /\ callee[w].cancel = "no"
          /\ callee[w].pos # "finished"
          /\ callee' = [callee EXCEPT
                           ![w].cancel = "sent",
                           ![w].pos = IF @ = "suspended" THEN "cancelling" ELSE @]
    /\ UNCHANGED <<redisVars, exec, task, lock, hist, faults>>

\* ZREM of an entry nobody is thought to wait for any more.
SweepDrop(s) ==
    LET w == sweeper[s].wait IN
    /\ sweeper[s].pc = "drop"
    /\ index' = [index EXCEPT ![w] = "absent"]
    /\ hist' = [hist EXCEPT ![w].unmarked = @ \/ index[w] # "absent"]
    /\ NextEntry(s)
    /\ UNCHANGED <<marker, stream, exec, callee, task, lock, faults>>

\* A Redis error ends the triage of one entry where it stands, or the pass if
\* the fetch raises it.
SweepError(s) ==
    /\ sweeper[s].pc \notin {"idle", "pick"}
    /\ Fault("redis_error")
    /\ NextEntry(s)
    /\ UNCHANGED <<redisVars, exec, callee, task, lock, hist>>

\* The worker hosting the sweeper dies, its lock left to run out.
SweepCrash(s) ==
    /\ sweeper[s].pc # "idle"
    /\ Fault("sweeper_crash")
    /\ sweeper' = [sweeper EXCEPT ![s] = IdleSweeper]
    /\ UNCHANGED <<redisVars, exec, callee, task, lock, hist>>

\* Time passes: a live deadline comes due.  MaxStandIns bounds how often.
DeadlinePasses(w) ==
    /\ index[w] = "live"
    /\ hist[w].standIns < MaxStandIns
    /\ hist[w].reinserted < MaxStandIns
    /\ index' = [index EXCEPT ![w] = "due"]
    /\ UNCHANGED <<marker, stream, exec, callee, task, sweeper, lock, hist,
                   faults>>

SweepNext(s) ==
    \/ SweepLock(s)
    \/ SweepFetch(s)
    \/ \E w \in Wait : SweepPick(s, w)
    \/ SweepRelease(s)
    \/ SweepReadCaller(s)
    \/ SweepReadOwner(s)
    \/ SweepReadChild(s)
    \/ SweepReadLease(s)
    \/ SweepReadResult(s)
    \/ SweepEmit(s)
    \/ SweepExtend(s)
    \/ SweepCancel(s)
    \/ SweepDrop(s)
=============================================================================
