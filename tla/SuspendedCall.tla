--------------------------- MODULE SuspendedCall ---------------------------
(***************************************************************************)
(* Suspending on a sub-agent call and being woken by its reply: callers    *)
(* (worker/context.py, worker/worker.py, worker/runner.py), callees, the   *)
(* gate and the sweepers, interleaved at every Redis round trip.           *)
(***************************************************************************)
EXTENDS WaitGate, WaitSweeper

-----------------------------------------------------------------------------
(* The caller: an execution whose activations run in runner tasks.         *)

\* The runner picks up the message that starts the execution.
StartCaller(t, c) ==
    /\ task[t].pc = "idle"
    /\ exec[c].status = "QUEUED"
    /\ exec' = [exec EXCEPT ![c].status = "RUNNING", ![c].up = TRUE]
    /\ task' = [task EXCEPT ![t] = [pc |-> "handler", caller |-> c,
                                    call |-> 0, kind |-> "none"]]
    /\ UNCHANGED <<redisVars, callee, sweeper, lock, hist, faults>>

\* An allowed reply reattaches the execution, whatever its status is, and
\* enters the handler again.
Resume(t) ==
    LET w == WaitOf(t) IN
    /\ task[t].pc = "resume"
    /\ exec' = [exec EXCEPT ![w[1]].status = "RUNNING", ![w[1]].up = TRUE]
    /\ hist' = [hist EXCEPT ![w].answer = IF @ = "none" THEN task[t].kind
                                          ELSE @]
    /\ Goto(t, "handler")
    /\ UNCHANGED <<redisVars, callee, sweeper, lock, faults>>

\* call_agent up to the dispatch: the execution record of the callee is
\* initialized and the wait registered, before anything is sent.  A failed
\* registration is logged and forgotten.
HandlerCalls(t) ==
    LET c == task[t].caller
        w == <<c, exec[c].calls + 1>>
    IN
    /\ task[t].pc = "handler"
    /\ exec[c].calls < MaxCalls
    /\ exec' = [exec EXCEPT ![c].calls = @ + 1]
    /\ callee' = [callee EXCEPT ![w].pos = "recorded"]
    /\ task' = [task EXCEPT ![t].pc = "sending", ![t].call = w[2]]
    /\ \/ /\ index' = [index EXCEPT ![w] = "live"]
          /\ UNCHANGED <<hist, faults>>
       \/ /\ Fault("redis_error")
          /\ hist' = [hist EXCEPT ![w].unmarked = TRUE]
          /\ UNCHANGED index
    /\ UNCHANGED <<marker, stream, sweeper, lock>>

\* The dispatch XADD, or its failure, which fails the execution and leaves
\* the entry behind.
HandlerSends(t) ==
    LET w == WaitOf(t) IN
    /\ task[t].pc = "sending"
    /\ \/ /\ callee' = [callee EXCEPT ![w].pos = "queued"]
          /\ Goto(t, "unwind")
          /\ UNCHANGED <<exec, faults>>
       \/ /\ Fault("redis_error")
          /\ exec' = [exec EXCEPT ![w[1]].status = "FAILED"]
          /\ task' = [task EXCEPT ![t] = IdleTask]
          /\ UNCHANGED callee
    /\ UNCHANGED <<redisVars, sweeper, lock, hist>>

\* The handler returns after the dispatch and the runner records the
\* suspension (mark_execution_finished with WAITING_AGENT).
HandlerSuspends(t) ==
    /\ task[t].pc = "unwind"
    /\ exec' = [exec EXCEPT ![task[t].caller].status = "WAITING_AGENT"]
    /\ task' = [task EXCEPT ![t] = IdleTask]
    /\ UNCHANGED <<redisVars, callee, sweeper, lock, hist, faults>>

\* The handler returns a terminal status: with nothing dispatched in this
\* activation or, in an environment with such handlers, after a dispatch.
HandlerFinishes(t) ==
    /\ \/ task[t].pc = "handler"
       \/ task[t].pc = "unwind" /\ "abandon" \in Environment
    /\ exec' = [exec EXCEPT ![task[t].caller].status = "COMPLETED"]
    /\ task' = [task EXCEPT ![t] = IdleTask]
    /\ UNCHANGED <<redisVars, callee, sweeper, lock, hist, faults>>

\* The worker hosting the task dies.  The message stays in the pending list
\* of the consumer group, which nothing reclaims.
TaskCrash(t) ==
    LET w == WaitOf(t)
        running == task[t].pc \in {"handler", "sending", "unwind"}
    IN
    /\ task[t].pc # "idle"
    /\ Fault(IF running THEN "handler_crash" ELSE "claim_crash")
    /\ exec' = IF running THEN [exec EXCEPT ![w[1]].up = FALSE] ELSE exec
    /\ hist' = IF task[t].pc \in {"mark", "resume"}
               THEN [hist EXCEPT ![w].lostClaim = TRUE,
                                 ![w].unmarked = @ \/ task[t].pc = "mark"]
               ELSE hist
    /\ task' = [task EXCEPT ![t] = IdleTask]
    /\ UNCHANGED <<redisVars, callee, sweeper, lock>>

CallerNext(t) ==
    \/ \E c \in Caller : StartCaller(t, c)
    \/ Resume(t)
    \/ HandlerCalls(t)
    \/ HandlerSends(t)
    \/ HandlerSuspends(t)
    \/ HandlerFinishes(t)
-----------------------------------------------------------------------------
(* The callee of a wait.                                                   *)

CalleeUnchanged == UNCHANGED <<index, marker, exec, task, sweeper, lock, hist>>

\* A worker picks the dispatch up, or resumes a callee that was itself
\* suspended: the record names that worker, whose lease is live.  If the record
\* asks for cancellation, _handle_message reports it before the handler runs.
CalleeRuns(w) ==
    /\ callee[w].pos \in {"queued", "suspended", "cancelling"}
    /\ \/ /\ callee[w].cancel = "no"
          /\ callee' = [callee EXCEPT ![w].pos = "running", ![w].alive = TRUE,
                                      ![w].lease = TRUE]
       \/ /\ callee[w].cancel # "no"
          /\ callee' = [callee EXCEPT ![w].pos = "failing", ![w].alive = TRUE,
                                      ![w].lease = TRUE, ![w].stored = "failure"]
    /\ UNCHANGED <<stream, faults>> /\ CalleeUnchanged

\* The callee suspends on a call of its own: no process executes it.
CalleeSuspends(w) ==
    /\ callee[w].alive
    /\ callee[w].pos = "running"
    /\ callee[w].calls < MaxNested
    /\ callee' = [callee EXCEPT ![w].pos = "suspended", ![w].alive = FALSE,
                                ![w].calls = @ + 1]
    /\ UNCHANGED <<stream, faults>> /\ CalleeUnchanged

\* _persist_single_call_result: before the reply, and fail-soft.
CalleeStores(w) ==
    /\ callee[w].alive
    /\ callee[w].pos = "running"
    /\ \/ /\ callee' = [callee EXCEPT ![w].pos = "stored",
                                      ![w].stored = "result"]
          /\ UNCHANGED faults
       \/ /\ Fault("reply_lost")
          /\ callee' = [callee EXCEPT ![w].pos = "stored"]
    /\ UNCHANGED stream /\ CalleeUnchanged

\* The XADD of the reply.  If it raises, _handle_message treats the task as
\* failed: it stores a failure over the result and sends that instead; if
\* that raises too, the callee is marked finished without a reply.
CalleeReplies(w) ==
    /\ callee[w].alive
    /\ \/ /\ callee[w].pos \in {"stored", "failing"}
          /\ callee' = [callee EXCEPT ![w].pos = "replied"]
          /\ \/ /\ Deliver(w, IF callee[w].pos = "stored" THEN "result"
                              ELSE "failure")
                /\ UNCHANGED faults
             \/ /\ callee[w].pos = "failing"
                /\ Fault("reply_lost")
                /\ UNCHANGED stream
       \/ /\ callee[w].pos = "stored"
          /\ Fault("reply_lost")
          /\ callee' = [callee EXCEPT ![w].pos = "failing",
                                      ![w].stored = "failure"]
          /\ UNCHANGED stream
    /\ CalleeUnchanged

\* mark_execution_finished on the callee's record.
CalleeFinishes(w) ==
    /\ callee[w].alive
    /\ callee[w].pos = "replied"
    /\ callee' = [callee EXCEPT ![w].pos = "finished", ![w].alive = FALSE]
    /\ UNCHANGED <<stream, faults>> /\ CalleeUnchanged

\* handle_cancel_task cancels the asyncio task of the callee: _handle_message
\* stores and sends a CANCELLED reply, also over a result already stored or
\* sent; outside its try block the cancellation ends the task in silence.
CalleeCancelled(w) ==
    /\ callee[w].alive
    /\ callee[w].cancel = "sent"
    /\ \/ /\ callee[w].pos \in {"running", "stored", "replied"}
          /\ callee' = [callee EXCEPT ![w].pos = "failing",
                                      ![w].stored = "failure",
                                      ![w].cancel = "landed"]
       \/ /\ callee[w].pos \in {"failing", "replied"}
          /\ callee' = [callee EXCEPT ![w].alive = FALSE,
                                      ![w].cancel = "landed"]
    /\ UNCHANGED <<stream, faults>> /\ CalleeUnchanged

CalleeCrash(w) ==
    /\ callee[w].alive
    /\ Fault("callee_crash")
    /\ callee' = [callee EXCEPT ![w].alive = FALSE]
    /\ UNCHANGED stream /\ CalleeUnchanged

\* The lease of a dead worker expires; that of a live one may too, between
\* two heartbeats that come late, and the later one brings it back.
LeaseLapses(w) ==
    /\ callee[w].pos \in Working
    /\ callee[w].lease
    /\ ~callee[w].alive \/ "lease_flap" \in Environment
    /\ callee' = [callee EXCEPT ![w].lease = FALSE]
    /\ UNCHANGED <<stream, faults>> /\ CalleeUnchanged

LeaseReturns(w) ==
    /\ callee[w].alive
    /\ ~callee[w].lease
    /\ callee' = [callee EXCEPT ![w].lease = TRUE]
    /\ UNCHANGED <<stream, faults>> /\ CalleeUnchanged

\* The renewal ceiling of _renewal_ceiling_ms passes.
CeilingPasses(w) ==
    /\ callee[w].pos \in Working
    /\ ~callee[w].late
    /\ callee' = [callee EXCEPT ![w].late = TRUE]
    /\ UNCHANGED <<stream, faults>> /\ CalleeUnchanged

CalleeNext(w) ==
    \/ CalleeRuns(w)
    \/ CalleeSuspends(w)
    \/ CalleeStores(w)
    \/ CalleeReplies(w)
    \/ CalleeFinishes(w)
    \/ CalleeCancelled(w)
    \/ CalleeCrash(w)
    \/ LeaseLapses(w)
    \/ LeaseReturns(w)
    \/ CeilingPasses(w)
-----------------------------------------------------------------------------
Next ==
    \/ \E t \in Task : GateNext(t) \/ CallerNext(t) \/ TaskCrash(t)
    \/ \E s \in Sweeper : SweepNext(s) \/ SweepError(s) \/ SweepCrash(s)
    \/ SweepLockExpires
    \/ \E w \in Wait : CalleeNext(w) \/ DeadlinePasses(w)

Spec == Init /\ [][Next]_vars

\* Live workers keep consuming, sweepers keep sweeping, time passes, and a
\* suspended callee is woken in its turn.  Nothing is assumed of the callee's
\* own work: it may hang or never be picked up.
Fairness ==
    /\ \A t \in Task : WF_vars(GateNext(t) \/ CallerNext(t))
    /\ \A s \in Sweeper : WF_vars(SweepNext(s))
    /\ WF_vars(SweepLockExpires)
    /\ \A w \in Wait : /\ WF_vars(DeadlinePasses(w))
                       /\ WF_vars(/\ callee[w].pos \in {"suspended", "cancelling"}
                                  /\ CalleeRuns(w))
                       /\ WF_vars(LeaseLapses(w))
                       /\ WF_vars(CeilingPasses(w))

LiveSpec == Spec /\ Fairness
-----------------------------------------------------------------------------
(* Properties.                                                             *)

Present(w) == IF index[w] = "absent" THEN 0 ELSE 1

\* Every wake-up beyond the first is explained: the gate lets one copy of a
\* reply through, plus one for each renewal that re-created the entry after
\* it was gone, one for each copy that passed while the winner had no marker
\* out, and one for each gate error (wait_gate.consume_wait_entry,
\* wait_sweeper._extend_deadline).
WakeAccounting ==
    \A w \in Wait :
        hist[w].allowed + Present(w) <=
            1 + hist[w].reinserted + hist[w].slipped + hist[w].failedOpen

\* A task holds the claim on w and will enter the caller's handler.
Claimed(w) == \E t \in Task : /\ task[t].pc \in {"mark", "resume"}
                              /\ WaitOf(t) = w

\* A copy is dropped as a duplicate only if another copy of the same reply
\* woke the caller, or holds the claim and is about to (runner.py, the
\* early return on a denied reply), or died holding it.
DropIsSuperseded ==
    \A w \in Wait :
        hist[w].denied =>
            hist[w].answer # "none" \/ Claimed(w) \/ hist[w].lostClaim

\* The shard lock changes hands only by running out or by its holder's own
\* release: a sweeper whose lock expired under it never takes away the lock of
\* the sweeper that came after (wait_sweeper._sweep_shard, the finally block).
OnlyHolderReleases ==
    [][\A s \in Sweeper :
          lock = s /\ lock' # s =>
              UNCHANGED sweeper \/ sweeper'[s].pc = "idle"]_vars

\* As long as no wait of its caller was answered twice, a dispatched wait
\* that nothing has answered keeps its entry, so that the sweep can still find
\* it, or a task holds the claim or died with it (wait_sweeper._resolve_entry
\* removes entries, wait_gate.consume_wait_entry claims them).
EntryUntilAnswered ==
    \A w \in Wait :
        /\ callee[w].pos \notin {"none", "recorded"}
        /\ hist[w].answer = "none"
        /\ \A n \in 1..MaxCalls : hist[<<w[1], n>>].allowed <= 1
        => index[w] # "absent" \/ Claimed(w) \/ hist[w].lostClaim

\* Whatever becomes of the callee, a dispatched wait is answered
\* (wait_sweeper.py, the missing timer).
EveryWaitAnswered ==
    \A w \in Wait : callee[w].pos = "queued" ~> hist[w].answer # "none"

\* wait_gate.py: "Exactly one claimant can win, because ZREM is atomic".  The
\* copies let through other than by a missing marker or a gate error.
OneClaimant ==
    \A w \in Wait :
        hist[w].allowed <= 1 + hist[w].slipped + hist[w].failedOpen

\* wait_sweeper.py: a caller cannot be "left with its entry cleared and no
\* reply on the way".
EntryOrReplyOnTheWay ==
    \A w \in Wait :
        callee[w].pos = "finished" /\ hist[w].answer = "none" =>
            \/ index[w] # "absent"
            \/ \E k \in Kind : stream[w][k] > 0
            \/ \E t \in Task : task[t].pc # "idle" /\ WaitOf(t) = w

\* wait_sweeper.py, SUSPENDED_STATES: WAITING_AGENT means "this execution is
\* parked on a reply".
WaitingMeansParked ==
    \A c \in Caller :
        exec[c].status = "WAITING_AGENT" =>
            \/ \E n \in 1..exec[c].calls : hist[<<c, n>>].answer = "none"
            \/ \E t \in Task : task[t].caller = c

\* wait_sweeper.py, _recover_finished_child: the callee stores its result
\* before it sends the reply, "so this case loses a message rather than an
\* answer".  A failure is never synthesized for a dead callee whose answer is
\* stored.
StoredAnswerSurvives ==
    [][\A s \in Sweeper :
          sweeper[s].pc = "lease" /\ sweeper'[s].pc = "emit" =>
              LET c == callee[sweeper[s].wait] IN
              c.stored = "result" => c.alive]_vars
=============================================================================
