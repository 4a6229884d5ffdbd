---------------------------- MODULE WorkerLease ----------------------------
(***************************************************************************)
(* The lease behind one worker id, in real time: processes that start with *)
(* the same id claim it (WorkerRegistry.claim_worker_id, retried by        *)
(* WorkerRunner._claim_worker_id_with_retry), renew it from a thread of    *)
(* their own (WorkerHeartbeat._async_heartbeat_loop), and give it back in  *)
(* WorkerRunner._shutdown.  The id is held by the token stored in the      *)
(* lease; here a process stands for its token.                             *)
(*                                                                         *)
(* Time moves in ticks.  LeaseTick is held back while a heartbeat thread   *)
(* is due to act or a call has used up its latency: the model's threads    *)
(* are never late by themselves, and every delay is in CallLatency.        *)
(***************************************************************************)
EXTENDS Naturals

CONSTANTS
    Proc,           \* processes started with this worker id
    NoProc,         \* the holder of a free lease
    BeatInterval,   \* WORKER_DEFAULT_HEARTBEAT_INTERVAL_SECONDS
    LeaseTtl,       \* WORKER_DEFAULT_LEASE_TTL_SECONDS
    CallLatency,    \* bound: ticks a heartbeat call may take
    ClaimMaxWait,   \* worker_id_claim_max_wait_seconds
    MaxBeatFaults,  \* bound: failed heartbeats, crashes and thread overruns
    MaxStarts       \* bound: starts of each process

ASSUME NoProcAssumption == NoProc \notin Proc
ASSUME LeaseTimingAssumption ==
    /\ BeatInterval \in Nat \ {0} /\ LeaseTtl \in Nat /\ CallLatency \in Nat
    /\ BeatInterval < LeaseTtl
    /\ ClaimMaxWait \in Nat /\ MaxBeatFaults \in Nat /\ MaxStarts \in Nat

VARIABLES
    lease,      \* the process whose token the lease key holds
    ttl,        \* ticks until the key expires
    runner,     \* by process: where WorkerRunner.start is
    beat,       \* by process: its heartbeat thread
    leaseFaults \* faults so far

leaseVars == <<lease, ttl, runner, beat, leaseFaults>>

\* claim: retrying; start: claimed, before the first heartbeat; serve: in the
\* poll loop; then the steps of _shutdown.
RunnerPc == {"down", "claim", "start", "serve", "drain", "stop", "release"}
RunnerRecord == [pc: RunnerPc,
                 waited: 0..ClaimMaxWait,   \* time in the claim loop
                 busy: BOOLEAN,             \* tasks in flight
                 starts: 0..MaxStarts]

\* call: sent, not executed; reply: executed, answer on its way; lost: it
\* will raise.  since: loop.time() - last_success.  adrift: ticks the process
\* has been without the lease, an observation.
BeatPc == {"off", "sleep", "call", "reply", "lost"}
BeatRecord == [pc: BeatPc,
               timer: 0..(BeatInterval + CallLatency),
               since: Nat,
               ok: BOOLEAN,             \* what the executed call returned
               stolen: BOOLEAN,         \* _lock_stolen_event
               adrift: Nat]
NoBeat == [pc |-> "off", timer |-> 0, since |-> 0, ok |-> TRUE,
           stolen |-> FALSE, adrift |-> 0]

\* Bound on since and adrift: past it nothing distinguishes their values.
ClockCap == LeaseTtl + BeatInterval + 2 * CallLatency + 1
CapClock(n) == IF n < ClockCap THEN n ELSE ClockCap

LeaseTypeOK ==
    /\ lease \in Proc \cup {NoProc}
    /\ ttl \in 0..LeaseTtl
    /\ lease = NoProc <=> ttl = 0
    /\ runner \in [Proc -> RunnerRecord]
    /\ beat \in [Proc -> BeatRecord]
    /\ leaseFaults \in 0..MaxBeatFaults

LeaseInit ==
    /\ lease = NoProc
    /\ ttl = 0
    /\ runner = [p \in Proc |-> [pc |-> "down", waited |-> 0, busy |-> FALSE,
                                 starts |-> 0]]
    /\ beat = [p \in Proc |-> NoBeat]
    /\ leaseFaults = 0

\* A deadline at the very end of the lease.
FailureDeadlineLate == LeaseTtl

\* max(interval, lease_ttl - interval)
FailureDeadline == IF LeaseTtl - BeatInterval > BeatInterval
                   THEN LeaseTtl - BeatInterval ELSE BeatInterval

\* A plain SET of the lease.
CasAcceptsAny(p) == TRUE

\* _HEARTBEAT_CAS_SCRIPT with a token: the lease is absent, or this token's.
CasAccepts(p) == lease \in {NoProc, p}

LeaseFault ==
    /\ leaseFaults < MaxBeatFaults
    /\ leaseFaults' = leaseFaults + 1

RunnerGoto(p, pc) == runner' = [runner EXCEPT ![p].pc = pc]
-----------------------------------------------------------------------------
(* Claiming the id and starting.                                           *)

ProcessStarts(p) ==
    /\ runner[p].pc = "down"
    /\ beat[p].pc = "off"
    /\ runner[p].starts < MaxStarts
    /\ runner' = [runner EXCEPT ![p] = [pc |-> "claim", waited |-> 0,
                                        busy |-> FALSE, starts |-> @.starts + 1]]
    /\ beat' = [beat EXCEPT ![p] = NoBeat]
    /\ UNCHANGED <<lease, ttl, leaseFaults>>

\* SET NX, the expiry left to the first heartbeat.
ClaimWithoutExpiry(p) ==
    /\ runner[p].pc = "claim"
    /\ lease = NoProc
    /\ lease' = p
    /\ RunnerGoto(p, "start")
    /\ UNCHANGED <<ttl, beat, leaseFaults>>

\* SET NX EX with a fresh token and last_seen = 0.
ClaimWorkerId(p) ==
    /\ runner[p].pc = "claim"
    /\ lease = NoProc
    /\ lease' = p
    /\ ttl' = LeaseTtl
    /\ RunnerGoto(p, "start")
    /\ UNCHANGED <<beat, leaseFaults>>

\* The id is held and the deadline has passed: ValueError leaves start(),
\* whose finally block shuts down with no token to release.
ClaimGivesUp(p) ==
    /\ runner[p].pc = "claim"
    /\ lease # NoProc
    /\ runner[p].waited = ClaimMaxWait
    /\ RunnerGoto(p, "down")
    /\ UNCHANGED <<lease, ttl, beat, leaseFaults>>

\* WorkerHeartbeat.start: one heartbeat, then the thread; a rejected one
\* raises and start() shuts down.
StartHeartbeat(p) ==
    /\ runner[p].pc = "start"
    /\ IF CasAccepts(p)
       THEN /\ lease' = p /\ ttl' = LeaseTtl
            /\ RunnerGoto(p, "serve")
            /\ beat' = [beat EXCEPT ![p] = [NoBeat EXCEPT
                                              !.pc = "sleep", !.timer = BeatInterval]]
       ELSE /\ RunnerGoto(p, "drain")
            /\ UNCHANGED <<lease, ttl, beat>>
    /\ UNCHANGED leaseFaults

\* The consumer starts a task, or the last task in flight ends.
TaskStarts(p) ==
    /\ runner[p].pc = "serve" /\ ~runner[p].busy
    /\ runner' = [runner EXCEPT ![p].busy = TRUE]
    /\ UNCHANGED <<lease, ttl, beat, leaseFaults>>

TasksEnd(p) ==
    /\ runner[p].busy
    /\ runner' = [runner EXCEPT ![p].busy = FALSE]
    /\ UNCHANGED <<lease, ttl, beat, leaseFaults>>
-----------------------------------------------------------------------------
(* The heartbeat thread.                                                   *)

\* _is_consumer_healthy: the consumer task exists until _shutdown cancels it.
ConsumerHealthy(p) == runner[p].pc = "serve"

\* The thread ends and sets _lock_stolen_event.
SignalStolen(p) == beat' = [beat EXCEPT ![p].pc = "off", ![p].stolen = TRUE]

\* The interval is over: an unhealthy reader ends the thread, otherwise the
\* call goes out and takes up to CallLatency.
BeatWakes(p) ==
    /\ beat[p].pc = "sleep" /\ beat[p].timer = 0
    /\ IF ConsumerHealthy(p)
       THEN beat' = [beat EXCEPT ![p].pc = "call", ![p].timer = CallLatency]
       ELSE SignalStolen(p)
    /\ UNCHANGED <<lease, ttl, runner, leaseFaults>>

\* The server runs the script.
BeatExecutes(p) ==
    /\ beat[p].pc = "call"
    /\ beat' = [beat EXCEPT ![p].pc = "reply", ![p].ok = CasAccepts(p)]
    /\ IF CasAccepts(p)
       THEN lease' = p /\ ttl' = LeaseTtl
       ELSE UNCHANGED <<lease, ttl>>
    /\ UNCHANGED <<runner, leaseFaults>>

\* The answer arrives: rejected means stolen.
BeatReturns(p) ==
    /\ beat[p].pc = "reply"
    /\ IF beat[p].ok
       THEN beat' = [beat EXCEPT ![p].pc = "sleep", ![p].timer = BeatInterval,
                                 ![p].since = 0]
       ELSE SignalStolen(p)
    /\ UNCHANGED <<lease, ttl, runner, leaseFaults>>

\* The call is lost before or after the server ran it...
BeatLost(p) ==
    /\ beat[p].pc \in {"call", "reply"}
    /\ LeaseFault
    /\ beat' = [beat EXCEPT ![p].pc = "lost"]
    /\ UNCHANGED <<lease, ttl, runner>>

\* ... and raises: past the failure deadline the thread gives up.
BeatRaises(p) ==
    /\ beat[p].pc = "lost"
    /\ IF beat[p].since >= FailureDeadline
       THEN SignalStolen(p)
       ELSE beat' = [beat EXCEPT ![p].pc = "sleep", ![p].timer = BeatInterval]
    /\ UNCHANGED <<lease, ttl, runner, leaseFaults>>
-----------------------------------------------------------------------------
(* Shutting down.                                                          *)

\* The poll loop ends: the heartbeat task raised, an eviction or a signal.
\* _shutdown cancels the consumer first.
ShutdownBegins(p) ==
    /\ runner[p].pc = "serve"
    /\ RunnerGoto(p, "drain")
    /\ UNCHANGED <<lease, ttl, beat, leaseFaults>>

\* gather() over the tasks in flight has returned.
Drained(p) ==
    /\ runner[p].pc = "drain" /\ ~runner[p].busy
    /\ RunnerGoto(p, "stop")
    /\ UNCHANGED <<lease, ttl, beat, leaseFaults>>

\* WorkerHeartbeat.stop joins the thread; a call that outlasts the join
\* timeout is left behind and may still reach the server.
StopHeartbeat(p) ==
    /\ runner[p].pc = "stop"
    /\ \/ /\ beat[p].pc \in {"off", "sleep"}
          /\ beat' = [beat EXCEPT ![p].pc = "off"]
          /\ UNCHANGED leaseFaults
       \/ beat[p].pc = "call" /\ LeaseFault /\ UNCHANGED beat
    /\ RunnerGoto(p, "release")
    /\ UNCHANGED <<lease, ttl>>

\* A call left behind by StopHeartbeat ends after the process is gone.
LateBeatEnds(p) ==
    /\ runner[p].pc = "down"
    /\ beat[p].pc \in {"sleep", "reply", "lost"}
    /\ beat' = [beat EXCEPT ![p].pc = "off"]
    /\ UNCHANGED <<lease, ttl, runner, leaseFaults>>

\* release_worker_id deletes the lease only if it holds this token.
ReleaseWorkerId(p) ==
    /\ runner[p].pc = "release"
    /\ IF lease = p THEN lease' = NoProc /\ ttl' = 0 ELSE UNCHANGED <<lease, ttl>>
    /\ RunnerGoto(p, "down")
    /\ UNCHANGED <<beat, leaseFaults>>

\* The process dies with its threads; the lease stays until it expires.
ProcessDies(p) ==
    /\ runner[p].pc # "down"
    /\ LeaseFault
    /\ runner' = [runner EXCEPT ![p].pc = "down", ![p].busy = FALSE]
    /\ beat' = [beat EXCEPT ![p] = NoBeat]
    /\ UNCHANGED <<lease, ttl>>
-----------------------------------------------------------------------------
\* A thread whose sleep is over, or whose call has used up its latency, acts
\* before time goes on; so does a claimant, whose retry sleep is cut to what
\* remains of its deadline.
Overdue(p) ==
    \/ beat[p].pc # "off" /\ beat[p].timer = 0
    \/ runner[p].pc = "claim" /\ runner[p].waited = ClaimMaxWait

LeaseTick ==
    /\ \A p \in Proc : ~Overdue(p)
    /\ ttl' = IF ttl > 0 THEN ttl - 1 ELSE 0
    /\ lease' = IF ttl' = 0 THEN NoProc ELSE lease
    /\ runner' = [p \in Proc |->
            IF runner[p].pc = "claim"
            THEN [runner[p] EXCEPT !.waited = @ + 1] ELSE runner[p]]
    /\ beat' = [p \in Proc |->
            IF beat[p].pc = "off" THEN beat[p]
            ELSE [beat[p] EXCEPT !.timer = @ - 1, !.since = CapClock(@ + 1),
                                 !.adrift = IF lease' = p THEN 0
                                            ELSE CapClock(@ + 1)]]
    /\ UNCHANGED leaseFaults

LeaseStep(p) ==
    \/ ProcessStarts(p) \/ ClaimWorkerId(p) \/ ClaimGivesUp(p)
    \/ StartHeartbeat(p) \/ TaskStarts(p) \/ TasksEnd(p)
    \/ BeatWakes(p) \/ BeatExecutes(p) \/ BeatReturns(p) \/ BeatLost(p)
    \/ BeatRaises(p) \/ ShutdownBegins(p) \/ Drained(p) \/ StopHeartbeat(p)
    \/ LateBeatEnds(p) \/ ReleaseWorkerId(p) \/ ProcessDies(p)

LeaseNext == LeaseTick \/ \E p \in Proc : LeaseStep(p)
LeaseSpec == LeaseInit /\ [][LeaseNext]_leaseVars
-----------------------------------------------------------------------------
(* Properties.                                                             *)

\* The lease keys and the runners are a lock that can run out: no process
\* serves without having taken it, and none takes it from another
\* (registry.py, the compare-and-set of claim, heartbeat and release).
Lock == INSTANCE LeaseLock WITH
            holder <- lease, serving <- {p \in Proc : runner[p].pc = "serve"}
LeaseIsLock == Lock!LockSpec

\* A process that serves without having been told to stop holds the lease, up
\* to the time the answer of its last good call and the error of its last bad
\* one took: the failure deadline leaves one interval before the lease runs
\* out, so that no rival serves under the same id (heartbeat.py, "to avoid
\* running without a valid lease").
ServesUnderLease ==
    \A p \in Proc :
        runner[p].pc = "serve" /\ ~beat[p].stolen =>
            lease = p \/ (beat[p].adrift \in 1..(2 * CallLatency))

\* heartbeat.py, the failure deadline: a worker stops "to avoid running
\* without a valid lease".  Tasks in flight run under their worker's lease.
TasksRunUnderLease == \A p \in Proc : runner[p].busy => lease = p
=============================================================================
