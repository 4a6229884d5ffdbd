----------------------------- MODULE WaitState -----------------------------
(***************************************************************************)
(* The state shared by the parts of by-framework that suspend a calling    *)
(* execution and wake it again: the wait index and the consumed markers    *)
(* (core/wait_index.py, core/wait_gate.py), the caller's control stream,   *)
(* the execution records of callers and callees (core/registry.py), the    *)
(* runner tasks (worker/runner.py) and the sweepers (core/wait_sweeper.py).*)
(*                                                                         *)
(* A wait is one call_agent(wait_for_reply=True): the n-th call of a       *)
(* caller.  Its member of the wait index is the tuple of ids that the      *)
(* reply carries back, so a wait stands for its member.                    *)
(***************************************************************************)
EXTENDS Naturals, FiniteSets

CONSTANTS
    Caller,         \* calling executions
    MaxCalls,       \* bound: calls one execution makes
    Task,           \* runner tasks of the workers serving the caller's type
    Sweeper,        \* WaitIndexSweeper instances, one per worker
    NoCaller,       \* the caller of an idle task
    NoSweeper,      \* the holder of a free shard lock
    MaxNested,      \* bound: times a callee suspends on calls of its own
    MaxStandIns,    \* bound: stand-ins per wait before its deadline rests
    MaxFaults,      \* bound: crashes and Redis errors in a behaviour
    Environment     \* faults, handler behaviours and settings in force

EnvironmentKind == {"callee_crash", "claim_crash", "handler_crash",
                    "redis_error", "reply_lost", "lease_flap",
                    "lock_expiry", "sweeper_crash", "abandon",
                    "cancel_on_timeout"}

ASSUME CallsAssumption == MaxCalls \in Nat \ {0}
ASSUME BoundsAssumption ==
    MaxNested \in Nat /\ MaxStandIns \in Nat /\ MaxFaults \in Nat
ASSUME EnvironmentAssumption == Environment \subseteq EnvironmentKind
ASSUME NoValueAssumption == NoCaller \notin Caller /\ NoSweeper \notin Sweeper

VARIABLES
    index,      \* ZSET: a wait is absent, live (deadline ahead) or due
    marker,     \* waits with a "consumed" marker
    stream,     \* unread reply copies on the callers' control stream
    exec,       \* execution record of each caller
    callee,     \* execution record and process of the callee of each wait
    task,       \* what each runner task is doing
    sweeper,    \* what each sweeper is doing
    lock,       \* holder of the shard lock
    hist,       \* what happened to each wait (observed, read by no action)
    faults      \* crashes and Redis errors so far

redisVars == <<index, marker, stream>>
vars == <<index, marker, stream, exec, callee, task, sweeper, lock, hist,
          faults>>

Wait == Caller \X (1..MaxCalls)
NoWait == <<NoCaller, 0>>

\* What a reply copy tells the caller: the callee's own answer (sent by the
\* callee or rebuilt from its stored result) or a synthesized failure.
Kind == {"result", "failure"}

Score == {"absent", "live", "due"}

\* Statuses a caller's execution record goes through in this model.
Terminal == {"COMPLETED", "FAILED"}
ExecStatus == {"QUEUED", "RUNNING", "WAITING_AGENT"} \cup Terminal

ExecRecord == [status: ExecStatus,
               calls: 0..MaxCalls,  \* calls made so far
               up: BOOLEAN]         \* lease of the worker the record names

\* Where the callee of a wait is: not dispatched; recorded by
\* initialize_execution; on its control stream; running; itself suspended;
\* suspended and recorded as CANCELLING since; result stored; reporting an
\* error or its cancellation; reply sent; marked finished.
CalleePos == {"none", "recorded", "queued", "running", "suspended",
              "cancelling", "stored", "failing", "replied", "finished"}

\* A record that is neither terminal nor suspended and names a worker.
Working == {"running", "cancelling", "stored", "failing", "replied"}

CalleeRecord == [pos: CalleePos,
                 alive: BOOLEAN,    \* its worker process still executes it
                 lease: BOOLEAN,    \* its worker's heartbeat lease
                 stored: Kind \cup {"none"}, \* copy kept in task_group_results
                 cancel: {"no", "sent", "landed"}, \* the sweep's cancel command
                 late: BOOLEAN,     \* the renewal ceiling has passed
                 calls: 0..MaxNested] \* times it suspended on its own calls

TaskPc == {"idle", "zrem", "mark", "check", "resume",
           "handler", "sending", "unwind"}
TaskRecord == [pc: TaskPc,
               caller: Caller \cup {NoCaller},
               call: 0..MaxCalls,   \* 0: the first activation
               kind: Kind \cup {"none"}]
IdleTask == [pc |-> "idle", caller |-> NoCaller, call |-> 0, kind |-> "none"]
WaitOf(t) == <<task[t].caller, task[t].call>>

SweeperPc == {"idle", "fetch", "pick", "caller", "owner", "child", "lease",
              "result", "emit", "extend", "cancel", "drop"}
SweeperRecord == [pc: SweeperPc,
                  todo: SUBSET Wait,
                  wait: Wait \cup {NoWait},
                  kind: Kind \cup {"none"},
                  stop: BOOLEAN]    \* cancel the callee after answering for it
IdleSweeper == [pc |-> "idle", todo |-> {}, wait |-> NoWait, kind |-> "none",
                stop |-> FALSE]

\* Observed history of a wait.
History == [allowed: Nat,       \* copies the gate let through
            reinserted: Nat,    \* renewals that re-created a claimed entry
            slipped: Nat,       \* copies allowed for want of a marker
            failedOpen: Nat,    \* copies allowed by a gate error
            standIns: Nat,      \* replies the sweepers synthesized
            unmarked: BOOLEAN,  \* an entry went away without a marker
            lostClaim: BOOLEAN, \* a claimant died before waking the caller
            denied: BOOLEAN,    \* some copy was dropped
            answer: Kind \cup {"none"}]  \* what first woke the caller
NoHistory == [allowed |-> 0, reinserted |-> 0, slipped |-> 0,
              failedOpen |-> 0, standIns |-> 0, unmarked |-> FALSE,
              lostClaim |-> FALSE, denied |-> FALSE,
              answer |-> "none"]

\* A busy task runs for a caller; inside the gate, and from a call to the end
\* of its activation, it works on one wait.
TaskTypeOK ==
    /\ task \in [Task -> TaskRecord]
    /\ \A t \in Task :
          /\ task[t].pc = "idle" <=> task[t].caller = NoCaller
          /\ task[t].pc \in {"zrem", "mark", "check", "resume"} =>
                WaitOf(t) \in Wait /\ task[t].kind \in Kind
          /\ task[t].pc \in {"sending", "unwind"} => WaitOf(t) \in Wait

\* A sweeper inside a triage works on one wait.
SweeperTypeOK ==
    /\ sweeper \in [Sweeper -> SweeperRecord]
    /\ \A s \in Sweeper :
          /\ sweeper[s].wait = NoWait <=>
                sweeper[s].pc \in {"idle", "fetch", "pick"}
          /\ sweeper[s].pc = "emit" => sweeper[s].kind \in Kind

TypeOK ==
    /\ index \in [Wait -> Score]
    /\ marker \in SUBSET Wait
    /\ stream \in [Wait -> [Kind -> Nat]]
    /\ exec \in [Caller -> ExecRecord]
    /\ callee \in [Wait -> CalleeRecord]
    /\ TaskTypeOK
    /\ SweeperTypeOK
    /\ lock \in Sweeper \cup {NoSweeper}
    /\ hist \in [Wait -> History]
    /\ faults \in 0..MaxFaults

Init ==
    /\ index = [w \in Wait |-> "absent"]
    /\ marker = {}
    /\ stream = [w \in Wait |-> [k \in Kind |-> 0]]
    /\ exec = [c \in Caller |->
                  [status |-> "QUEUED", calls |-> 0, up |-> FALSE]]
    /\ callee = [w \in Wait |-> [pos |-> "none", alive |-> FALSE,
                                 lease |-> FALSE, stored |-> "none",
                                 cancel |-> "no", late |-> FALSE,
                                 calls |-> 0]]
    /\ task = [t \in Task |-> IdleTask]
    /\ sweeper = [s \in Sweeper |-> IdleSweeper]
    /\ lock = NoSweeper
    /\ hist = [w \in Wait |-> NoHistory]
    /\ faults = 0

\* One more crash or Redis error, of a kind this environment allows.
Fault(kind) ==
    /\ kind \in Environment
    /\ faults < MaxFaults
    /\ faults' = faults + 1

\* XADD of a reply copy to the control stream of the caller's agent type.
Deliver(w, k) == stream' = [stream EXCEPT ![w][k] = @ + 1]
=============================================================================
