-------------------------- MODULE ExecutionLedger --------------------------
(***************************************************************************)
(* The execution records of one session and everybody who rewrites them:   *)
(* the worker's tasks (WorkerRunner._process_message_from_dict), its       *)
(* control loop (handle_cancel_task) and a client that cancels a task tree *)
(* or the session (GatewayClient.cancel_task, cancel_session).             *)
(*                                                                         *)
(* Every update of WorkerRegistry reads the whole record, changes it,      *)
(* writes it back and then updates the worker's counters from the two      *)
(* versions it holds: three round trips, without a lock.                   *)
(***************************************************************************)
EXTENDS Integers, FiniteSets

CONSTANTS
    Exec,           \* executions of the session, all served by one worker
    NoExec,         \* the parent of a root, and the execution of an idle update
    Parent,         \* by execution: the one that dispatches it
    Snapshotted,    \* executions with a persisted agent-config snapshot
    Client,         \* the canceller, as an actor of updates
    Control         \* the worker's control loop, likewise

Actor == Exec \cup {Client, Control}    \* an execution's task updates it too

ASSUME ParentAssumption ==
    /\ NoExec \notin Exec
    /\ Parent \in [Exec -> Exec \cup {NoExec}]
    /\ Snapshotted \subseteq Exec
ASSUME ActorAssumption == Client \notin Exec /\ Control \notin Exec \cup {Client}

VARIABLES
    record,     \* session_registry, the field of each execution
    inbox,      \* executions whose message is on the agent type's stream
    task,       \* by execution: the runner's task
    tracker,    \* executions in the runner's tracker
    update,     \* by actor: the registry update under way
    stats,      \* the worker's counters and active index
    canceller,  \* the client's cancellation
    orders,     \* cancel commands on the worker's control stream
    control,    \* the command its control loop is at
    trail       \* what happened (observed, read by no action)

ledgerVars == <<record, inbox, task, tracker, update, stats, canceller, orders,
                control, trail>>

Final == {"COMPLETED", "FAILED", "CANCELLED"}
RecordStatus == {"NONE", "QUEUED", "RUNNING", "CANCELLING"} \cup Final
\* worker: worker_id is set; cancel: cancel_requested.
Record == [status: RecordStatus, worker: BOOLEAN, cancel: BOOLEAN]
NoRecord == [status |-> "NONE", worker |-> FALSE, cancel |-> FALSE]
Active(r) == r.worker /\ r.status \notin Final

\* cancelled: task.cancel() was called and is not yet delivered.
TaskRecord == [pc: {"none", "load", "start", "run", "unwind", "finish", "ended"},
               outcome: Final, cancelled: BOOLEAN,
               event: BOOLEAN]          \* cancel_event
NoTask == [pc |-> "none", outcome |-> "COMPLETED", cancelled |-> FALSE,
           event |-> FALSE]

\* kind: RUNNING, a final status, CANCELLING, or REQUESTED for the bare flag.
UpdateKind == {"RUNNING", "CANCELLING", "REQUESTED"} \cup Final
UpdateRecord == [pc: {"idle", "read", "write", "stats", "clean"},
                 exec: Exec \cup {NoExec}, kind: UpdateKind,
                 old: Record, new: Record]
NoUpdate == [pc |-> "idle", exec |-> NoExec, kind |-> "RUNNING",
             old |-> NoRecord, new |-> NoRecord]

\* mode: cancel_task walks the tree parents first, cancel_session in the
\* order of the hash.  flags: finished nodes to flag; marks: the others.
CancelRecord == [pc: {"idle", "flags", "order"},
                 mode: {"task", "session"},
                 flags: SUBSET Exec, marks: SUBSET Exec,
                 known: SUBSET Exec,    \* nodes whose worker it has read
                 node: Exec \cup {NoExec}]

\* overlapped: two updates of one record overlapped, or one was interrupted.
\* woken: executions that got a CANCELLED reply of a child.  reached: nodes
\* whose flag the cancellation has written.
Trail == [overlapped: BOOLEAN, woken: SUBSET Exec, reached: SUBSET Exec]

LedgerTypeOK ==
    /\ record \in [Exec -> Record]
    /\ inbox \subseteq Exec
    /\ task \in [Exec -> TaskRecord]
    /\ tracker \subseteq Exec
    /\ update \in [Actor -> UpdateRecord]
    /\ stats \in [active: Int, index: SUBSET Exec]
    /\ canceller \in CancelRecord
    /\ orders \subseteq Exec
    /\ control \in [exec: Exec \cup {NoExec}, running: BOOLEAN]
    /\ trail \in Trail

\* A client has sent a message to each root.
LedgerInit ==
    /\ record = [e \in Exec |-> IF Parent[e] = NoExec
                                THEN [NoRecord EXCEPT !.status = "QUEUED"]
                                ELSE NoRecord]
    /\ inbox = {e \in Exec : Parent[e] = NoExec}
    /\ task = [e \in Exec |-> NoTask]
    /\ tracker = {}
    /\ update = [a \in Actor |-> NoUpdate]
    /\ stats = [active |-> 0, index |-> {}]
    /\ canceller = [pc |-> "idle", mode |-> "task", flags |-> {}, marks |-> {},
                    known |-> {}, node |-> NoExec]
    /\ orders = {}
    /\ control = [exec |-> NoExec, running |-> FALSE]
    /\ trail = [overlapped |-> FALSE, woken |-> {}, reached |-> {}]
-----------------------------------------------------------------------------
(* WorkerRegistry: one update, by any actor.                               *)

\* What an update of this kind makes of the record it has read.
Updated(kind, r) ==
    CASE kind = "RUNNING"    -> [r EXCEPT !.status = "RUNNING", !.worker = TRUE]
      [] kind = "REQUESTED"  -> [r EXCEPT !.cancel = TRUE]
      [] kind = "CANCELLING" -> [r EXCEPT !.status = "CANCELLING", !.cancel = TRUE]
      [] OTHER               -> [r EXCEPT !.status = kind]

\* The actor calls the registry; its next step waits for the update to end.
Begin(a, e, kind) ==
    update' = [update EXCEPT ![a] = [NoUpdate EXCEPT !.pc = "read", !.exec = e,
                                                     !.kind = kind]]
Ready(a) == update[a].pc = "idle"

\* get_execution; an absent record ends the update.
UpdateReads(a) ==
    LET u == update[a] IN
    /\ u.pc = "read"
    /\ update' = [update EXCEPT ![a] =
            IF record[u.exec].status = "NONE" THEN NoUpdate
            ELSE [u EXCEPT !.pc = "write", !.old = record[u.exec],
                           !.new = Updated(u.kind, record[u.exec])]]
    /\ trail' = [trail EXCEPT !.overlapped = @ \/ \E b \in Actor \ {a} :
                    update[b].exec = u.exec /\ update[b].pc \in {"write", "stats", "clean"}]
    /\ UNCHANGED <<record, inbox, task, tracker, stats, canceller, orders, control>>

\* HSET of the whole record.
UpdateWrites(a) ==
    LET u == update[a] IN
    /\ u.pc = "write"
    /\ record' = [record EXCEPT ![u.exec] = u.new]
    /\ update' = [update EXCEPT ![a].pc = "stats"]
    /\ trail' = IF a = Client
                THEN [trail EXCEPT !.reached = @ \cup {u.exec}] ELSE trail
    /\ UNCHANGED <<inbox, task, tracker, stats, canceller, orders, control>>

\* The counter follows the new version alone.
CountedEachWrite(u) ==
    IF ~u.new.worker THEN stats
    ELSE [active |-> stats.active + (IF Active(u.new) THEN 1 ELSE 0),
          index |-> IF Active(u.new) THEN stats.index \cup {u.exec}
                    ELSE stats.index \ {u.exec}]

\* _update_worker_execution_stats, from the two versions this update holds.
CountedStats(u) ==
    IF ~u.new.worker THEN stats
    ELSE [active |-> stats.active + (IF Active(u.new) THEN 1 ELSE 0)
                                  - (IF Active(u.old) THEN 1 ELSE 0),
          index |-> IF Active(u.new) THEN stats.index \cup {u.exec}
                    ELSE stats.index \ {u.exec}]

UpdateCounts(a) ==
    LET u == update[a] IN
    /\ u.pc = "stats"
    /\ stats' = CountedStats(u)
    /\ update' = [update EXCEPT ![a] =
            IF u.kind \in Final /\ u.exec \in Snapshotted
            THEN [u EXCEPT !.pc = "clean"] ELSE NoUpdate]
    /\ UNCHANGED <<record, inbox, task, tracker, canceller, orders, control,
                   trail>>

\* mark_execution_finished deletes the config snapshot and writes its own
\* version of the record once more.
UpdateCleans(a) ==
    LET u == update[a] IN
    /\ u.pc = "clean"
    /\ record' = [record EXCEPT ![u.exec] = u.new]
    /\ update' = [update EXCEPT ![a] = NoUpdate]
    /\ UNCHANGED <<inbox, task, tracker, stats, canceller, orders, control,
                   trail>>

UpdateStep(a) ==
    UpdateReads(a) \/ UpdateWrites(a) \/ UpdateCounts(a) \/ UpdateCleans(a)
-----------------------------------------------------------------------------
(* The worker's task for one execution.                                    *)

TaskGoto(e, pc) == task' = [task EXCEPT ![e].pc = pc]

\* The consumer reads the message.
TaskReads(e) ==
    /\ e \in inbox
    /\ inbox' = inbox \ {e}
    /\ TaskGoto(e, "load")
    /\ UNCHANGED <<record, tracker, update, stats, canceller, orders, control,
                   trail>>

\* The task is tracked only when its handler starts.
TaskTracksLate(e) ==
    /\ task[e].pc = "load"
    /\ record[e].status \notin Final
    /\ task' = [task EXCEPT ![e].pc = "start", ![e].event = record[e].cancel]
    /\ Begin(e, e, "RUNNING")
    /\ UNCHANGED <<record, inbox, tracker, stats, canceller, orders, control,
                   trail>>

\* get_execution_by_message_id: a finished execution is acknowledged and
\* skipped; otherwise the task is tracked before RUNNING is written.
TaskTracks(e) ==
    /\ task[e].pc = "load"
    /\ IF record[e].status \in Final
       THEN TaskGoto(e, "ended") /\ UNCHANGED <<tracker, update>>
       ELSE /\ task' = [task EXCEPT ![e].pc = "start",
                                    ![e].event = record[e].cancel]
            /\ tracker' = tracker \cup {e}
            /\ Begin(e, e, "RUNNING")
    /\ UNCHANGED <<record, inbox, stats, canceller, orders, control,
                   trail>>

TaskRuns(e) ==
    /\ task[e].pc = "start" /\ Ready(e)
    /\ TaskGoto(e, "run")
    /\ UNCHANGED <<record, inbox, tracker, update, stats, canceller, orders, control,
                   trail>>

\* The handler dispatches a child: initialize_execution, then XADD.
TaskDispatches(e, child) ==
    /\ task[e].pc = "run"
    /\ Parent[child] = e /\ record[child].status = "NONE"
    /\ record' = [record EXCEPT ![child] = [NoRecord EXCEPT !.status = "QUEUED"]]
    /\ inbox' = inbox \cup {child}
    /\ UNCHANGED <<task, tracker, update, stats, canceller, orders, control,
                   trail>>

\* The handler returns.
TaskReturns(e) ==
    /\ task[e].pc = "run" /\ ~task[e].cancelled
    /\ \E outcome \in {"COMPLETED", "FAILED"} :
          task' = [task EXCEPT ![e].pc = "finish", ![e].outcome = outcome]
    /\ update' = [update EXCEPT ![e] = [NoUpdate EXCEPT !.pc = "read", !.exec = e,
                                            !.kind = task'[e].outcome]]
    /\ UNCHANGED <<record, inbox, tracker, stats, canceller, orders, control,
                   trail>>

\* CancelledError reaches the handler, or it asks for it: check_cancelled.
TaskUnwinds(e) ==
    /\ task[e].pc = "run" /\ (task[e].cancelled \/ task[e].event)
    /\ task' = [task EXCEPT ![e].pc = "unwind", ![e].outcome = "CANCELLED",
                            ![e].cancelled = FALSE]
    /\ UNCHANGED <<record, inbox, tracker, update, stats, canceller, orders, control,
                   trail>>

\* The parent is told unless its record says that it is cancelled too.
TaskReportsCancel(e) ==
    /\ task[e].pc = "unwind"
    /\ trail' = IF Parent[e] # NoExec /\ ~record[Parent[e]].cancel
                THEN [trail EXCEPT !.woken = @ \cup {Parent[e]}] ELSE trail
    /\ TaskGoto(e, "finish")
    /\ Begin(e, e, "CANCELLED")
    /\ UNCHANGED <<record, inbox, tracker, stats, canceller, orders, control>>

\* mark_execution_finished is done: acknowledge, and leave the tracker.
TaskEnds(e) ==
    /\ task[e].pc = "finish" /\ Ready(e)
    /\ TaskGoto(e, "ended")
    /\ tracker' = tracker \ {e}
    /\ UNCHANGED <<record, inbox, update, stats, canceller, orders, control,
                   trail>>

\* CancelledError arrives outside the handler, while a registry update of the
\* task itself is under way: nothing catches it, the message is not
\* acknowledged, and the update stops where it is.
TaskKilled(e) ==
    /\ task[e].pc \in {"start", "finish"} /\ task[e].cancelled
    /\ task' = [task EXCEPT ![e].pc = "ended", ![e].cancelled = FALSE]
    /\ update' = [update EXCEPT ![e] = NoUpdate]
    /\ tracker' = tracker \ {e}
    /\ trail' = [trail EXCEPT !.overlapped = @ \/ ~Ready(e)]
    /\ UNCHANGED <<record, inbox, stats, canceller, orders, control>>

TaskStep(e) ==
    \/ TaskReads(e) \/ TaskTracks(e) \/ TaskRuns(e) \/ TaskReturns(e)
    \/ TaskUnwinds(e) \/ TaskReportsCancel(e) \/ TaskEnds(e) \/ TaskKilled(e)
    \/ \E child \in Exec : TaskDispatches(e, child)
-----------------------------------------------------------------------------
(* Cancelling: the client, then the control loop of the worker.            *)

\* root and what descends from it, in the records of the session.
Below(root) ==
    LET level[n \in 0..Cardinality(Exec)] ==
            IF n = 0 THEN {root}
            ELSE level[n - 1] \cup {e \in Exec : /\ record[e].status # "NONE"
                                                /\ Parent[e] \in level[n - 1]}
    IN level[Cardinality(Exec)]

\* The records are read once; everything below goes by what was read.
Cancels(mode, nodes) ==
    /\ canceller.pc = "idle"
    /\ canceller' = [pc |-> "flags", mode |-> mode,
                     flags |-> {e \in Exec \cap nodes : record[e].status \in Final},
                     marks |-> {e \in Exec \cap nodes : record[e].status \notin Final},
                     known |-> {e \in Exec \cap nodes : record[e].worker},
                     node |-> NoExec]
    /\ UNCHANGED <<record, inbox, task, tracker, update, stats, orders, control,
                   trail>>

CancelTask(root) ==
    /\ record[root].status # "NONE"
    /\ Cancels("task", Below(root))

CancelSession == Cancels("session", {e \in Exec : record[e].status # "NONE"})

\* mark_cancel_requested on the finished nodes, before anything else.
CancelFlags(e) ==
    /\ canceller.pc = "flags" /\ Ready(Client)
    /\ e \in canceller.flags
    /\ canceller' = [canceller EXCEPT !.flags = @ \ {e}]
    /\ Begin(Client, e, "REQUESTED")
    /\ UNCHANGED <<record, inbox, task, tracker, stats, orders, control, trail>>

\* The cascade in the order of the hash.
CancelMarksAnyOrder(e) ==
    /\ canceller.pc = "flags" /\ canceller.flags = {} /\ Ready(Client)
    /\ e \in canceller.marks
    /\ canceller' = [canceller EXCEPT !.pc = "order", !.marks = @ \ {e}, !.node = e]
    /\ Begin(Client, e, "CANCELLING")
    /\ UNCHANGED <<record, inbox, task, tracker, stats, orders, control, trail>>

\* mark_execution_cancelling on the next node: breadth first in cancel_task,
\* in any order in cancel_session.
CancelMarks(e) ==
    /\ canceller.pc = "flags" /\ canceller.flags = {} /\ Ready(Client)
    /\ e \in canceller.marks
    /\ canceller.mode = "task" => Parent[e] \notin canceller.marks
    /\ canceller' = [canceller EXCEPT !.pc = "order", !.marks = @ \ {e}, !.node = e]
    /\ Begin(Client, e, "CANCELLING")
    /\ UNCHANGED <<record, inbox, task, tracker, stats, orders, control, trail>>

\* The command, if the client had read which worker runs the node.
CancelOrders ==
    /\ canceller.pc = "order" /\ Ready(Client)
    /\ orders' = IF canceller.node \in canceller.known
                 THEN orders \cup {canceller.node} ELSE orders
    /\ canceller' = [canceller EXCEPT !.pc = "flags", !.node = NoExec]
    /\ UNCHANGED <<record, inbox, task, tracker, update, stats, control, trail>>

\* handle_cancel_task looks the task up, marks the record ...
ControlMarks(e) ==
    /\ e \in orders /\ Ready(Control) /\ control.exec = NoExec
    /\ orders' = orders \ {e}
    /\ control' = [exec |-> e, running |-> e \in tracker]
    /\ Begin(Control, e, "CANCELLING")
    /\ UNCHANGED <<record, inbox, task, tracker, stats, canceller, trail>>

\* ... and cancels the task it found.
ControlCancels ==
    /\ control.exec # NoExec /\ Ready(Control)
    /\ task' = IF control.running /\ task[control.exec].pc # "ended"
               THEN [task EXCEPT ![control.exec].cancelled = TRUE,
                                 ![control.exec].event = TRUE]
               ELSE task
    /\ control' = [exec |-> NoExec, running |-> FALSE]
    /\ UNCHANGED <<record, inbox, tracker, update, stats, canceller, orders, trail>>

CancelStep ==
    \/ CancelOrders \/ ControlCancels
    \/ \E e \in Exec : CancelFlags(e) \/ CancelMarks(e) \/ ControlMarks(e)

LedgerNext ==
    \/ \E a \in Actor : UpdateStep(a)
    \/ \E e \in Exec : TaskStep(e) \/ CancelTask(e)
    \/ CancelSession
    \/ CancelStep

LedgerSpec == LedgerInit /\ [][LedgerNext]_ledgerVars
-----------------------------------------------------------------------------
(* Properties.                                                             *)

\* Whenever a record names the worker, the task behind it is in the tracker
\* until it ends: a cancel command, which goes to the worker a record names,
\* never misses a task that is still at work (_control_handling.py looks it up
\* in the worker's memory).
CancelFindsTask ==
    \A e \in Exec :
        /\ record[e].worker
        /\ task[e].pc \in {"start", "run", "unwind", "finish"}
        => e \in tracker

\* A child that cancel_task takes down does not wake a parent taken down with
\* it: parents are flagged before the commands to their children go out, so
\* that the child's look at the parent's record finds the flag, unless an
\* overlapping update has wiped it out (client.py, the order of the cascade;
\* worker.py, the check before the CANCELLED reply).
CascadeIsSilent ==
    canceller.mode = "task" /\ ~trail.overlapped =>
        trail.woken \cap trail.reached = {}

\* As long as the updates of a record do not overlap, the counters and the
\* active index agree with the records whenever no update is under way.
CountersMatchRecords ==
    ~trail.overlapped /\ (\A a \in Actor : Ready(a)) =>
        LET open == {e \in Exec : Active(record[e])} IN
        stats.index = open /\ stats.active = Cardinality(open)

\* docs/plans/2026-05-15-worker-task-state-stats.md: the "active set should
\* drain as executions finish".
ActiveSetDrains ==
    /\ \A e \in Exec : task[e].pc = "ended"
    /\ \A a \in Actor : Ready(a)
    /\ orders = {}
    => stats.index = {}
=============================================================================
