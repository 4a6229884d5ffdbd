------------------------ MODULE LangfuseWorkflows ------------------------
(***************************************************************************)
(* The state LangfusePlugin keeps in worker memory across hook calls: the  *)
(* ordered table of open agent.workflow observations (refreshed to the     *)
(* tail, expired from the head, evicted at the limit), the observations of *)
(* one execution segment that hang on its context, and the bounded set of  *)
(* trace output uploads.                                                   *)
(*                                                                         *)
(* An activation is one run of GatewayWorker._handle_message: a new task   *)
(* or a resume of one.  Each starts at most one workflow observation, so   *)
(* the observation is named after the activation that started it.  The     *)
(* hooks run on one event loop; on_task_start yields only while it looks   *)
(* up its parent.  The Langfuse SDK may raise at any start.  Ids,          *)
(* metadata, serialisation and the HTTP upload itself are left out.        *)
(***************************************************************************)
EXTENDS Naturals, Sequences, SequencesExt, FiniteSets

CONSTANTS
    Activation,     \* runs of _handle_message on this worker
    NoObs,          \* no observation
    TaskOf,         \* the (session_id, message_id) each activation works for
    Limits,         \* the values max_active_workflows is configured with
    WorkflowTtl,    \* workflow_ttl_seconds
    MaxPending,     \* max_pending_trace_output_updates
    Horizon         \* bound on the clock

ASSUME LangfuseAssumption ==
    /\ NoObs \notin Activation
    /\ Limits \subseteq Nat \ {0} /\ MaxPending \in Nat \ {0}
    /\ WorkflowTtl \in Nat \ {0} /\ Horizon \in Nat

VARIABLES
    maxWorkflows,   \* _max_active_workflows, fixed when the plugin is built
    lfNow,          \* time.monotonic()
    table,          \* _active_workflows, head first
    phase,          \* where each activation is in _handle_message
    workflow,       \* what became of the observation an activation started
    displaced,      \* history: observations another activation's entry replaced
    ctxWorkflow,    \* LANGFUSE_WORKFLOW_OBSERVATION_ATTR of the context
    traced,         \* activations whose context holds its segment observations
    suspended,      \* activations that returned with their task suspended
    uploads,        \* _pending_trace_output_updates
    lfStage         \* the plugin: up, flushing at shutdown, down

langfuseVars == <<maxWorkflows, lfNow, table, phase, workflow, displaced, ctxWorkflow,
                  traced, suspended, uploads, lfStage>>

Tasks == {TaskOf[a] : a \in Activation}

LangfuseTypeOK ==
    /\ maxWorkflows \in Limits
    /\ lfNow \in 0..Horizon
    /\ table \in Seq([task : Tasks, obs : Activation, expires : Nat])
    /\ phase \in [Activation -> {"idle", "resolving", "running", "cancelled", "done"}]
    /\ workflow \in [Activation -> {"none", "open", "completed", "discarded"}]
    /\ displaced \subseteq Activation
    /\ ctxWorkflow \in [Activation -> Activation \cup {NoObs}]
    /\ traced \subseteq Activation
    /\ suspended \subseteq Activation
    /\ uploads \subseteq Activation
    /\ lfStage \in {"up", "flushing", "down"}

LangfuseInit ==
    /\ maxWorkflows \in Limits
    /\ lfNow = 0 /\ table = <<>>
    /\ phase = [a \in Activation |-> "idle"]
    /\ workflow = [a \in Activation |-> "none"]
    /\ displaced = {}
    /\ ctxWorkflow = [a \in Activation |-> NoObs]
    /\ traced = {} /\ suspended = {} /\ uploads = {} /\ lfStage = "up"

---------------------------------------------------------------------------
(* The workflow table.                                                     *)

\* Where the entry of a task stands: a key is there once at most.
Place(tab, t) == {i \in 1..Len(tab) : tab[i].task = t}

\* The observation tracked for a task, or NoObs.
TrackedObs(tab, t) ==
    IF Place(tab, t) = {} THEN NoObs ELSE tab[CHOOSE i \in Place(tab, t) : TRUE].obs

\* pop(key, None).
Without(tab, t) ==
    IF Place(tab, t) = {} THEN tab ELSE RemoveAt(tab, CHOOSE i \in Place(tab, t) : TRUE)

ObsIn(tab) == {tab[i].obs : i \in 1..Len(tab)}

\* _track_active_workflow as a careless edit would leave it: the entry is
\* refreshed where it stands.
TrackInPlace(tab, t, o) ==
    IF TrackedObs(tab, t) = NoObs
    THEN Append(tab, [task |-> t, obs |-> o, expires |-> lfNow + WorkflowTtl])
    ELSE [i \in 1..Len(tab) |->
             IF tab[i].task = t
             THEN [task |-> t, obs |-> o, expires |-> lfNow + WorkflowTtl]
             ELSE tab[i]]

\* _track_active_workflow: pop the key, then append with a fresh deadline.
TrackActiveWorkflow(tab, t, o) ==
    Append(Without(tab, t), [task |-> t, obs |-> o, expires |-> lfNow + WorkflowTtl])

\* _expire_active_workflows: entries leave from the head until a live one.
ExpireActiveWorkflows(tab) ==
    LET live == {i \in 1..Len(tab) : tab[i].expires > lfNow}
    IN  IF live = {} THEN <<>>
        ELSE SubSeq(tab, CHOOSE i \in live : \A j \in live : i <= j, Len(tab))

\* The limit is forgotten.
EvictNothing(tab) == tab

\* _evict_active_workflows_if_needed: the oldest leave while the table is over
\* its limit.
EvictActiveWorkflows(tab) ==
    IF Len(tab) > maxWorkflows
    THEN SubSeq(tab, Len(tab) - maxWorkflows + 1, Len(tab))
    ELSE tab

\* Discarded without an end.
FinishNothing(wf, gone) == wf

\* _finish_workflow on what the plugin discards.
Finish(wf, gone) ==
    [o \in Activation |-> IF o \in gone /\ wf[o] = "open" THEN "discarded" ELSE wf[o]]

---------------------------------------------------------------------------
(* on_task_start.                                                          *)

\* The worker.execute and agent.task observations, and the attributes set on
\* the context once both exist; an SDK error at either leaves the hook, which
\* the plugin registry swallows.  A workflow the hook started itself is on the
\* context already.
SegmentsStart(a, obs, raises) ==
    /\ traced' = IF raises THEN traced ELSE traced \cup {a}
    /\ ctxWorkflow' = [ctxWorkflow EXCEPT ![a] = IF raises /\ obs # a THEN @ ELSE obs]

\* The task has a tracked workflow: touch it, no await before the segments.
TaskStartsTracked(a, raises) ==
    LET tab == ExpireActiveWorkflows(table)
        obs == TrackedObs(tab, TaskOf[a])
    IN  /\ lfStage = "up" /\ phase[a] = "idle"
        /\ obs # NoObs
        /\ table' = TrackActiveWorkflow(tab, TaskOf[a], obs)
        /\ workflow' = Finish(workflow, ObsIn(table) \ ObsIn(tab))
        /\ SegmentsStart(a, obs, raises)
        /\ phase' = [phase EXCEPT ![a] = "running"]
        /\ UNCHANGED <<maxWorkflows, lfNow, displaced, suspended, uploads, lfStage>>

\* Nothing tracked: the parent observation is looked up first, an await.
TaskStartsUntracked(a) ==
    LET tab == ExpireActiveWorkflows(table)
    IN  /\ lfStage = "up" /\ phase[a] = "idle"
        /\ TrackedObs(tab, TaskOf[a]) = NoObs
        /\ table' = tab
        /\ workflow' = Finish(workflow, ObsIn(table) \ ObsIn(tab))
        /\ phase' = [phase EXCEPT ![a] = "resolving"]
        /\ UNCHANGED <<maxWorkflows, lfNow, displaced, ctxWorkflow, traced,
                       suspended, uploads, lfStage>>

\* The lookup returns and the workflow observation is started, entered into the
\* table over whatever is there by now, and claimed on the context.
ParentResolved(a, raises) ==
    LET tracked == TrackActiveWorkflow(table, TaskOf[a], a)
        kept    == EvictActiveWorkflows(tracked)
    IN  /\ phase[a] = "resolving"
        /\ phase' = [phase EXCEPT ![a] = "running"]
        /\ table' = kept
        /\ workflow' = [Finish(workflow, ObsIn(tracked) \ ObsIn(kept)) EXCEPT ![a] =
                           IF a \in ObsIn(kept) THEN "open" ELSE "discarded"]
        /\ displaced' = displaced \cup (ObsIn(table) \ ObsIn(tracked))
        /\ SegmentsStart(a, a, raises)
        /\ UNCHANGED <<maxWorkflows, lfNow, suspended, uploads, lfStage>>

\* The lookup or the start of the workflow observation fails, or the hook's
\* time runs out: the task goes on untraced.
StartHookFails(a) ==
    /\ phase[a] = "resolving"
    /\ phase' = [phase EXCEPT ![a] = "running"]
    /\ UNCHANGED <<maxWorkflows, lfNow, table, workflow, displaced, ctxWorkflow, traced, suspended, uploads, lfStage>>

---------------------------------------------------------------------------
(* on_task_complete, on_task_error, on_task_cancel.                        *)

\* The activation returns; its context, and what hangs on it, goes with it.
Returns(a) ==
    /\ phase' = [phase EXCEPT ![a] = "done"]
    /\ ctxWorkflow' = [ctxWorkflow EXCEPT ![a] = NoObs]
    /\ traced' = traced \ {a}

\* The observation _end_workflow_observation ends: the context's, else the
\* tracked one.
EndTarget(a) ==
    IF ctxWorkflow[a] # NoObs THEN ctxWorkflow[a] ELSE TrackedObs(table, TaskOf[a])

WorkflowEnds(a) ==
    /\ workflow' = [o \in Activation |->
                       IF o = EndTarget(a) /\ workflow[o] = "open"
                       THEN "completed" ELSE workflow[o]]
    /\ table' = IF EndTarget(a) # NoObs /\ TrackedObs(table, TaskOf[a]) = EndTarget(a)
                THEN Without(table, TaskOf[a]) ELSE table

\* _update_trace_output: shed before submitting.
UpdateTraceOutput(a) ==
    IF Cardinality(uploads) >= MaxPending THEN uploads ELSE uploads \cup {a}

\* _is_non_terminal_result: only a dict whose status is QUEUED.
IsNonTerminalResult(result) == result = "queued"

\* The handler returned: finished, or suspended by call_agent (whose result
\* says QUEUED) or by ask_user (whose result says WAITING_USER).
TaskCompletes(a, result) ==
    /\ phase[a] = "running"
    /\ Returns(a)
    /\ suspended' = IF result = "finished" THEN suspended ELSE suspended \cup {a}
    /\ IF IsNonTerminalResult(result)
       THEN UNCHANGED <<workflow, table>>
       ELSE WorkflowEnds(a)
    /\ uploads' = UpdateTraceOutput(a)
    /\ UNCHANGED <<maxWorkflows, lfNow, displaced, lfStage>>

TaskErrors(a) ==
    /\ phase[a] = "running"
    /\ Returns(a)
    /\ WorkflowEnds(a)
    /\ uploads' = IF a \in traced \/ EndTarget(a) # NoObs
                  THEN UpdateTraceOutput(a) ELSE uploads
    /\ UNCHANGED <<maxWorkflows, lfNow, displaced, suspended, lfStage>>

\* A reply of a Task Group that is not the last, or of an aborted one, leaves
\* _handle_message before any of these hooks.
GroupReturnsEarly(a) ==
    /\ phase[a] = "running"
    /\ Returns(a)
    /\ suspended' = suspended \cup {a}
    /\ UNCHANGED <<maxWorkflows, lfNow, table, workflow, displaced, uploads, lfStage>>

\* handle_cancel_task cancels the task where it waits and starts the plugins'
\* hook as a task of its own.
TaskCancelled(a) ==
    /\ phase[a] \in {"resolving", "running"}
    /\ phase' = [phase EXCEPT ![a] = "cancelled"]
    /\ UNCHANGED <<maxWorkflows, lfNow, table, workflow, displaced, ctxWorkflow, traced, suspended, uploads, lfStage>>

CancelHookRuns(a) ==
    /\ phase[a] = "cancelled"
    /\ Returns(a)
    /\ WorkflowEnds(a)
    /\ uploads' = IF a \in traced \/ EndTarget(a) # NoObs
                  THEN UpdateTraceOutput(a) ELSE uploads
    /\ UNCHANGED <<maxWorkflows, lfNow, displaced, suspended, lfStage>>

---------------------------------------------------------------------------
(* Uploads and shutdown.                                                   *)

UploadEnds(a) ==
    /\ a \in uploads
    /\ uploads' = uploads \ {a}
    /\ UNCHANGED <<maxWorkflows, lfNow, table, phase, workflow, displaced, ctxWorkflow,
                   traced, suspended, lfStage>>

\* on_worker_shutdown, after the tasks have drained.
FlushBegins ==
    /\ lfStage = "up"
    /\ \A a \in Activation : phase[a] \in {"idle", "cancelled", "done"}
    /\ lfStage' = "flushing"
    /\ UNCHANGED <<maxWorkflows, lfNow, table, phase, workflow, displaced, ctxWorkflow,
                   traced, suspended, uploads>>

\* The flush deadline cancels what has not been sent; the executor and the
\* tracer are shut down.
FlushEnds ==
    /\ lfStage = "flushing"
    /\ lfStage' = "down"
    /\ uploads' = {}
    /\ UNCHANGED <<maxWorkflows, lfNow, table, phase, workflow, displaced, ctxWorkflow,
                   traced, suspended>>

LangfuseTick ==
    /\ lfStage = "up" /\ lfNow < Horizon
    /\ lfNow' = lfNow + 1
    /\ UNCHANGED <<maxWorkflows, table, phase, workflow, displaced, ctxWorkflow, traced, suspended, uploads, lfStage>>

LangfuseNext ==
    \/ \E a \in Activation :
          \/ \E raises \in BOOLEAN : TaskStartsTracked(a, raises)
          \/ TaskStartsUntracked(a)
          \/ \E raises \in BOOLEAN : ParentResolved(a, raises)
          \/ StartHookFails(a)
          \/ \E result \in {"finished", "queued", "waiting_user"} : TaskCompletes(a, result)
          \/ TaskErrors(a)
          \/ GroupReturnsEarly(a)
          \/ TaskCancelled(a)
          \/ CancelHookRuns(a)
          \/ UploadEnds(a)
    \/ FlushBegins
    \/ FlushEnds
    \/ LangfuseTick

LangfuseSpec == LangfuseInit /\ [][LangfuseNext]_langfuseVars

---------------------------------------------------------------------------
(* Properties.                                                             *)

\* The scan of _expire_active_workflows may stop at the first live entry: the
\* table's order is the order of the deadlines, whatever was touched between.
LruIsExpiryOrder ==
    \A i, j \in 1..Len(table) : i < j => table[i].expires <= table[j].expires

\* What the plugin holds for a worker stays within its limits between hooks:
\* open workflows and uploads in flight (one entry per task).
HoldsAreBounded ==
    /\ Len(table) <= maxWorkflows
    /\ Cardinality({table[i].task : i \in 1..Len(table)}) = Len(table)
    /\ Cardinality(uploads) <= MaxPending

\* The table of open workflows can be trusted to stay small and in order.
WorkflowLruHolds == LruIsExpiryOrder /\ HoldsAreBounded

\* An open workflow observation always has something left to end it: the
\* table, whose expiry and eviction reach it, or an activation that will run a
\* hook with it on its context.  The one exception is an observation a
\* concurrent activation of the same task replaced in the table.
WorkflowReclaimable ==
    \A o \in Activation :
        workflow[o] = "open" =>
            \/ o \in ObsIn(table)
            \/ o \in displaced
            \/ \E a \in Activation :
                  ctxWorkflow[a] = o /\ phase[a] \in {"running", "cancelled"}

\* The workflow observation spans the logical task: it is not closed by the
\* return of an execution that suspended.
WorkflowOutlivesSuspension ==
    \A a \in suspended :
        (\A b \in Activation : TaskOf[b] = TaskOf[a] => b = a \/ phase[b] = "idle")
            => workflow[a] # "completed"
===========================================================================
