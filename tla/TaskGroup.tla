----------------------------- MODULE TaskGroup -----------------------------
(***************************************************************************)
(* Scatter-gather: call_agents fans a Task Group out (worker/context.py),  *)
(* every reply of a member enters the Group Join of _handle_message        *)
(* (worker/worker.py) in a runner task of its own, and the one that fills  *)
(* the group re-enters the caller's handler with the aggregate.  The sweep *)
(* answers for members whose reply is lost (core/wait_sweeper.py).         *)
(*                                                                         *)
(* The gate in front of the join is taken as SuspendedCall shows it to be: *)
(* it admits a reply that claims an entry, one that finds neither entry    *)
(* nor marker, and MaxExtra further ones, those that slipped through       *)
(* before the winner's marker was out or passed on a gate error.           *)
(***************************************************************************)
EXTENDS Naturals, FiniteSets

CONSTANTS
    Member,         \* sub-tasks of the group
    Task,           \* runner tasks of the workers serving the caller's type
    NoMember,       \* the member of an idle task or sweeper
    MaxExtra,       \* bound: copies the gate admits beyond its own claims
    MaxStandIns,    \* bound: stand-ins of the sweep per member
    MaxFaults,      \* bound: lost messages, errors and crashes
    Condition       \* which of them may happen

ConditionKind == {"unavailable", "dispatch_error", "flush_lost", "reply_lost",
                  "join_crash", "group_expiry"}

ASSUME MemberAssumption == IsFiniteSet(Member) /\ Member # {}
ASSUME NoMemberAssumption == NoMember \notin Member
ASSUME GroupBoundsAssumption ==
    MaxExtra \in Nat /\ MaxStandIns \in Nat /\ MaxFaults \in Nat
ASSUME ConditionAssumption == Condition \subseteq ConditionKind

VARIABLES
    group,      \* hash task_group
    results,    \* hash task_group_results, by the member's message id
    entry,      \* members with an entry in the wait index
    marker,     \* members with a "consumed" marker
    copies,     \* unread reply copies on the caller's control stream
    member,     \* where each sub-task is
    caller,     \* the activation that dispatches the group
    status,     \* status in the caller's execution record
    task,       \* runner tasks with a reply of the group
    sweep,      \* the sweeper at work on this group
    hist,       \* what happened (observed, read by no action but as a bound)
    faults      \* faults so far

vars == <<group, results, entry, marker, copies, member, caller, status, task,
          sweep, hist, faults>>

Total == Cardinality(Member)
Kind == {"result", "failure"}

\* exists: the field total, without which the join treats a reply as a lone one.
GroupHash == [exists: BOOLEAN, completed: Nat, aborted: BOOLEAN]

\* A sub-task is not dispatched; running; past help (its worker is lost or the
\* renewal ceiling has passed), which does not stop a late answer; finished;
\* rejected by the availability check; or its dispatch raised.
MemberPos == {"none", "sent", "overdue", "answered", "unavailable", "unsent"}

Terminal == {"COMPLETED", "FAILED", "CANCELLED"}
Status == {"RUNNING", "WAITING_AGENT"} \cup Terminal

CallerRecord == [pc: {"start", "dispatch", "abort", "failing", "flush", "done"},
                 pending: SUBSET Member]   \* stand-ins queued for the flush

JoinPc == {"idle", "resume", "total", "aborted", "store", "count", "aggregate",
           "handler", "mark"}
JoinRecord == [pc: JoinPc,
               member: Member \cup {NoMember},
               kind: Kind \cup {"none"},
               payload: SUBSET Member,      \* members whose result is passed on
               joined: BOOLEAN,             \* the payload is an aggregate
               outcome: Status]
IdleTask == [pc |-> "idle", member |-> NoMember, kind |-> "none",
             payload |-> {}, joined |-> FALSE, outcome |-> "RUNNING"]

SweepRecord == [pc: {"idle", "total", "aborted", "recorded", "child", "emit",
                     "extend", "drop"},
                member: Member \cup {NoMember}]
IdleSweep == [pc |-> "idle", member |-> NoMember]

History == [passed: [Member -> Nat],    \* replies the gate admitted
            counted: SUBSET Member,     \* members the join has counted
            again: BOOLEAN,             \* it counted one of them twice
            extra: Nat,                 \* admitted beyond the gate's claims
            standIns: [Member -> Nat],  \* stand-ins of the sweep
            joins: Nat]                 \* aggregates handed to the handler

TypeOK ==
    /\ group \in GroupHash
    /\ results \in [Member -> Kind \cup {"none"}]
    /\ entry \in SUBSET Member
    /\ marker \in SUBSET Member
    /\ copies \in [Member -> [Kind -> Nat]]
    /\ member \in [Member -> MemberPos]
    /\ caller \in CallerRecord
    /\ status \in Status
    /\ task \in [Task -> JoinRecord]
    /\ \A t \in Task : task[t].pc = "idle" <=> task[t].member = NoMember
    /\ \A t \in Task : task[t].pc # "idle" => task[t].kind \in Kind
    /\ sweep \in SweepRecord
    /\ sweep.pc = "idle" <=> sweep.member = NoMember
    /\ hist \in History
    /\ faults \in 0..MaxFaults

\* The caller's handler is about to call call_agents.
Init ==
    /\ group = [exists |-> FALSE, completed |-> 0, aborted |-> FALSE]
    /\ results = [m \in Member |-> "none"]
    /\ entry = {}
    /\ marker = {}
    /\ copies = [m \in Member |-> [k \in Kind |-> 0]]
    /\ member = [m \in Member |-> "none"]
    /\ caller = [pc |-> "start", pending |-> {}]
    /\ status = "RUNNING"
    /\ task = [t \in Task |-> IdleTask]
    /\ sweep = IdleSweep
    /\ hist = [passed |-> [m \in Member |-> 0], counted |-> {},
               again |-> FALSE, extra |-> 0,
               standIns |-> [m \in Member |-> 0], joins |-> 0]
    /\ faults = 0

\* One more fault, of a kind that may happen here.
Fault(kind) ==
    /\ kind \in Condition
    /\ faults < MaxFaults
    /\ faults' = faults + 1

\* XADD of a reply copy to the caller's control stream.
Deliver(m, k) == copies' = [copies EXCEPT ![m][k] = @ + 1]
-----------------------------------------------------------------------------
(* Fanning out: call_agents, then the end of the caller's activation.      *)

CallAgents ==
    /\ caller.pc = "start"
    /\ group' = [exists |-> TRUE, completed |-> 0, aborted |-> FALSE]
    /\ caller' = [caller EXCEPT !.pc = "dispatch"]
    /\ UNCHANGED <<results, entry, marker, copies, member, status, task, sweep,
                   hist, faults>>

\* _dispatch_single_task for one member, whose wait is registered in any case:
\* it goes out, its agent type is unavailable and a stand-in is queued, or the
\* XADD raises, with or without the server having executed it.
Dispatch(m) ==
    /\ caller.pc = "dispatch"
    /\ member[m] = "none"
    /\ entry' = entry \cup {m}
    /\ \/ /\ member' = [member EXCEPT ![m] = "sent"]
          /\ UNCHANGED <<caller, faults>>
       \/ /\ "unavailable" \in Condition
          /\ member' = [member EXCEPT ![m] = "unavailable"]
          /\ caller' = [caller EXCEPT !.pending = @ \cup {m}]
          /\ UNCHANGED faults
       \/ /\ Fault("dispatch_error")
          /\ \E pos \in {"sent", "unsent"} : member' = [member EXCEPT ![m] = pos]
          /\ caller' = [caller EXCEPT !.pc = "abort"]
    /\ UNCHANGED <<group, results, marker, copies, status, task, sweep, hist>>

\* A dispatch raised: the group is marked as aborted and the exception goes on.
GroupAborts ==
    /\ caller.pc = "abort"
    /\ group' = [group EXCEPT !.aborted = TRUE]
    /\ caller' = [pc |-> "failing", pending |-> {}]
    /\ UNCHANGED <<results, entry, marker, copies, member, status, task, sweep,
                   hist, faults>>

AllDispatched ==
    /\ caller.pc = "dispatch"
    /\ \A m \in Member : member[m] # "none"
    /\ caller' = [caller EXCEPT !.pc = "flush"]
    /\ UNCHANGED <<group, results, entry, marker, copies, member, status, task,
                   sweep, hist, faults>>

\* flush_pending_group_replies, one stand-in at a time and fail-soft.
FlushStandIn(m) ==
    /\ caller.pc = "flush"
    /\ m \in caller.pending
    /\ caller' = [caller EXCEPT !.pending = @ \ {m}]
    /\ \/ Deliver(m, "failure") /\ UNCHANGED faults
       \/ Fault("flush_lost") /\ UNCHANGED copies
    /\ UNCHANGED <<group, results, entry, marker, member, status, task, sweep,
                   hist>>

\* mark_execution_finished at the end of the dispatching activation.
CallerUnwinds ==
    /\ \/ caller.pc = "flush" /\ caller.pending = {} /\ status' = "WAITING_AGENT"
       \/ caller.pc = "failing" /\ status' = "FAILED"
    /\ caller' = [caller EXCEPT !.pc = "done"]
    /\ UNCHANGED <<group, results, entry, marker, copies, member, task, sweep,
                   hist, faults>>
-----------------------------------------------------------------------------
(* The sub-tasks.                                                          *)

\* A member finishes.  Its reply may be lost; it keeps no copy of it, since
\* _persist_single_call_result leaves that to the join.
MemberReplies(m) ==
    /\ member[m] \in {"sent", "overdue"}
    /\ member' = [member EXCEPT ![m] = "answered"]
    /\ \/ Deliver(m, "result") /\ UNCHANGED faults
       \/ Fault("reply_lost") /\ UNCHANGED copies
    /\ UNCHANGED <<group, results, entry, marker, caller, status, task, sweep,
                   hist>>

\* Its worker's lease runs out, or the renewal ceiling passes.
MemberOverdue(m) ==
    /\ member[m] = "sent"
    /\ member' = [member EXCEPT ![m] = "overdue"]
    /\ UNCHANGED <<group, results, entry, marker, copies, caller, status, task,
                   sweep, hist, faults>>

\* TASK_GROUP_TTL_SECONDS after call_agents the group key is gone.
GroupExpires ==
    /\ "group_expiry" \in Condition
    /\ group.exists
    /\ group' = [exists |-> FALSE, completed |-> 0, aborted |-> FALSE]
    /\ UNCHANGED <<results, entry, marker, copies, member, caller, status, task,
                   sweep, hist, faults>>
-----------------------------------------------------------------------------
(* The Group Join, one activation of the caller per admitted reply.        *)

JGoto(t, pc) == task' = [task EXCEPT ![t].pc = pc]

\* The activation ends with this status.
JEnds(t, outcome) ==
    task' = [task EXCEPT ![t].pc = "mark", ![t].outcome = outcome]

\* A runner task reads a reply copy, and the gate admits it.
GateAdmits(t, m, k) ==
    /\ task[t].pc = "idle"
    /\ copies[m][k] > 0
    /\ copies' = [copies EXCEPT ![m][k] = @ - 1]
    /\ \/ /\ m \in entry
          /\ entry' = entry \ {m}
          /\ marker' = marker \cup {m}
          /\ hist' = [hist EXCEPT !.passed[m] = @ + 1]
       \/ /\ m \notin entry
          /\ m \notin marker \/ hist.extra < MaxExtra
          /\ hist' = [hist EXCEPT
                         !.passed[m] = @ + 1,
                         !.extra = IF m \in marker THEN @ + 1 ELSE @]
          /\ UNCHANGED <<entry, marker>>
    /\ task' = [task EXCEPT ![t] = [IdleTask EXCEPT !.pc = "resume",
                                                   !.member = m, !.kind = k]]
    /\ UNCHANGED <<group, results, member, caller, status, sweep, faults>>

\* A copy without an entry and with a marker is dropped.
GateDrops(t, m, k) ==
    /\ task[t].pc = "idle"
    /\ copies[m][k] > 0
    /\ m \in marker \ entry
    /\ copies' = [copies EXCEPT ![m][k] = @ - 1]
    /\ UNCHANGED <<group, results, entry, marker, member, caller, status, task,
                   sweep, hist, faults>>

\* The runner reattaches the execution, whatever its status is.
JoinResume(t) ==
    /\ task[t].pc = "resume"
    /\ status' = "RUNNING"
    /\ JGoto(t, "total")
    /\ UNCHANGED <<group, results, entry, marker, copies, member, caller, sweep,
                   hist, faults>>

\* HGET total: without it the reply goes to the handler as a lone one.
JoinTotal(t) ==
    /\ task[t].pc = "total"
    /\ \/ group.exists /\ JGoto(t, "aborted")
       \/ /\ ~group.exists
          /\ task' = [task EXCEPT ![t].pc = "handler",
                                  ![t].payload = {task[t].member}]
    /\ UNCHANGED <<group, results, entry, marker, copies, member, caller, status,
                   sweep, hist, faults>>

\* HGET aborted: a reply of an aborted group is discarded.
JoinAborted(t) ==
    /\ task[t].pc = "aborted"
    /\ \/ group.aborted /\ JEnds(t, "CANCELLED")
       \/ ~group.aborted /\ JGoto(t, "store")
    /\ UNCHANGED <<group, results, entry, marker, copies, member, caller, status,
                   sweep, hist, faults>>

\* Mutant: results keyed by the caller's message id, which siblings share.
JoinStoreShared(t) ==
    /\ task[t].pc = "store"
    /\ results' = [results EXCEPT ![CHOOSE m \in Member : TRUE] = task[t].kind]
    /\ JGoto(t, "count")
    /\ UNCHANGED <<group, entry, marker, copies, member, caller, status, sweep,
                   hist, faults>>

\* HSET of the result under the member's own message id.
JoinStore(t) ==
    /\ task[t].pc = "store"
    /\ results' = [results EXCEPT ![task[t].member] = task[t].kind]
    /\ JGoto(t, "count")
    /\ UNCHANGED <<group, entry, marker, copies, member, caller, status, sweep,
                   hist, faults>>

Counts(t) ==
    hist' = [hist EXCEPT !.counted = @ \cup {task[t].member},
                         !.again = @ \/ task[t].member \in hist.counted]

\* Mutant: the results stored so far decide who is last, not the counter.
JoinCountByResults(t) ==
    /\ task[t].pc = "count"
    /\ group' = [group EXCEPT !.completed = @ + 1]
    /\ Counts(t)
    /\ IF \E m \in Member : results[m] = "none" THEN JEnds(t, "WAITING_AGENT")
                                               ELSE JGoto(t, "aggregate")
    /\ UNCHANGED <<results, entry, marker, copies, member, caller, status, sweep,
                   faults>>

\* HINCRBY completed, whose answer decides who is last.
JoinCount(t) ==
    /\ task[t].pc = "count"
    /\ group' = [group EXCEPT !.completed = @ + 1]
    /\ Counts(t)
    /\ IF group.completed + 1 < Total THEN JEnds(t, "WAITING_AGENT")
                                      ELSE JGoto(t, "aggregate")
    /\ UNCHANGED <<results, entry, marker, copies, member, caller, status, sweep,
                   faults>>

\* HGETALL of the results, which the handler gets as one.
JoinAggregate(t) ==
    /\ task[t].pc = "aggregate"
    /\ task' = [task EXCEPT ![t].pc = "handler", ![t].joined = TRUE,
                            ![t].payload = {m \in Member : results[m] # "none"}]
    /\ hist' = [hist EXCEPT !.joins = @ + 1]
    /\ UNCHANGED <<group, results, entry, marker, copies, member, caller, status,
                   sweep, faults>>

\* process_command on what the activation was handed.
JoinHandler(t) ==
    /\ task[t].pc = "handler"
    /\ JEnds(t, "COMPLETED")
    /\ UNCHANGED <<group, results, entry, marker, copies, member, caller, status,
                   sweep, hist, faults>>

\* Mutant: the runner task keeps the member of the reply it is done with.
JoinMarkKeeps(t) ==
    /\ task[t].pc = "mark"
    /\ status' = task[t].outcome
    /\ JGoto(t, "idle")
    /\ UNCHANGED <<group, results, entry, marker, copies, member, caller, sweep,
                   hist, faults>>

\* mark_execution_finished, over whatever another activation has recorded.
JoinMark(t) ==
    /\ task[t].pc = "mark"
    /\ status' = task[t].outcome
    /\ task' = [task EXCEPT ![t] = IdleTask]
    /\ UNCHANGED <<group, results, entry, marker, copies, member, caller, sweep,
                   hist, faults>>

\* The worker dies, the reply with it.
JoinCrash(t) ==
    /\ task[t].pc # "idle"
    /\ Fault("join_crash")
    /\ task' = [task EXCEPT ![t] = IdleTask]
    /\ UNCHANGED <<group, results, entry, marker, copies, member, caller, status,
                   sweep, hist>>

JoinNext(t) ==
    \/ \E m \in Member, k \in Kind : GateAdmits(t, m, k) \/ GateDrops(t, m, k)
    \/ JoinResume(t) \/ JoinTotal(t) \/ JoinAborted(t) \/ JoinStore(t)
    \/ JoinCount(t) \/ JoinAggregate(t) \/ JoinHandler(t) \/ JoinMark(t)
-----------------------------------------------------------------------------
(* The sweep on an entry of the group.                                     *)

WGoto(pc) == sweep' = [sweep EXCEPT !.pc = pc]

\* A due entry, and what the caller's record says: a finished caller's entry is
\* dropped, a running caller's renewed or, once its worker is gone, dropped.
SweepTakes(m) ==
    /\ sweep.pc = "idle"
    /\ m \in entry
    /\ hist.standIns[m] < MaxStandIns
    /\ \E pc \in {"drop", "extend", "total"} :
          /\ pc = "drop" => \/ status \in Terminal
                            \/ status = "RUNNING" /\ "join_crash" \in Condition
          /\ pc = "extend" => status = "RUNNING"
          /\ pc = "total" => status = "WAITING_AGENT"
          /\ sweep' = [pc |-> pc, member |-> m]
    /\ UNCHANGED <<group, results, entry, marker, copies, member, caller, status,
                   task, hist, faults>>

\* _group_blocks_compensation: the group is gone, aborted, or has this member's
\* result already.
SweepBlocked ==
    /\ \/ sweep.pc = "total" /\ WGoto(IF group.exists THEN "aborted" ELSE "drop")
       \/ sweep.pc = "aborted" /\ WGoto(IF group.aborted THEN "drop" ELSE "recorded")
       \/ /\ sweep.pc = "recorded"
          /\ WGoto(IF results[sweep.member] = "none" THEN "child" ELSE "drop")
    /\ UNCHANGED <<group, results, entry, marker, copies, member, caller, status,
                   task, hist, faults>>

\* Mutant: a member whose worker is gone keeps being renewed.
SweepChildRenews ==
    /\ sweep.pc = "child"
    /\ WGoto(IF member[sweep.member] \in {"sent", "overdue"} THEN "extend" ELSE "emit")
    /\ UNCHANGED <<group, results, entry, marker, copies, member, caller, status,
                   task, hist, faults>>

\* _triage_child: a member at work is renewed, for any other a failure is
\* synthesized, since no result is stored under its single-call key.
SweepChild ==
    /\ sweep.pc = "child"
    /\ WGoto(IF member[sweep.member] = "sent" THEN "extend" ELSE "emit")
    /\ UNCHANGED <<group, results, entry, marker, copies, member, caller, status,
                   task, hist, faults>>

SweepEmit ==
    /\ sweep.pc = "emit"
    /\ Deliver(sweep.member, "failure")
    /\ hist' = [hist EXCEPT !.standIns[sweep.member] = @ + 1]
    /\ WGoto("extend")
    /\ UNCHANGED <<group, results, entry, marker, member, caller, status, task,
                   faults>>

\* _extend_deadline, which re-creates an entry that is gone; or the drop.
SweepEnds ==
    /\ \/ sweep.pc = "extend" /\ entry' = entry \cup {sweep.member}
       \/ sweep.pc = "drop" /\ entry' = entry \ {sweep.member}
    /\ sweep' = IdleSweep
    /\ UNCHANGED <<group, results, marker, copies, member, caller, status, task,
                   hist, faults>>

SweepNext ==
    \/ \E m \in Member : SweepTakes(m)
    \/ SweepBlocked \/ SweepChild \/ SweepEmit \/ SweepEnds
-----------------------------------------------------------------------------
CallerNext ==
    \/ CallAgents \/ GroupAborts \/ AllDispatched \/ CallerUnwinds
    \/ \E m \in Member : Dispatch(m) \/ FlushStandIn(m)

Next ==
    \/ CallerNext
    \/ \E m \in Member : MemberReplies(m) \/ MemberOverdue(m)
    \/ GroupExpires
    \/ \E t \in Task : JoinNext(t) \/ JoinCrash(t)
    \/ SweepNext

Spec == Init /\ [][Next]_vars

\* Live workers keep running their activations, the sweep goes on, and leases
\* and ceilings run out.  A member need not answer.
Fairness ==
    /\ WF_vars(CallerNext)
    /\ \A t \in Task : WF_vars(JoinNext(t))
    /\ WF_vars(SweepNext)
    /\ \A m \in Member : WF_vars(MemberOverdue(m)) /\ WF_vars(SweepTakes(m))

LiveSpec == Spec /\ Fairness
-----------------------------------------------------------------------------
(* Properties.                                                             *)

\* The gate admitted no member's reply twice.
NoDoubleWake == \A m \in Member : hist.passed[m] <= 1

\* The handler gets the result of every member, however the activations of the
\* siblings interleave between storing and counting, as long as the gate admits
\* each member once (worker.py, the Group Join: HSET before HINCRBY, by the
\* sub-task's own id).
AggregateIsWhole ==
    \A t \in Task :
        task[t].pc = "handler" /\ task[t].joined /\ NoDoubleWake =>
            task[t].payload = Member

\* Under the same condition the aggregate goes out once (worker.py, the answer
\* of HINCRBY compared with total).
JoinsOnce == NoDoubleWake => hist.joins <= 1

\* A caller that has suspended on its group is resumed with an aggregate,
\* whichever members answer, are unavailable or lose their reply (context.py,
\* _queue_undispatched_member_failure; wait_sweeper.py).
GroupIsJoined == caller.pc = "done" /\ ~group.aborted ~> hist.joins > 0

\* context.py, call_agents: "The caller agent will be resumed with every task's
\* result, aggregated, ONLY when ALL tasks in the group are complete."
OnlyWhenAll ==
    \A t \in Task : task[t].pc = "handler" /\ task[t].joined =>
                     task[t].payload = Member

\* suspend-resume-liveness.md: a callee stores its result "before it sends the
\* reply, so a lost reply loses a message rather than an answer".
AnswerSurvivesLoss ==
    [][sweep.pc = "child" /\ sweep'.pc = "emit" =>
          member[sweep.member] # "answered"]_vars
=============================================================================
