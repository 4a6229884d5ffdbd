---------------------------- MODULE HarnessLoop ----------------------------
(***************************************************************************)
(* The native agent's tool-calling loop (by_framework_agent/loop.py) over  *)
(* the suspensions of one execution.                                       *)
(*                                                                         *)
(* A turn of the model asks for tool calls.  Local calls run at once; a    *)
(* call of a sub-agent is dispatched and the loop's messages are saved as  *)
(* the harness state; a question saves the state and is then sent to the   *)
(* user.  The reply starts another activation, on any worker, which loads  *)
(* and deletes the state and goes on with the loop.  Of a conversation     *)
(* only the calls that still lack a result are kept.                       *)
(***************************************************************************)
EXTENDS Naturals, FiniteSets

CONSTANTS
    ToolCall,           \* tool calls the model may make, each once
    KindOf,             \* KindOf[c]: "local", "sub" or "ask"
    MaxActivations,     \* bound on the activations of the execution
    MaxLoopFaults       \* bound on what raises, and on worker deaths

ASSUME HarnessAssumption ==
    /\ KindOf \in [ToolCall -> {"local", "sub", "ask"}]
    /\ MaxActivations \in Nat \ {0} /\ MaxLoopFaults \in Nat

Acts == 1..MaxActivations

VARIABLES
    acts,           \* acts[a]: the a-th activation; a > 1 resumes wait a
    waits,          \* waits[a]: the reply that starts activation a
    harness,        \* the saved harness state, a set with at most one element
    unused,         \* calls the model has not made yet
    cancelled,      \* cancel_requested of the execution's record
    deletes,        \* on_cancel_task tasks that have not deleted yet
    expired,        \* the saved state ran into its TTL
    loopFaults

loopVars == <<acts, waits, harness, unused, cancelled, deletes, expired, loopFaults>>

LoopPc == {"none", "load", "missing", "clear", "model", "tools", "dispatch",
           "suspend", "asksave", "asksend", "raise", "dropped", "end"}

\* open: calls in the messages that have no result.  turn: this turn's calls.
ActRecord == [pc : LoopPc, open : SUBSET ToolCall, turn : SUBSET ToolCall]
NewAct(pc) == [pc |-> pc, open |-> {}, turn |-> {}]

\* got: the sub-agent calls dispatched, then those the reply has a result for.
WaitRecord == [state : {"no", "out", "replied", "taken"}, kind : {"sub", "ask"},
               got : SUBSET ToolCall]
NoWait == [state |-> "no", kind |-> "sub", got |-> {}]
HarnessState == [open : SUBSET ToolCall, pending : SUBSET ToolCall]

HarnessTypeOK ==
    /\ acts \in [Acts -> ActRecord]
    /\ waits \in [Acts -> WaitRecord]
    /\ harness \in SUBSET HarnessState /\ Cardinality(harness) <= 1
    /\ unused \subseteq ToolCall
    /\ cancelled \in BOOLEAN /\ expired \in BOOLEAN
    /\ deletes \in 0..MaxActivations
    /\ loopFaults \in 0..MaxLoopFaults

HarnessInit ==
    /\ acts = [a \in Acts |-> NewAct(IF a = 1 THEN "model" ELSE "none")]
    /\ waits = [a \in Acts |-> NoWait]
    /\ harness = {}
    /\ unused = ToolCall
    /\ cancelled = FALSE /\ expired = FALSE
    /\ deletes = 0 /\ loopFaults = 0

Calls(a, kind) == {c \in acts[a].turn : KindOf[c] = kind}
Goes(a, pc) == acts' = [acts EXCEPT ![a].pc = pc]

LoopFault ==
    /\ loopFaults < MaxLoopFaults
    /\ loopFaults' = loopFaults + 1

---------------------------------------------------------------------------
(* run: one turn after the other.                                          *)

\* A stream of the model: without calls the loop completes, the first
\* ask_user call is taken alone and the turn's other calls are dropped.
ModelTurn(a, calls) ==
    /\ acts[a].pc = "model"
    /\ LET asks == {c \in calls : KindOf[c] = "ask"}
       IN  \/ /\ asks = {}
              /\ acts' = [acts EXCEPT ![a].turn = calls,
                             ![a].pc = IF calls = {} THEN "end" ELSE "tools"]
           \/ \E c \in asks : acts' = [acts EXCEPT ![a].turn = {c}, ![a].pc = "asksave"]
    /\ unused' = unused \ calls
    /\ UNCHANGED <<waits, harness, cancelled, deletes, expired, loopFaults>>

\* _execute_tool_calls: a tool that fails has an error as its result.  A turn
\* without a sub-agent call joins the messages with its results.
RunTools(a) ==
    /\ acts[a].pc = "tools"
    /\ IF Calls(a, "sub") = {}
       THEN acts' = [acts EXCEPT ![a].pc = "model", ![a].turn = {}]
       ELSE Goes(a, "dispatch")
    /\ UNCHANGED <<waits, harness, unused, cancelled, deletes, expired, loopFaults>>

NextWait == {a \in Acts : a > 1 /\ waits[a].state = "no"
                                 /\ \A b \in 2..(a - 1) : waits[b].state # "no"}

\* call_agent or call_agents: the sub-agents have the work before this returns.
DispatchSucceeds(a) ==
    /\ acts[a].pc = "dispatch"
    /\ \E n \in NextWait : waits' = [waits EXCEPT ![n] = [state |-> "out", kind |-> "sub",
                                                         got |-> Calls(a, "sub")]]
    /\ Goes(a, "suspend")
    /\ UNCHANGED <<harness, unused, cancelled, deletes, expired, loopFaults>>

\* Every sub-agent call gets an error result and the loop goes on.
DispatchFails(a) ==
    /\ LoopFault
    /\ acts[a].pc = "dispatch"
    /\ acts' = [acts EXCEPT ![a].pc = "model", ![a].turn = {}]
    /\ UNCHANGED <<waits, harness, unused, cancelled, deletes, expired>>

\* _suspend_turn: the history, then the state; QUEUED is returned.
SuspendTurn(a) ==
    /\ acts[a].pc = "suspend"
    /\ harness' = {[open |-> acts[a].open \cup Calls(a, "sub"), pending |-> Calls(a, "sub")]}
    /\ Goes(a, "end")
    /\ UNCHANGED <<waits, unused, cancelled, deletes, expired, loopFaults>>

\* The question first and the state next, as the sub-agent dispatch does.
AskSendsFirst(a) ==
    /\ acts[a].pc = "asksave"
    /\ \E n \in NextWait :
          waits' = [waits EXCEPT ![n] = [NoWait EXCEPT !.state = "out", !.kind = "ask"]]
    /\ Goes(a, "suspend")
    /\ UNCHANGED <<harness, unused, cancelled, deletes, expired, loopFaults>>

\* _suspend_for_ask_user: the state, then the question.
AskSaves(a) ==
    /\ acts[a].pc = "asksave"
    /\ harness' = {[open |-> acts[a].open \cup acts[a].turn, pending |-> acts[a].turn]}
    /\ Goes(a, "asksend")
    /\ UNCHANGED <<waits, unused, cancelled, deletes, expired, loopFaults>>

AskSends(a) ==
    /\ acts[a].pc = "asksend"
    /\ \E n \in NextWait :
          waits' = [waits EXCEPT ![n] = [NoWait EXCEPT !.state = "out", !.kind = "ask"]]
    /\ Goes(a, "end")
    /\ UNCHANGED <<harness, unused, cancelled, deletes, expired, loopFaults>>

\* The model, a callback, the history or Redis raises: the loop clears the
\* state and raises on.
LoopRaises(a) ==
    /\ LoopFault
    /\ acts[a].pc \in {"model", "tools", "suspend", "asksave", "asksend"}
    /\ Goes(a, "raise")
    /\ UNCHANGED <<waits, harness, unused, cancelled, deletes, expired>>

RaiseClears(a) ==
    /\ acts[a].pc = "raise"
    /\ harness' = {}
    /\ Goes(a, "end")
    /\ UNCHANGED <<waits, unused, cancelled, deletes, expired, loopFaults>>

---------------------------------------------------------------------------
(* The reply and the activation it starts.                                 *)

\* A sub-agent's reply, the answer of the user, or the Group Join, whose
\* aggregate may lack a member.
Replies(n, got) ==
    /\ waits[n].state = "out"
    /\ waits' = [waits EXCEPT ![n].state = "replied", ![n].got = got]
    /\ UNCHANGED <<acts, harness, unused, cancelled, deletes, expired, loopFaults>>

\* A worker takes the ResumeCommand.  Of a cancelled execution the state is
\* deleted (on_cancelled_resume) and nothing runs.
ResumeBegins(n) ==
    /\ waits[n].state = "replied" /\ acts[n].pc = "none"
    /\ waits' = [waits EXCEPT ![n].state = "taken"]
    /\ Goes(n, IF cancelled THEN "dropped" ELSE "load")
    /\ UNCHANGED <<harness, unused, cancelled, deletes, expired, loopFaults>>

DroppedClears(n) ==
    /\ acts[n].pc = "dropped"
    /\ harness' = {}
    /\ Goes(n, "end")
    /\ UNCHANGED <<waits, unused, cancelled, deletes, expired, loopFaults>>

\* _rehydrate_messages: GET, DELETE, and a result for every pending call: the
\* reply's content, the aggregate's, or an error for a missing member.
LoadState(n) ==
    /\ acts[n].pc = "load"
    /\ IF harness = {} THEN Goes(n, "missing")
       ELSE acts' = [acts EXCEPT ![n].pc = "clear",
                        ![n].open = (CHOOSE h \in harness : TRUE).open,
                        ![n].turn = (CHOOSE h \in harness : TRUE).pending]
    /\ UNCHANGED <<waits, harness, unused, cancelled, deletes, expired, loopFaults>>

\* Without the fillers for members that did not answer.
OnlyReceived(pending, got) == pending \cap got

\* _map_group_results_to_tool_calls with its fillers.
ResultsFor(pending, got) == (pending \cap got) \cup {c \in pending : c \notin got}

ClearState(n) ==
    /\ acts[n].pc = "clear"
    /\ harness' = {}
    /\ LET results == IF Cardinality(acts[n].turn) = 1 THEN acts[n].turn
                      ELSE ResultsFor(acts[n].turn, waits[n].got)
       IN  acts' = [acts EXCEPT ![n].open = @ \ results, ![n].turn = {}, ![n].pc = "model"]
    /\ UNCHANGED <<waits, unused, cancelled, deletes, expired, loopFaults>>

\* The RuntimeError leaves run before its try.
MissingRaises(n) ==
    /\ acts[n].pc = "missing"
    /\ Goes(n, "end")
    /\ UNCHANGED <<waits, harness, unused, cancelled, deletes, expired, loopFaults>>

---------------------------------------------------------------------------
(* Cancellation, expiry, death.                                            *)

Live(a) == acts[a].pc \notin {"none", "end"}

CancelRequested ==
    /\ ~cancelled
    /\ cancelled' = TRUE
    /\ UNCHANGED <<acts, waits, harness, unused, deletes, expired, loopFaults>>

\* The control message finds a live task: on_cancel_task is scheduled and the
\* task unwinds with CancelledError, which the loop does not catch.
CancelArrives(a) ==
    /\ cancelled /\ Live(a)
    /\ deletes' = deletes + 1
    /\ Goes(a, "end")
    /\ UNCHANGED <<waits, harness, unused, cancelled, expired, loopFaults>>

OnCancelTask ==
    /\ deletes > 0
    /\ deletes' = deletes - 1
    /\ harness' = {}
    /\ UNCHANGED <<acts, waits, unused, cancelled, expired, loopFaults>>

\* HARNESS_STATE_TTL_SECONDS
StateExpires ==
    /\ harness # {}
    /\ harness' = {}
    /\ expired' = TRUE
    /\ UNCHANGED <<acts, waits, unused, cancelled, deletes, loopFaults>>

WorkerDies(a) ==
    /\ LoopFault
    /\ Live(a)
    /\ Goes(a, "end")
    /\ UNCHANGED <<waits, harness, unused, cancelled, deletes, expired>>

HarnessNext ==
    \/ \E a \in Acts :
          \/ \E calls \in SUBSET unused : ModelTurn(a, calls)
          \/ RunTools(a) \/ DispatchSucceeds(a) \/ DispatchFails(a) \/ SuspendTurn(a)
          \/ AskSaves(a) \/ AskSends(a) \/ LoopRaises(a) \/ RaiseClears(a)
          \/ \E got \in SUBSET waits[a].got : Replies(a, got)
          \/ ResumeBegins(a) \/ DroppedClears(a) \/ LoadState(a) \/ ClearState(a)
          \/ MissingRaises(a) \/ CancelArrives(a) \/ WorkerDies(a)
    \/ CancelRequested \/ OnCancelTask \/ StateExpires

HarnessSpec == HarnessInit /\ [][HarnessNext]_loopVars

---------------------------------------------------------------------------
(* Properties.                                                             *)

\* The model is never called with a tool call that has no result, whatever
\* was suspended, resumed with a short aggregate, or failed to dispatch.
ToolCallsAnswered == \A a \in Acts : acts[a].pc = "model" => acts[a].open = {}

\* The answer to a question finds the state saved before it was asked, unless
\* the state ran into its TTL or the execution was cancelled.
AskAnswerFindsState ==
    \A a \in Acts :
        acts[a].pc = "missing" /\ waits[a].kind = "ask" => expired \/ cancelled

\* A conversation with the model stays whole across suspensions (loop.py, the
\* fillers of a short aggregate; the order of save and ask).
TurnsAreWhole == ToolCallsAnswered /\ AskAnswerFindsState

\* loop.py: no state for a resume means "(stray or expired resume)".
MissingStateMeansStray ==
    \A a \in Acts : acts[a].pc = "missing" => expired \/ cancelled
===========================================================================
