---------------------------- MODULE RunnerSlots ----------------------------
(***************************************************************************)
(* The event loop of one WorkerRunner: the consumer that reads batches     *)
(* from the agent-type streams and starts one task per message under a     *)
(* semaphore, the control loop that reads the worker's own stream and      *)
(* processes directly routed commands inline, and the shutdown that drains *)
(* them.  An action runs from one await to the next.                       *)
(*                                                                         *)
(* XREADGROUP hands an entry out once: what has been read and is not       *)
(* started stays in the group's pending list, which nothing re-reads.      *)
(***************************************************************************)
EXTENDS Integers, Sequences, SequencesExt, FiniteSets

CONSTANTS
    Msg,            \* messages
    Garbled,        \* those parse_message_data rejects
    Stream,         \* agent-type control streams, and ...
    CtrlStream,     \* ... the worker's own
    StreamOf,       \* by message: its stream
    MaxConcurrency, \* max_concurrency
    FetchCount,     \* fetch_count
    MaxSlotFaults   \* bound: failed reads, and signals during the drain

ASSUME SlotsAssumption ==
    /\ Garbled \subseteq Msg /\ CtrlStream \notin Stream /\ IsFiniteSet(Stream)
    /\ StreamOf \in [Msg -> Stream \cup {CtrlStream}]
    /\ MaxConcurrency \in Nat \ {0} /\ FetchCount \in Nat \ {0}
    /\ MaxSlotFaults \in Nat

VARIABLES
    unread,     \* by stream: entries the group has not handed out
    consumer,   \* _consume_loop: where it is and what is left of its batch
    permits,    \* the semaphore's value
    task,       \* by message: its task
    stranded,   \* read and never to be started
    control,    \* _control_loop, likewise
    lifecycle,  \* _admin_lifecycle
    denied,     \* _denied_agent_types
    mainPc,     \* WorkerRunner.start and _shutdown
    slotFaults

slotVars == <<unread, consumer, permits, task, stranded, control, lifecycle,
              denied, mainPc, slotFaults>>

\* ended: the task has released its slot; its done callback, which takes it
\* out of _running_tasks, is still queued.
TaskState == {"none", "running", "ended", "gone"}
MainPc == {"up", "evictwait", "cancel", "drain", "control", "down"}

SlotsTypeOK ==
    /\ unread \in [Stream \cup {CtrlStream} -> Seq(Msg)]
    /\ consumer \in [pc: {"top", "slot", "fetch", "block", "exited"},
                     batch: Seq(Msg)]
    /\ permits \in Int
    /\ task \in [Msg -> TaskState]
    /\ stranded \subseteq Msg
    /\ control \in [pc: {"read", "handle", "dead"}, batch: Seq(Msg)]
    /\ lifecycle \in {"active", "suspended", "evicted"}
    /\ denied \subseteq Stream
    /\ mainPc \in MainPc
    /\ slotFaults \in 0..MaxSlotFaults

SlotsInit ==
    /\ unread = [s \in Stream \cup {CtrlStream} |-> <<>>]
    /\ consumer = [pc |-> "top", batch |-> <<>>]
    /\ permits = MaxConcurrency
    /\ task = [m \in Msg |-> "none"]
    /\ stranded = {}
    /\ control = [pc |-> "read", batch |-> <<>>]
    /\ lifecycle = "active"
    /\ denied = {}
    /\ mainPc = "up"
    /\ slotFaults = 0

RunningTasks == {m \in Msg : task[m] \in {"running", "ended"}}
HoldsSlot == consumer.pc \in {"fetch", "block"}
Serving == mainPc \in {"up", "evictwait", "cancel"}   \* the consumer exists
InHand == ToSet(consumer.batch) \cup ToSet(control.batch)
Waiting == UNION {ToSet(unread[s]) : s \in DOMAIN unread}

SlotFault == slotFaults < MaxSlotFaults /\ slotFaults' = slotFaults + 1
-----------------------------------------------------------------------------
(* Reading.                                                                *)

MessageArrives(m) ==
    /\ m \notin Waiting \cup InHand \cup stranded /\ task[m] = "none"
    /\ unread' = [unread EXCEPT ![StreamOf[m]] = Append(@, m)]
    /\ UNCHANGED <<consumer, permits, task, stranded, control, lifecycle,
                   denied, mainPc, slotFaults>>

Count(s) == IF Len(unread[s]) < FetchCount THEN Len(unread[s]) ELSE FetchCount
Handed(s) == SubSeq(unread[s], 1, Count(s))
Left(s) == SubSeq(unread[s], Count(s) + 1, Len(unread[s]))
ReadFrom(S) == unread' = [s \in DOMAIN unread |-> IF s \in S THEN Left(s)
                                                            ELSE unread[s]]
Read(S) == UNION {ToSet(Handed(s)) : s \in S}
Unparsed(S) == Read(S) \cap Garbled

\* The entries of several streams in one batch, each stream's in its order;
\* parse errors dropped.
InOrder(batch, entries) ==
    SelectSeq(batch, LAMBDA m : m \in ToSet(entries))
        = SelectSeq(entries, LAMBDA m : m \notin Garbled)
Parsed(S) == {batch \in SetToSeqs(Read(S) \ Garbled) :
                 \A s \in S : InOrder(batch, Handed(s))}
ActiveStreams == Stream \ denied

\* The top of the loop: a suspended consumer sleeps, an evicted one returns.
ConsumerLoops ==
    /\ consumer.pc = "top" /\ Serving
    /\ lifecycle # "suspended"
    /\ consumer' = [consumer EXCEPT
          !.pc = IF lifecycle = "evicted" THEN "exited" ELSE "slot"]
    /\ UNCHANGED <<unread, permits, task, stranded, control, lifecycle,
                   denied, mainPc, slotFaults>>

\* _acquire_slot polls the number of tasks; acquire() then takes a free
\* permit without yielding.
SlotOpen == Cardinality(RunningTasks) < MaxConcurrency

AcquireSlot ==
    /\ consumer.pc = "slot" /\ consumer.batch = <<>> /\ Serving
    /\ SlotOpen /\ permits > 0
    /\ permits' = permits - 1
    /\ consumer' = [consumer EXCEPT !.pc = "fetch"]
    /\ UNCHANGED <<unread, task, stranded, control, lifecycle, denied, mainPc,
                   slotFaults>>

\* create_task for the head of the batch, with the slot already held.
StartHead(batch) ==
    /\ task' = [task EXCEPT ![Head(batch)] = "running"]
    /\ consumer' = [pc |-> IF Len(batch) = 1 THEN "top" ELSE "slot",
                    batch |-> Tail(batch)]

\* The messages read start with their first task, or the slot goes back.
BatchRead(batch, emptyPc) ==
    IF batch # <<>> THEN StartHead(batch) /\ UNCHANGED permits
    ELSE /\ consumer' = [consumer EXCEPT !.pc = emptyPc]
         /\ permits' = IF emptyPc = "top" THEN permits + 1 ELSE permits
         /\ UNCHANGED task

\* The pass ends with the first stream that is allowed.
FetchFirstOnly ==
    /\ consumer.pc = "fetch" /\ Serving
    /\ LET first == IF ActiveStreams = {} THEN {} ELSE {CHOOSE s \in ActiveStreams : TRUE}
       IN  /\ ReadFrom(first)
           /\ stranded' = stranded \cup Unparsed(first)
           /\ \E batch \in Parsed(first) : BatchRead(batch, "top")
    /\ UNCHANGED <<control, lifecycle, denied, mainPc, slotFaults>>

\* Phase one: every active stream without blocking.
FetchFirstPass ==
    /\ consumer.pc = "fetch" /\ Serving
    /\ ReadFrom(ActiveStreams)
    /\ stranded' = stranded \cup Unparsed(ActiveStreams)
    /\ \E batch \in Parsed(ActiveStreams) :
          BatchRead(batch, IF ActiveStreams = {} THEN "top" ELSE "block")
    /\ UNCHANGED <<control, lifecycle, denied, mainPc, slotFaults>>

\* Phase two: one stream, blocking until an entry or the timeout.
FetchBlocking ==
    /\ consumer.pc = "block" /\ Serving
    /\ \E s \in Stream :
          /\ ReadFrom({s})
          /\ stranded' = stranded \cup Unparsed({s})
          /\ \E batch \in Parsed({s}) : BatchRead(batch, "top")
    /\ UNCHANGED <<control, lifecycle, denied, mainPc, slotFaults>>

\* The slot is not given back.
FetchFailsKeepsSlot ==
    /\ consumer.pc \in {"fetch", "block"} /\ Serving
    /\ SlotFault
    /\ consumer' = [consumer EXCEPT !.pc = "top"]
    /\ UNCHANGED <<unread, permits, task, stranded, control, lifecycle, denied,
                   mainPc>>

\* One of the reads raises: gather() passes the error on and the entries the
\* other reads returned go with it.  The slot is given back.
FetchFails ==
    /\ consumer.pc \in {"fetch", "block"} /\ Serving
    /\ SlotFault
    /\ \E S \in SUBSET Stream :
          /\ consumer.pc = "fetch" => S \subseteq ActiveStreams
          /\ consumer.pc = "block" => Cardinality(S) <= 1
          /\ ReadFrom(S)
          /\ stranded' = stranded \cup Read(S)
    /\ consumer' = [consumer EXCEPT !.pc = "top"]
    /\ permits' = permits + 1
    /\ UNCHANGED <<task, control, lifecycle, denied, mainPc>>

\* The next message of the batch waits for a slot of its own.
StartNext ==
    /\ consumer.pc = "slot" /\ consumer.batch # <<>> /\ Serving
    /\ SlotOpen /\ permits > 0
    /\ permits' = permits - 1
    /\ StartHead(consumer.batch)
    /\ UNCHANGED <<unread, stranded, control, lifecycle, denied, mainPc,
                   slotFaults>>
-----------------------------------------------------------------------------
(* Tasks, and the control loop.                                            *)

\* _process_and_release: the finally block.
TaskEnds(m) ==
    /\ task[m] = "running" /\ mainPc # "down"
    /\ task' = [task EXCEPT ![m] = "ended"]
    /\ permits' = permits + 1
    /\ UNCHANGED <<unread, consumer, stranded, control, lifecycle, denied,
                   mainPc, slotFaults>>

TaskDiscarded(m) ==
    /\ task[m] = "ended"
    /\ task' = [task EXCEPT ![m] = "gone"]
    /\ UNCHANGED <<unread, consumer, permits, stranded, control, lifecycle,
                   denied, mainPc, slotFaults>>

\* _run_control_once reads a batch; an error leaves the loop for good, and
\* nobody watches _control_task.
ControlReads ==
    /\ control.pc = "read" /\ mainPc # "down"
    /\ unread[CtrlStream] # <<>>
    /\ control' = [pc |-> "handle", batch |-> Handed(CtrlStream)]
    /\ ReadFrom({CtrlStream})
    /\ UNCHANGED <<consumer, permits, task, stranded, lifecycle, denied,
                   mainPc, slotFaults>>

\* The read fails, or the acknowledgement of a command that was processed:
\* the rest of its batch is stranded.
ControlDies ==
    /\ control.pc # "dead" /\ mainPc # "down"
    /\ SlotFault
    /\ control' = [pc |-> "dead", batch |-> <<>>]
    /\ IF control.pc = "read" THEN UNCHANGED <<task, stranded>>
       ELSE /\ task' = [task EXCEPT ![Head(control.batch)] = "gone"]
            /\ stranded' = stranded \cup ToSet(Tail(control.batch))
    /\ UNCHANGED <<unread, consumer, permits, lifecycle, denied, mainPc>>

\* A directly routed command is processed inline, outside the slots; a
\* garbled one is logged and acknowledged.
ControlHandles ==
    /\ control.pc = "handle" /\ mainPc # "down"
    /\ task' = [task EXCEPT ![Head(control.batch)] = "gone"]
    /\ control' = [pc |-> IF Len(control.batch) = 1 THEN "read" ELSE "handle",
                   batch |-> Tail(control.batch)]
    /\ UNCHANGED <<unread, consumer, permits, stranded, lifecycle, denied,
                   mainPc, slotFaults>>

\* Admin commands and the heartbeat set the lifecycle; eviction is final.
LifecycleChanges ==
    /\ lifecycle # "evicted" /\ mainPc = "up"
    /\ lifecycle' \in {"active", "suspended", "evicted"} \ {lifecycle}
    /\ UNCHANGED <<unread, consumer, permits, task, stranded, control, denied,
                   mainPc, slotFaults>>

DenylistRefreshes ==
    /\ mainPc = "up"
    /\ denied' \in {{}} \cup {{s} : s \in Stream}
    /\ denied' # denied
    /\ UNCHANGED <<unread, consumer, permits, task, stranded, control,
                   lifecycle, mainPc, slotFaults>>
-----------------------------------------------------------------------------
(* start() leaves its loop, and _shutdown.                                 *)

\* The consumer returned after an eviction; a forced one is not waited for.
EvictionSeen ==
    /\ mainPc = "up" /\ consumer.pc = "exited"
    /\ mainPc' \in {"evictwait", "cancel"}
    /\ UNCHANGED <<unread, consumer, permits, task, stranded, control,
                   lifecycle, denied, slotFaults>>

\* wait_for_tasks returns, at the latest on its timeout.
EvictionWaited ==
    /\ mainPc = "evictwait"
    /\ mainPc' = "cancel"
    /\ UNCHANGED <<unread, consumer, permits, task, stranded, control,
                   lifecycle, denied, slotFaults>>

\* A signal, or a heartbeat that raised.
ShutdownRequested ==
    /\ mainPc = "up"
    /\ mainPc' = "cancel"
    /\ UNCHANGED <<unread, consumer, permits, task, stranded, control,
                   lifecycle, denied, slotFaults>>

\* The consumer is cancelled at its await: the rest of its batch, and what a
\* read under way has been handed, is stranded.  CancelledError passes the
\* handler of _run_once, so a held slot is not returned.
CancelConsumer ==
    /\ mainPc = "cancel"
    /\ \E S \in SUBSET Stream :
          /\ S # {} => HoldsSlot
          /\ ReadFrom(S)
          /\ stranded' = stranded \cup ToSet(consumer.batch) \cup Read(S)
    /\ consumer' = [pc |-> "exited", batch |-> <<>>]
    /\ mainPc' = "drain"
    /\ UNCHANGED <<permits, task, control, lifecycle, denied, slotFaults>>

\* The drain waits for every slot to come back.
TasksDrainedBySlots ==
    /\ mainPc = "drain"
    /\ permits = MaxConcurrency
    /\ mainPc' = "control"
    /\ UNCHANGED <<unread, consumer, permits, task, stranded, control,
                   lifecycle, denied, slotFaults>>

\* gather() over the running tasks.
TasksDrained ==
    /\ mainPc = "drain"
    /\ \A m \in Msg : task[m] # "running"
    /\ mainPc' = "control"
    /\ UNCHANGED <<unread, consumer, permits, task, stranded, control,
                   lifecycle, denied, slotFaults>>

\* A second signal cancels _shutdown itself: gather() passes it on to the
\* tasks, and the rest of the shutdown is skipped.
DrainInterrupted ==
    /\ mainPc = "drain"
    /\ SlotFault
    /\ task' = [m \in Msg |-> IF task[m] \in {"running", "ended"} THEN "gone"
                              ELSE task[m]]
    /\ mainPc' = "down"
    /\ UNCHANGED <<unread, consumer, permits, stranded, control, lifecycle,
                   denied>>

\* The control loop is cancelled inside whatever it processes inline.
CancelControl ==
    /\ mainPc = "control"
    /\ stranded' = stranded \cup ToSet(control.batch)
    /\ control' = [pc |-> "dead", batch |-> <<>>]
    /\ mainPc' = "down"
    /\ UNCHANGED <<unread, consumer, permits, task, lifecycle, denied, slotFaults>>
-----------------------------------------------------------------------------
ConsumerStep == ConsumerLoops \/ AcquireSlot \/ FetchFirstPass \/ FetchBlocking
                \/ StartNext
TaskStep(m) == TaskEnds(m) \/ TaskDiscarded(m)
ShutdownStep == EvictionSeen \/ EvictionWaited \/ CancelConsumer
                \/ TasksDrained \/ CancelControl

SlotsNext ==
    \/ ConsumerStep \/ FetchFails \/ ControlReads \/ ControlHandles \/ ControlDies
    \/ \E m \in Msg : MessageArrives(m) \/ TaskStep(m)
    \/ LifecycleChanges \/ DenylistRefreshes
    \/ ShutdownStep \/ ShutdownRequested \/ DrainInterrupted

\* The loop runs every ready callback, and handlers end.
SlotsFairness ==
    /\ WF_slotVars(ConsumerStep) /\ WF_slotVars(ShutdownStep)
    /\ \A m \in Msg : WF_slotVars(TaskStep(m))

SlotsSpec == SlotsInit /\ [][SlotsNext]_slotVars /\ SlotsFairness
-----------------------------------------------------------------------------
(* Properties.                                                             *)

\* While the consumer lives, every permit is free, held by it for the batch it
\* is reading, or held by a task that has not ended: no path of _run_once
\* leaks a slot or returns one twice, and so at most MaxConcurrency tasks run.
SlotsConserved ==
    Serving => permits + Cardinality({m \in Msg : task[m] = "running"})
               + (IF HoldsSlot THEN 1 ELSE 0) = MaxConcurrency

\* An eviction loses nothing: it takes effect between two batches, so a
\* consumer that returns has started every parsable message it has read.
EvictionStartsWhatItRead ==
    consumer.pc = "exited" /\ Serving /\ slotFaults = 0 =>
        stranded \subseteq Garbled

\* What the consumer has in hand is accounted for: its slots and its batch
\* (runner.py, _run_once and the finally block of _process_and_release).
ConsumerAccounts == SlotsConserved /\ EvictionStartsWhatItRead

\* A worker that stays in service reads every message of an agent type that
\* stays allowed, however its slots fill and whichever stream it blocks on.
StreamsAreRead ==
    \A m \in Msg \ Garbled :
        StreamOf[m] \in Stream /\ m \in Waiting ~>
            \/ m \notin Waiting
            \/ lifecycle # "active" \/ mainPc # "up" \/ StreamOf[m] \in denied

\* A shutdown that has begun ends, with no task left running.
ShutdownEnds ==
    mainPc = "cancel" ~> mainPc = "down" /\ \A m \in Msg : task[m] # "running"
=============================================================================
