---------------------------- MODULE EventStream ----------------------------
(***************************************************************************)
(* The data stream of a session: what the root execution and a sub-agent   *)
(* of it append, how the framework closes it, and how GatewayClient reads  *)
(* it with and without a checkpoint.                                       *)
(*                                                                         *)
(* The root runs once per command: the first ask, then once per reply of   *)
(* its sub-agent.  A call that does not wait makes the callee the heir of  *)
(* the root's right to close the stream.  At most one callee is at work at *)
(* a time.  Contents and layout are left out; an entry is its event type.  *)
(***************************************************************************)
EXTENDS Naturals, Sequences, FiniteSets

CONSTANTS
    Reader,             \* processes that consume under one consumer name
    BatchCount,         \* count of a read
    MaxRootRuns,        \* bound on the runs of the root execution
    MaxEntries,         \* bound on the stream's length
    MaxStreamFaults     \* bound on failed appends and reader crashes

ASSUME StreamAssumption ==
    /\ BatchCount \in Nat \ {0} /\ MaxRootRuns \in Nat \ {0}
    /\ MaxEntries \in Nat /\ MaxStreamFaults \in Nat

VARIABLES
    entries,        \* the session's data stream
    root,           \* the root execution's current run
    sub,            \* the callee: "none", "runs" (a sub-agent) or "heir"
    dropped,        \* an append of the stream's end failed
    cut,            \* the right to close was used twice
    checkpoint,     \* the committed stream id of the consumer name
    readers,        \* readers[r]: a consume_data_messages iterator
    processed,      \* entries some caller's loop body completed
    watch,          \* an iter_data_messages iterator that started at "$"
    streamFaults

streamVars == <<entries, root, sub, dropped, cut, checkpoint, readers, processed, watch,
                streamFaults>>

RootPc == {"running", "reply", "close", "failing", "done"}
RootRun == [pc : RootPc, run : 1..MaxRootRuns, transferred : BOOLEAN, suspended : BOOLEAN,
            finished : BOOLEAN, cancelled : BOOLEAN]

\* Every run starts with its own right to close.
NewRun(n) == [pc |-> "running", run |-> n, transferred |-> FALSE, suspended |-> FALSE,
              finished |-> FALSE, cancelled |-> FALSE]

ReaderRecord == [pc : {"never", "off", "read", "body", "commit"}, at : Nat, todo : Seq(Nat)]
NewReader == [pc |-> "off", at |-> 0, todo |-> <<>>]

\* at: the id the next read starts after, the stream's end while "$".
WatchRecord == [pc : {"never", "off", "idle", "blocked"}, dollar : BOOLEAN, at : Nat, from : Nat,
                seen : SUBSET Nat]

StreamTypeOK ==
    /\ entries \in Seq({"delta", "log", "final", "end"}) /\ Len(entries) <= MaxEntries
    /\ root \in RootRun /\ sub \in {"none", "runs", "heir"}
    /\ dropped \in BOOLEAN /\ cut \in BOOLEAN
    /\ checkpoint \in 0..MaxEntries
    /\ readers \in [Reader -> ReaderRecord]
    /\ processed \subseteq 1..MaxEntries
    /\ watch \in WatchRecord
    /\ streamFaults \in 0..MaxStreamFaults

StreamInit ==
    /\ entries = <<>> /\ root = NewRun(1) /\ sub = "none" /\ dropped = FALSE /\ cut = FALSE
    /\ checkpoint = 0 /\ processed = {}
    /\ \E consuming \in BOOLEAN :      \* a session is read one way or the other
          LET pc(reads) == IF reads THEN "off" ELSE "never"
          IN  /\ readers = [r \in Reader |-> [NewReader EXCEPT !.pc = pc(consuming)]]
              /\ watch = [pc |-> pc(~consuming), dollar |-> TRUE, at |-> 0, from |-> 0,
                          seen |-> {}]
    /\ streamFaults = 0

reading == <<checkpoint, readers, processed, watch>>
writing == <<entries, root, sub, dropped, cut>>

Room == Len(entries) < MaxEntries
StreamFault ==
    /\ streamFaults < MaxStreamFaults
    /\ streamFaults' = streamFaults + 1

---------------------------------------------------------------------------
(* AgentContext and GatewayDataEmitter.                                    *)

\* The chunk's own type.
TypeAsGiven(isSubAgent, type) == type

\* A sub-agent's chunk is a reasoning log whatever its type.
EventType(isSubAgent, type) == IF isSubAgent THEN "log" ELSE type

\* emit_event: XADD and EXPIRE in one pipeline.
EmitEvent(type) == Room /\ entries' = Append(entries, type)

RootEmits ==
    /\ root.pc = "running"
    /\ EmitEvent(EventType(FALSE, "delta"))
    /\ UNCHANGED <<root, sub, dropped, cut, reading, streamFaults>>

\* A callee that was called without waiting has no source agent.
CalleeEmits(type) ==
    /\ sub # "none" /\ root.run < MaxRootRuns
    /\ sub = "heir" => type = "delta"
    /\ EmitEvent(EventType(sub = "runs", type))
    /\ UNCHANGED <<root, sub, dropped, cut, reading, streamFaults>>

\* call_agent: one that waits suspends the run, the other gives away the right
\* to close the stream.  A context that had given it away already gives it to
\* a second heir, or is followed by one that has it back.
RootDispatches(wait) ==
    /\ root.pc = "running" /\ sub = "none" /\ root.run < MaxRootRuns
    /\ sub' = IF wait THEN "runs" ELSE "heir"
    /\ root' = IF wait THEN [root EXCEPT !.suspended = TRUE]
                       ELSE [root EXCEPT !.transferred = TRUE]
    /\ cut' = (cut \/ root.transferred)
    /\ UNCHANGED <<entries, dropped, reading, streamFaults>>

---------------------------------------------------------------------------
(* GatewayWorker._handle_message from the handler's return on.             *)

\* The handler returns; a content or a reply_data is the final answer.
RootReturns(answer) ==
    /\ root.pc = "running"
    /\ root' = [root EXCEPT !.pc = IF answer THEN "reply" ELSE "close"]
    /\ UNCHANGED <<entries, sub, dropped, cut, reading, streamFaults>>

FinalAnswer ==
    /\ root.pc = "reply"
    /\ EmitEvent("final")
    /\ root' = [root EXCEPT !.pc = "close"]
    /\ UNCHANGED <<sub, dropped, cut, reading, streamFaults>>

\* The handler, a hook or an append raised, or a cancellation arrived: the
\* context's suspension no longer counts, and the stream is closed although a
\* sub-agent is at work and its reply will start another run.
RootRaises(cancel) ==
    /\ \/ ~cancel /\ StreamFault
       \/ cancel /\ UNCHANGED streamFaults
    /\ root.pc \in {"running", "reply"}
    /\ root' = [root EXCEPT !.pc = "failing", !.cancelled = cancel]
    /\ cut' = (cut \/ root.suspended)
    /\ UNCHANGED <<entries, sub, dropped, reading>>

\* should_emit_stream_end
MayEnd == ~root.transferred /\ ~root.finished /\ (root.pc = "close" => ~root.suspended)

CloseStream ==
    /\ root.pc \in {"close", "failing"}
    /\ IF MayEnd THEN EmitEvent("end") ELSE UNCHANGED entries
    /\ root' = [root EXCEPT !.pc = "done", !.finished = @ \/ MayEnd]
    /\ UNCHANGED <<sub, dropped, cut, reading, streamFaults>>

\* The stream counts as finished before the end is appended: when the append
\* raises, the error path does not try again.
CloseFails ==
    /\ StreamFault
    /\ root.pc \in {"close", "failing"} /\ MayEnd
    /\ root' = [root EXCEPT !.pc = IF root.pc = "close" THEN "failing" ELSE "done",
                            !.finished = TRUE]
    /\ dropped' = TRUE
    /\ UNCHANGED <<entries, sub, cut, reading>>

\* The reply of the sub-agent starts the next run, with a new context, even
\* of an execution that ended.  A cancelled root's sub-agent stays silent.
SubReplies ==
    /\ sub = "runs" /\ root.pc = "done"
    /\ sub' = "none"
    /\ root' = IF root.cancelled THEN root ELSE NewRun(root.run + 1)
    /\ UNCHANGED <<entries, dropped, cut, reading, streamFaults>>

\* The heir's own _handle_message closes the stream, however it ended.
HeirCloses ==
    /\ sub = "heir"
    /\ EmitEvent("end")
    /\ sub' = "none"
    /\ UNCHANGED <<root, dropped, cut, reading, streamFaults>>

---------------------------------------------------------------------------
(* consume_data_messages: the checkpoint follows the caller.               *)

GetCheckpoint(r) ==
    /\ readers[r].pc = "off"
    /\ readers' = [readers EXCEPT ![r] = [pc |-> "read", at |-> checkpoint, todo |-> <<>>]]
    /\ UNCHANGED <<writing, checkpoint, processed, watch, streamFaults>>

\* XREAD of at most BatchCount entries after an id.
ReadAfter(id) ==
    LET n == IF Len(entries) - id < BatchCount THEN Len(entries) - id ELSE BatchCount
    IN  [i \in 1..n |-> id + i]

ReadDataMessages(r) ==
    /\ readers[r].pc = "read" /\ readers[r].at < Len(entries)
    /\ readers' = [readers EXCEPT ![r].pc = "body", ![r].todo = ReadAfter(readers[r].at)]
    /\ UNCHANGED <<writing, checkpoint, processed, watch, streamFaults>>

\* The caller's loop body completes and asks for the next item.
BodyCompletes(r) ==
    /\ readers[r].pc = "body"
    /\ processed' = processed \cup {Head(readers[r].todo)}
    /\ readers' = [readers EXCEPT ![r].pc = "commit"]
    /\ UNCHANGED <<writing, checkpoint, watch, streamFaults>>

\* The whole batch is committed, as auto_commit does.
CommitBatch(r) ==
    /\ readers[r].pc = "commit"
    /\ checkpoint' = readers[r].todo[Len(readers[r].todo)]
    /\ LET rest == Tail(readers[r].todo)
       IN  readers' = [readers EXCEPT ![r].todo = rest, ![r].at = Head(readers[r].todo),
                                      ![r].pc = IF rest = <<>> THEN "read" ELSE "body"]
    /\ UNCHANGED <<writing, processed, watch, streamFaults>>

CommitDataMessage(r) ==
    /\ readers[r].pc = "commit"
    /\ checkpoint' = Head(readers[r].todo)
    /\ LET rest == Tail(readers[r].todo)
       IN  readers' = [readers EXCEPT ![r].todo = rest, ![r].at = Head(readers[r].todo),
                                      ![r].pc = IF rest = <<>> THEN "read" ELSE "body"]
    /\ UNCHANGED <<writing, processed, watch, streamFaults>>

ReaderStops(r) ==
    /\ StreamFault
    /\ readers[r].pc \notin {"never", "off"}
    /\ readers' = [readers EXCEPT ![r] = NewReader]
    /\ UNCHANGED <<writing, checkpoint, processed, watch>>

---------------------------------------------------------------------------
(* iter_data_messages from "$": only what arrives while a read blocks.     *)

IterReads ==
    /\ watch.pc \in {"off", "idle"}
    /\ watch' = [watch EXCEPT !.pc = "blocked",
                    !.at = IF watch.dollar THEN Len(entries) ELSE @,
                    !.from = IF watch.pc = "off" THEN Len(entries) ELSE @]
    /\ UNCHANGED <<writing, checkpoint, readers, processed, streamFaults>>

IterReturns ==
    /\ watch.pc = "blocked" /\ watch.at < Len(entries)
    /\ LET got == ReadAfter(watch.at)
       IN  watch' = [watch EXCEPT !.pc = "idle", !.dollar = FALSE, !.at = @ + Len(got),
                        !.seen = @ \cup {got[i] : i \in DOMAIN got}]
    /\ UNCHANGED <<writing, checkpoint, readers, processed, streamFaults>>

\* block_ms passes without an entry.
IterTimesOut ==
    /\ watch.pc = "blocked" /\ watch.at = Len(entries)
    /\ watch' = [watch EXCEPT !.pc = "idle"]
    /\ UNCHANGED <<writing, checkpoint, readers, processed, streamFaults>>

StreamNext ==
    \/ RootEmits \/ FinalAnswer \/ CloseStream \/ CloseFails \/ SubReplies \/ HeirCloses
    \/ \E t \in {"delta", "end"} : CalleeEmits(t)
    \/ \E b \in BOOLEAN : RootDispatches(b) \/ RootReturns(b) \/ RootRaises(b)
    \/ \E r \in Reader : \/ GetCheckpoint(r) \/ ReadDataMessages(r) \/ BodyCompletes(r)
                         \/ CommitDataMessage(r) \/ ReaderStops(r)
    \/ IterReads \/ IterReturns \/ IterTimesOut

StreamSpec == StreamInit /\ [][StreamNext]_streamVars

---------------------------------------------------------------------------
(* Properties.                                                             *)

\* A caller that stops at the end of the stream has seen everything: the end
\* is appended once and, unless the right to close was given away, after the
\* last run's answer and not while a sub-agent works for the root.
EndIsLast ==
    \A i \in DOMAIN entries : entries[i] = "end" =>
        /\ \A j \in DOMAIN entries : entries[j] = "end" => j = i
        /\ root.transferred \/ (i = Len(entries) /\ root.pc = "done" /\ sub = "none")

\* An execution that is done and waits for nothing has closed its stream,
\* whether it returned, raised or was resumed after it ended, or its heir did.
DoneIsClosed ==
    root.pc = "done" /\ sub = "none" => "end" \in {entries[i] : i \in DOMAIN entries}

\* The end of the stream comes once, last, and comes at all: unless a run was
\* cut or the end could not be appended (worker.py, "automatically send stream
\* end event here").
StreamEndsOnce == (cut \/ EndIsLast) /\ (dropped \/ DoneIsClosed)

\* client.py: an entry is committed only after its processing completed, so a
\* consumer that stops anywhere, or runs twice, skips nothing.
CommittedWasProcessed == 1..checkpoint \subseteq processed

\* client.py: iter_data_messages "continuously" consumes the stream: between
\* the first entry due to it and the last one it saw it misses none.
IterMissesNothing ==
    \A i \in 1..Len(entries) : watch.from < i /\ i <= watch.at => i \in watch.seen
===========================================================================
