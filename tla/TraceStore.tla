---------------------------- MODULE TraceStore ----------------------------
(***************************************************************************)
(* One trace as by-framework records it in Redis and reads it back.        *)
(*                                                                         *)
(* Written by the client (trace root, client.dispatch span) and by every   *)
(* activation of every execution (a client.dispatch span per call, an      *)
(* agent.return span when it replies, its worker.execute span when it      *)
(* ends, the end of the trace root).  RedisSpanExporter reads the trace's  *)
(* metadata, and writes it and the span in a later round trip.  Read by    *)
(* metrics/snapshot.py, which rebuilds a tree from the stored list, and by *)
(* the TraceMerger of the trace query package.                             *)
(*                                                                         *)
(* An execution is activated by its dispatch and again by the reply of     *)
(* each child it waits for; activations of one execution may overlap.  An  *)
(* export may fail, and is then dropped.  Sampling, sanitising, OTel and   *)
(* the lookup indexes are left out.                                        *)
(***************************************************************************)
EXTENDS Naturals, Sequences, FiniteSets

CONSTANTS
    Hop,            \* executions of the trace
    NoHop,          \* no execution: the client's place in Caller
    Caller          \* the execution that dispatches each one, or NoHop

ASSUME TraceAssumption == NoHop \notin Hop /\ Caller \in [Hop -> Hop \cup {NoHop}]

\* A trace begins with what the client sends.
ASSUME RootAssumption == \E h \in Hop : Caller[h] = NoHop

VARIABLES
    clock,          \* milliseconds, one per activation and per dispatch
    runs,           \* runs[r]: where an activation is
    began,          \* execution_started_at of an activation
    outcome,        \* the status an activation ended with
    called,         \* executions that have been dispatched
    replied,        \* executions whose reply is on its caller's stream
    finished,       \* executions marked finished: their config snapshot is gone
    export,         \* the span each activation is exporting
    spans,          \* trace:spans, the stored list
    meta            \* trace:meta

traceVars == <<clock, runs, began, outcome, called, replied, finished, export,
               spans, meta>>

\* <<h, NoHop>>: the activation by h's dispatch; <<h, c>>: by the reply of c.
\* <<NoHop, NoHop>>: the client's send.
Client == <<NoHop, NoHop>>
Runs == {Client} \cup (Hop \X {NoHop})
            \cup {<<Caller[c], c>> : c \in {d \in Hop : Caller[d] # NoHop}}

SpanId == Hop \X {"client.dispatch", "worker.execute", "agent.return"}
NoSpan == <<NoHop, "">>
Span == [id : SpanId, parent : SpanId \cup {NoSpan}, start : Nat,
         status : {"COMPLETED", "FAILED", "WAITING_AGENT"}]
NoExport == [span |-> [id |-> NoSpan, parent |-> NoSpan, start |-> 0,
                       status |-> "COMPLETED"], seen |-> 0]
Roots == {h \in Hop : Caller[h] = NoHop}

TraceTypeOK ==
    /\ clock \in Nat
    /\ runs \in [Runs -> {"idle", "running", "calling", "returning", "marking",
                          "closing", "rooting", "over"}]
    /\ began \in [Runs -> Nat]
    /\ outcome \in [Runs -> {"", "COMPLETED", "FAILED", "WAITING_AGENT"}]
    /\ called \subseteq Hop /\ replied \subseteq Hop /\ finished \subseteq Hop
    /\ export \in [Runs -> {NoExport} \cup [span : Span, seen : Nat]]
    /\ spans \in Seq(Span)
    /\ meta \in [start : Nat, status : {"QUEUED", "COMPLETED", "FAILED", "WAITING_AGENT"},
                 end : {"", "COMPLETED", "FAILED", "WAITING_AGENT"}]

\* send_message has written the trace root and published the root's command.
TraceInit ==
    /\ clock = 1
    /\ runs = [r \in Runs |-> IF r = Client THEN "calling" ELSE "idle"]
    /\ began = [r \in Runs |-> 0]
    /\ outcome = [r \in Runs |-> ""]
    /\ called = Roots /\ replied = {} /\ finished = {}
    /\ export = [r \in Runs |-> NoExport]
    /\ spans = <<>>
    /\ meta = [start |-> 1, status |-> "QUEUED", end |-> ""]

---------------------------------------------------------------------------
(* Exporting a span: RedisSpanExporter.export_span.                        *)

\* The span an activation has to export in the phase it is in.
\* _framework_parent_span_id: the parent of worker.execute is the hop that
\* woke the activation.
SpanOf(r) ==
    LET h == r[1]
        new(id, parent, start, status) ==
            [id |-> id, parent |-> parent, start |-> start, status |-> status]
    IN  CASE r = Client ->
               new(<<CHOOSE x \in Roots : TRUE, "client.dispatch">>, NoSpan, 1, "COMPLETED")
          [] runs[r] = "returning" ->
               new(<<h, "agent.return">>, <<h, "worker.execute">>, clock, outcome[r])
          [] runs[r] = "closing" ->
               new(<<h, "worker.execute">>,
                   IF r[2] = NoHop THEN <<h, "client.dispatch">> ELSE <<r[2], "agent.return">>,
                   began[r], outcome[r])

\* The metadata is read; the span and its part of the metadata are written
\* later, over whatever is there by then.
ExportReads(r) ==
    /\ runs[r] \in {"returning", "closing"} \/ (r = Client /\ runs[r] = "calling")
    /\ export[r] = NoExport
    /\ export' = [export EXCEPT ![r] = [span |-> SpanOf(r), seen |-> meta.start]]
    /\ UNCHANGED <<clock, runs, began, outcome, called, replied, finished, spans, meta>>

\* What an activation does once a span is exported (or dropped): the reply
\* follows agent.return, the end of the trace root follows the worker.execute
\* of an activation whose command names no parent message.
AfterExport(r) ==
    /\ runs' = [runs EXCEPT ![r] =
                   CASE runs[r] = "calling" /\ r # Client -> "running"
                     [] runs[r] = "returning" -> "marking"
                     [] runs[r] = "closing" /\ r[1] \in Roots /\ r[2] = NoHop -> "rooting"
                     [] OTHER -> "over"]
    /\ replied' = IF runs[r] = "returning" THEN replied \cup {r[1]} ELSE replied

ExportWrites(r) ==
    /\ export[r] # NoExport
    /\ LET s == export[r].span IN
         /\ spans' = Append(spans, s)
         /\ meta' = [meta EXCEPT !.status = s.status,
                                 !.start = IF export[r].seen < s.start
                                           THEN export[r].seen ELSE s.start]
    /\ export' = [export EXCEPT ![r] = NoExport]
    /\ AfterExport(r)
    /\ UNCHANGED <<clock, began, outcome, called, finished>>

\* record_span swallows an exporter's failure.
ExportFails(r) ==
    /\ export[r] # NoExport
    /\ export' = [export EXCEPT ![r] = NoExport]
    /\ AfterExport(r)
    /\ UNCHANGED <<clock, began, outcome, called, finished, spans, meta>>

---------------------------------------------------------------------------
(* Activations.                                                            *)

RunBegins(r) ==
    /\ r # Client /\ runs[r] = "idle"
    /\ r[1] \in called \ finished
    /\ r[2] # NoHop => r[2] \in replied
    /\ runs' = [runs EXCEPT ![r] = "running"]
    /\ clock' = clock + 1
    /\ began' = [began EXCEPT ![r] = clock + 1]
    /\ UNCHANGED <<outcome, called, replied, finished, export, spans, meta>>

\* A reply to an execution that was marked finished: its config snapshot cannot
\* be restored, and the activation fails before the handler is called.
RunRefused(r) ==
    /\ r # Client /\ runs[r] = "idle"
    /\ r[1] \in finished /\ r[2] \in replied
    /\ runs' = [runs EXCEPT ![r] = "closing"]
    /\ outcome' = [outcome EXCEPT ![r] = "FAILED"]
    /\ clock' = clock + 1
    /\ began' = [began EXCEPT ![r] = clock + 1]
    /\ UNCHANGED <<called, replied, finished, export, spans, meta>>

\* _dispatch_single_task: the command goes out first, then its span.
CallsAgent(r, c) ==
    /\ r # Client /\ runs[r] = "running"
    /\ Caller[c] = r[1] /\ c \notin called
    /\ called' = called \cup {c}
    /\ runs' = [runs EXCEPT ![r] = "calling"]
    /\ clock' = clock + 1
    /\ export' = [export EXCEPT ![r] =
                     [span |-> [id |-> <<c, "client.dispatch">>,
                                parent |-> <<r[1], "worker.execute">>,
                                start |-> clock + 1, status |-> "COMPLETED"],
                      seen |-> meta.start]]
    /\ UNCHANGED <<began, outcome, replied, finished, spans, meta>>

\* The handler returned: its execution is done, and replies if it has a caller,
\* or it waits for a child whose reply it has not taken up yet.
RunEnds(r, status) ==
    /\ r # Client /\ runs[r] = "running"
    /\ status = "WAITING_AGENT" =>
          \E c \in called : Caller[c] = r[1] /\ runs[<<r[1], c>>] = "idle"
    /\ outcome' = [outcome EXCEPT ![r] = status]
    /\ runs' = [runs EXCEPT ![r] =
                   IF status # "WAITING_AGENT" /\ Caller[r[1]] # NoHop
                   THEN "returning" ELSE "marking"]
    /\ UNCHANGED <<clock, began, called, replied, finished, export, spans, meta>>

\* mark_execution_finished, before the activation's own span is recorded.
RunMarks(r) ==
    /\ runs[r] = "marking"
    /\ runs' = [runs EXCEPT ![r] = "closing"]
    /\ finished' = IF outcome[r] = "WAITING_AGENT" THEN finished ELSE finished \cup {r[1]}
    /\ UNCHANGED <<clock, began, outcome, called, replied, export, spans, meta>>

\* _write_trace_root_end.
RootEnds(r) ==
    /\ runs[r] = "rooting"
    /\ runs' = [runs EXCEPT ![r] = "over"]
    /\ meta' = [meta EXCEPT !.status = outcome[r], !.end = outcome[r]]
    /\ UNCHANGED <<clock, began, outcome, called, replied, finished, export, spans>>

TraceNext ==
    \E r \in Runs :
        \/ ExportReads(r)
        \/ ExportWrites(r)
        \/ ExportFails(r)
        \/ RunBegins(r)
        \/ RunRefused(r)
        \/ \E c \in Hop : CallsAgent(r, c)
        \/ \E status \in {"COMPLETED", "FAILED", "WAITING_AGENT"} : RunEnds(r, status)
        \/ RunMarks(r)
        \/ RootEnds(r)

TraceSpec == TraceInit /\ [][TraceNext]_traceVars

---------------------------------------------------------------------------
(* Reading: trees over the stored list.                                    *)

Stored == 1..Len(spans)

\* The entry a span id stands for in by_span_id: of equal ids, the last in
\* start order (and in the stored order among equal starts).
Latest(id) ==
    LET same == {i \in Stored : spans[i].id = id}
    IN  IF same = {} THEN 0
        ELSE CHOOSE i \in same : \A j \in same :
                spans[j].start < spans[i].start \/ (spans[j].start = spans[i].start /\ j <= i)

\* _build_span_tree: an entry hangs below the entry its parent id stands for;
\* what is reachable from the entries without one is shown.
SnapshotTree ==
    LET up(i) == Latest(spans[i].parent)
        shown[n \in 0..Len(spans)] ==
            IF n = 0 THEN {i \in Stored : up(i) = 0}
            ELSE LET above == shown[n - 1]
                 IN  above \cup {i \in Stored : up(i) \in above}
    IN  shown[Len(spans)]

\* Anything stored counts as the end.
SnapshotStatusByTerminal ==
    LET statuses == {spans[i].status : i \in Stored}
    IN  CASE "FAILED" \in statuses -> "FAILED"
          [] statuses = {} -> "UNKNOWN"
          [] OTHER -> "COMPLETED"

\* _trace_status, over the stored spans.
SnapshotStatus ==
    LET statuses == {spans[i].status : i \in Stored}
    IN  CASE "FAILED" \in statuses -> "FAILED"
          [] "FAILED" \notin statuses /\ "WAITING_AGENT" \in statuses -> "RUNNING"
          [] statuses = {"COMPLETED"} -> "COMPLETED"
          [] OTHER -> "UNKNOWN"

\* TraceMerger._dedupe_spans: one entry per id, whichever is more complete.
Deduped == {kept \in SUBSET Stored :
               /\ {spans[i].id : i \in kept} = {spans[i].id : i \in Stored}
               /\ \A i, j \in kept : spans[i].id = spans[j].id => i = j}

\* The entry an entry's parent id stands for, if it is kept.
ParentIn(kept, i) == {j \in kept : spans[j].id = spans[i].parent}

\* Chains of parents taken to end.
NeverHitsCycle(kept, i) == FALSE

\* An entry whose chain of parents never leaves kept (_cycle_diagnostics).
HitsCycle(kept, i) ==
    LET up[n \in 0..Cardinality(kept)] ==
            IF n = 0 THEN {i} ELSE UNION {ParentIn(kept, j) : j \in up[n - 1]}
    IN  up[Cardinality(kept)] # {}

\* TraceMerger._build_tree: an entry without a stored parent, or on the way
\* into a cycle, is a root.
MergedTree(kept) ==
    LET shown[n \in 0..Cardinality(kept)] ==
            IF n = 0 THEN {i \in kept : ParentIn(kept, i) = {} \/ HitsCycle(kept, i)}
            ELSE LET above == shown[n - 1]
                 IN  above \cup {i \in kept : ParentIn(kept, i) \cap above # {}}
    IN  shown[Cardinality(kept)]

---------------------------------------------------------------------------
(* Properties.                                                             *)

\* The trace query package shows every span that was stored, whatever the
\* parent links look like and whichever duplicate it keeps.
MergedTreeIsComplete ==
    \A kept \in Deduped : MergedTree(kept) = kept

\* The dashboard's snapshot never calls a trace completed while one of its
\* executions waits for a reply and the span of the segment that suspended is
\* stored.
WaitingTraceNotCompleted ==
    (\E r \in Runs : /\ outcome[r] = "WAITING_AGENT"
                     /\ r[1] \notin finished
                     /\ \E i \in Stored : spans[i].id = <<r[1], "worker.execute">>
                                          /\ spans[i].start = began[r])
        => SnapshotStatus # "COMPLETED"

\* The tree of the dashboard's trace snapshot holds every stored span.
SnapshotTreeIsComplete == SnapshotTree = Stored

\* The trace root is finalised with the root execution's own outcome: once
\* every activation is over, the end it carries is not that of a suspension.
RootEndIsFinal ==
    (/\ Roots \subseteq finished
     /\ \A r \in Runs : runs[r] \in {"idle", "over"})
        => meta.end # "WAITING_AGENT"
===========================================================================
