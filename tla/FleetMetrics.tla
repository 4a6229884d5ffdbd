--------------------------- MODULE FleetMetrics ---------------------------
(***************************************************************************)
(* Observability snapshots of the fleet and the history kept of them.      *)
(*                                                                         *)
(* Every worker process runs a MetricsCollector; a Redis lock elects the   *)
(* one that writes.  A cycle takes or renews the lock (three round trips), *)
(* scans the online leases, reads each worker's lease again, reads each    *)
(* worker's counters, reads the control plane, and saves one history       *)
(* point.  The fleet moves in between.  The dashboard and MetricsReadClient *)
(* derive alerts, health and SLO windows from what was read.               *)
(*                                                                         *)
(* Time: a cycle takes at most MaxCycle ticks, the sleep between two takes *)
(* Interval, and stopping takes no tick.  Presentation is left out.        *)
(***************************************************************************)
EXTENDS Integers, Sequences, FiniteSets

CONSTANTS
    Watched,            \* workers of the fleet
    Job,                \* executions
    Collector,          \* processes running a MetricsCollector
    NoCollector,        \* the collector lock is free
    Interval,           \* interval_seconds
    CollectorTtl,       \* _lock_ttl_seconds
    MaxCycle,           \* bound on a cycle's duration
    ScanLimit,          \* worker_scan_limit
    Target,             \* success_ratio_target, in percent
    MaxPoints,          \* bound on the history kept
    MaxFleetEvents,     \* bound on what happens to the fleet
    MaxCycleFaults      \* bound on failed cycles, stops and deaths

ASSUME MetricsAssumption ==
    /\ NoCollector \notin Collector
    /\ Interval \in Nat \ {0} /\ CollectorTtl \in Nat \ {0} /\ MaxCycle \in Nat
    /\ ScanLimit \in Nat /\ Target \in 0..99
    /\ MaxPoints \in Nat \ {0} /\ MaxFleetEvents \in Nat
    /\ MaxCycleFaults \in Nat

\* There are workers, and finitely many of them and of executions.
ASSUME FleetAssumption ==
    /\ IsFiniteSet(Watched) /\ Watched # {}
    /\ IsFiniteSet(Job)

VARIABLES
    up,             \* workers whose online lease exists
    jobs,           \* the execution records the workers' counters sum up
    plane,          \* lengths of the deadletter and pending streams
    fleetEvents,
    cycleFaults,
    obsLock,        \* the collector lock's value
    obsTtl,         \* and what is left of its TTL
    cols,           \* cols[p]: a collector and the snapshot it builds
    points          \* the history, oldest first

metricsVars == <<up, jobs, plane, fleetEvents, cycleFaults, obsLock, obsTtl, cols, points>>

Ended == {"COMPLETED", "FAILED"}
JobRecord == [worker : Watched, status : {"none", "RUNNING"} \cup Ended]
Counts == [completed : Nat, failed : Nat, active : Nat]
NoCounts == [completed |-> 0, failed |-> 0, active |-> 0]
Point == [online : SUBSET Watched, counts : Counts, dead : Nat, pending : Nat]

Building == {"scan", "load", "sum", "save"}
ColPc == {"off", "lock", "owner", "renew", "sleep", "unread", "undelete"} \cup Building
ColRecord == [pc : ColPc, age : Nat, ids : SUBSET Watched, todo : SUBSET Watched,
              counts : Counts, wasOn : SUBSET Watched, wasOff : SUBSET Watched]
NewCol == [pc |-> "off", age |-> 0, ids |-> {}, todo |-> {}, counts |-> NoCounts,
           wasOn |-> {}, wasOff |-> {}]

MetricsTypeOK ==
    /\ up \subseteq Watched
    /\ jobs \in [Job -> JobRecord]
    /\ plane \in [dead : 0..1, pending : 0..1]
    /\ fleetEvents \in 0..MaxFleetEvents /\ cycleFaults \in 0..MaxCycleFaults
    /\ obsLock \in Collector \cup {NoCollector}
    /\ obsTtl \in 0..CollectorTtl
    /\ cols \in [Collector -> ColRecord]
    /\ points \in Seq(Point) /\ Len(points) <= MaxPoints

MetricsInit ==
    /\ up \in SUBSET Watched
    /\ jobs = [j \in Job |-> [worker |-> CHOOSE w \in Watched : TRUE, status |-> "none"]]
    /\ plane = [dead |-> 0, pending |-> 0]
    /\ fleetEvents = 0 /\ cycleFaults = 0
    /\ obsLock = NoCollector /\ obsTtl = 0
    /\ cols = [p \in Collector |-> NewCol]
    /\ points = <<>>

---------------------------------------------------------------------------
(* The fleet.  Every collector that is building notes who was seen up and  *)
(* down meanwhile: wasOn and wasOff are history, no action reads them.     *)

Witnessed(c, now) == [c EXCEPT !.wasOn = @ \cup now, !.wasOff = @ \cup (Watched \ now)]

FleetEvent ==
    /\ fleetEvents < MaxFleetEvents
    /\ fleetEvents' = fleetEvents + 1
    /\ UNCHANGED <<cycleFaults, obsLock, obsTtl, points>>

LeaseMoves(w) ==
    /\ FleetEvent
    /\ up' = IF w \in up THEN up \ {w} ELSE up \cup {w}
    /\ cols' = [p \in Collector |-> IF cols[p].pc \in Building
                                    THEN Witnessed(cols[p], up') ELSE cols[p]]
    /\ UNCHANGED <<jobs, plane>>

JobMoves(j, w, status) ==
    /\ FleetEvent
    /\ \/ jobs[j].status = "none" /\ w \in up /\ status = "RUNNING"
       \/ jobs[j].status = "RUNNING" /\ jobs[j].worker = w /\ w \in up /\ status \in Ended
    /\ jobs' = [jobs EXCEPT ![j] = [worker |-> w, status |-> status]]
    /\ UNCHANGED <<up, plane, cols>>

PlaneMoves(next) ==
    /\ FleetEvent
    /\ plane' = next
    /\ UNCHANGED <<up, jobs, cols>>

---------------------------------------------------------------------------
(* The collector lock.                                                     *)

Step(p, pc) == cols' = [cols EXCEPT ![p].pc = pc]
outside == <<up, jobs, plane, fleetEvents>>
fleet == <<outside, cycleFaults>>

CycleFault ==
    /\ cycleFaults < MaxCycleFaults
    /\ cycleFaults' = cycleFaults + 1

CollectorStarts(p) ==
    /\ cols[p].pc = "off"
    /\ cols' = [cols EXCEPT ![p] = [NewCol EXCEPT !.pc = "lock"]]
    /\ UNCHANGED <<fleet, obsLock, obsTtl, points>>

\* SET NX EX.
LockSets(p) ==
    /\ cols[p].pc = "lock"
    /\ IF obsLock = NoCollector
       THEN obsLock' = p /\ obsTtl' = CollectorTtl /\ Step(p, "scan")
       ELSE UNCHANGED <<obsLock, obsTtl>> /\ Step(p, "owner")
    /\ UNCHANGED <<fleet, points>>

\* EXPIRE before the owner is known.
LockReadsRenews(p) ==
    /\ cols[p].pc = "owner"
    /\ obsTtl' = IF obsLock = NoCollector THEN 0 ELSE CollectorTtl
    /\ IF obsLock = p THEN Step(p, "scan")
       ELSE cols' = [cols EXCEPT ![p].pc = "sleep", ![p].age = 0]
    /\ UNCHANGED <<fleet, obsLock, points>>

\* The key exists: GET, and a cycle that is not the owner's is skipped.
LockReads(p) ==
    /\ cols[p].pc = "owner"
    /\ IF obsLock = p THEN Step(p, "renew")
       ELSE cols' = [cols EXCEPT ![p].pc = "sleep", ![p].age = 0]
    /\ UNCHANGED <<fleet, obsLock, obsTtl, points>>

\* EXPIRE refreshes whatever key is there; its result is not looked at.
LockRenews(p) ==
    /\ cols[p].pc = "renew"
    /\ obsTtl' = IF obsLock = NoCollector THEN 0 ELSE CollectorTtl
    /\ Step(p, "scan")
    /\ UNCHANGED <<fleet, obsLock, points>>

\* _release_lock when the task is cancelled: GET, then DELETE if it was ours.
CollectorCancelled(p) ==
    /\ CycleFault
    /\ cols[p].pc \notin {"off", "unread", "undelete"}
    /\ Step(p, "unread")
    /\ UNCHANGED <<outside, obsLock, obsTtl, points>>

ReleaseReads(p) ==
    /\ cols[p].pc = "unread"
    /\ Step(p, IF obsLock = p THEN "undelete" ELSE "off")
    /\ UNCHANGED <<fleet, obsLock, obsTtl, points>>

ReleaseDeletes(p) ==
    /\ cols[p].pc = "undelete"
    /\ obsLock' = NoCollector /\ obsTtl' = 0
    /\ Step(p, "off")
    /\ UNCHANGED <<fleet, points>>

CollectorDies(p) ==
    /\ CycleFault
    /\ cols[p].pc # "off"
    /\ cols' = [cols EXCEPT ![p] = NewCol]
    /\ UNCHANGED <<outside, obsLock, obsTtl, points>>

---------------------------------------------------------------------------
(* Building a snapshot.                                                    *)

\* SCAN over the online leases, cut at the limit.
ScanLeases(p) ==
    /\ cols[p].pc = "scan"
    /\ \E ids \in SUBSET up :
          /\ Cardinality(ids) = IF Cardinality(up) < ScanLimit \/ ScanLimit = 0
                                THEN Cardinality(up) ELSE ScanLimit
          /\ cols' = [cols EXCEPT ![p] = Witnessed(
                         [@ EXCEPT !.pc = "load", !.ids = {}, !.todo = ids,
                                   !.counts = NoCounts, !.wasOn = {}, !.wasOff = {}], up)]
    /\ UNCHANGED <<fleet, obsLock, obsTtl, points>>

\* load_worker: the lease is read again, a worker without one is left out.
LoadWorker(p, w) ==
    /\ cols[p].pc = "load" /\ w \in cols[p].todo
    /\ cols' = [cols EXCEPT ![p].todo = @ \ {w},
                            ![p].ids = IF w \in up THEN @ \cup {w} ELSE @]
    /\ UNCHANGED <<fleet, obsLock, obsTtl, points>>

\* The load stops at the first worker.
WorkersLoadedEarly(p) ==
    /\ cols[p].pc = "load" /\ cols[p].ids # {}
    /\ cols' = [cols EXCEPT ![p].pc = "sum", ![p].todo = cols[p].ids]
    /\ UNCHANGED <<fleet, obsLock, obsTtl, points>>

WorkersLoaded(p) ==
    /\ cols[p].pc = "load" /\ cols[p].todo = {}
    /\ cols' = [cols EXCEPT ![p].pc = "sum", ![p].todo = cols[p].ids]
    /\ UNCHANGED <<fleet, obsLock, obsTtl, points>>

\* get_worker_execution_summary: the counters of one worker.
Counted(w) ==
    LET of(S) == Cardinality({j \in Job : jobs[j].worker = w /\ jobs[j].status \in S})
    IN  [completed |-> of({"COMPLETED"}), failed |-> of({"FAILED"}),
         active |-> of({"RUNNING"})]

\* _aggregate_status_counts
Plus(a, b) == [f \in DOMAIN a |-> a[f] + b[f]]

SummariseWorker(p, w) ==
    /\ cols[p].pc = "sum" /\ w \in cols[p].todo
    /\ cols' = [cols EXCEPT ![p].todo = @ \ {w}, ![p].counts = Plus(@, Counted(w))]
    /\ UNCHANGED <<fleet, obsLock, obsTtl, points>>

SummariesRead(p) ==
    /\ cols[p].pc = "sum" /\ cols[p].todo = {}
    /\ Step(p, "save")
    /\ UNCHANGED <<fleet, obsLock, obsTtl, points>>

\* The streams' lengths are read and the point is saved; the history is cut.
HistoryPoint(c) ==
    [online |-> c.ids, counts |-> c.counts, dead |-> plane.dead, pending |-> plane.pending]

SavePoint(p) ==
    /\ cols[p].pc = "save"
    /\ LET all == Append(points, HistoryPoint(cols[p]))
       IN  points' = IF Len(all) > MaxPoints THEN Tail(all) ELSE all
    /\ cols' = [cols EXCEPT ![p] = [NewCol EXCEPT !.pc = "sleep"]]
    /\ UNCHANGED <<fleet, obsLock, obsTtl>>

\* A Redis error anywhere in a cycle ends it.
CycleFails(p) ==
    /\ CycleFault
    /\ cols[p].pc \in Building \cup {"lock", "owner", "renew"}
    /\ cols' = [cols EXCEPT ![p] = [NewCol EXCEPT !.pc = "sleep"]]
    /\ UNCHANGED <<outside, obsLock, obsTtl, points>>

SleepEnds(p) ==
    /\ cols[p].pc = "sleep" /\ cols[p].age = Interval
    /\ cols' = [cols EXCEPT ![p].pc = "lock", ![p].age = 0]
    /\ UNCHANGED <<fleet, obsLock, obsTtl, points>>

Due(p) ==
    \/ cols[p].pc \in {"unread", "undelete"}
    \/ cols[p].pc = "sleep" /\ cols[p].age = Interval
    \/ cols[p].pc \notin {"off", "sleep"} /\ cols[p].age = MaxCycle

MetricsTick ==
    /\ \A p \in Collector : ~Due(p)
    /\ \E p \in Collector : cols[p].pc # "off" \/ obsTtl > 0
    /\ obsTtl' = IF obsTtl > 0 THEN obsTtl - 1 ELSE 0
    /\ obsLock' = IF obsTtl' = 0 THEN NoCollector ELSE obsLock
    /\ cols' = [p \in Collector |-> IF cols[p].pc = "off" THEN cols[p]
                                    ELSE [cols[p] EXCEPT !.age = @ + 1]]
    /\ UNCHANGED <<fleet, points>>

CollectorStep(p) ==
    \/ LockSets(p) \/ LockReads(p) \/ LockRenews(p) \/ ReleaseReads(p)
    \/ ReleaseDeletes(p) \/ ScanLeases(p) \/ WorkersLoaded(p) \/ SummariesRead(p)
    \/ SavePoint(p) \/ SleepEnds(p)
    \/ \E w \in Watched : LoadWorker(p, w) \/ SummariseWorker(p, w)

MetricsNext ==
    \/ \E p \in Collector :
          CollectorStarts(p) \/ CollectorStep(p) \/ CycleFails(p)
             \/ CollectorCancelled(p) \/ CollectorDies(p)
    \/ \E w \in Watched : LeaseMoves(w)
    \/ \E j \in Job, w \in Watched, s \in {"RUNNING"} \cup Ended : JobMoves(j, w, s)
    \/ \E next \in [dead : 0..1, pending : 0..1] : PlaneMoves(next)
    \/ MetricsTick

\* An awaited call returns or raises, a started loop goes on, time passes.
MetricsFairness ==
    /\ WF_metricsVars(MetricsTick)
    /\ \A p \in Collector : WF_metricsVars(CollectorStep(p))

MetricsSpec == MetricsInit /\ [][MetricsNext]_metricsVars /\ MetricsFairness

---------------------------------------------------------------------------
(* What readers derive from a point.                                       *)

\* _build_worker_alerts, _build_queue_alerts (default thresholds).
PlainAlerts(pt) ==
    (IF pt.online = {} THEN {"NO_WORKERS_ONLINE"} ELSE {})
    \cup (IF pt.counts.failed > 0 THEN {"FAILED_EXECUTIONS"} ELSE {})
    \cup (IF pt.pending > 0 THEN {"PENDING_DELIVERIES"} ELSE {})

\* _build_slo_summary and _build_slo_alerts.  A success ratio of zero is
\* falsy and read back as 1.
Breached(pt) ==
    LET terminal == pt.counts.completed + pt.counts.failed
    IN  100 * pt.counts.completed < Target * terminal

SloAlerts(pt) ==
    (IF pt.counts.completed # 0 /\ Breached(pt) THEN {"SLO_SUCCESS_RATIO"} ELSE {})
    \cup (IF pt.dead > 0 THEN {"SLO_DEADLETTER"} ELSE {})

\* Twice the error budget is spent: the alert is critical.
Burning(pt) ==
    LET terminal == pt.counts.completed + pt.counts.failed
    IN  Target * terminal - 100 * pt.counts.completed >= 2 * (100 - Target) * terminal

\* Dead letters are left to the warning alerts.
CriticalBySuccess(pt, alerts) ==
    \/ "NO_WORKERS_ONLINE" \in alerts
    \/ "SLO_SUCCESS_RATIO" \in alerts /\ Burning(pt)

\* What makes an alert critical.
Critical(pt, alerts) ==
    \/ alerts \cap {"NO_WORKERS_ONLINE", "SLO_DEADLETTER"} # {}
    \/ "SLO_SUCCESS_RATIO" \in alerts /\ Burning(pt)

\* _build_health_summary
Health(pt, alerts) ==
    IF Critical(pt, alerts) THEN "critical"
    ELSE IF alerts # {} THEN "warning" ELSE "healthy"

\* _build_data_flow: the status of its worker and control-plane nodes.
FlowCritical(pt) == pt.online = {} \/ pt.dead > 0

AtLeastZero(n) == IF n > 0 THEN n ELSE 0

\* _summarize_slo_window over the first and the last sample of a window.
SloWindow(first, last) ==
    LET grown(f) == AtLeastZero(last.counts[f] - first.counts[f])
        terminal(pt) == pt.counts.completed + pt.counts.failed
        all == AtLeastZero(terminal(last) - terminal(first))
    IN  [successful |-> grown("completed"),
         terminal |-> IF all > 0 THEN all ELSE grown("completed") + grown("failed")]

---------------------------------------------------------------------------
(* Properties.                                                             *)

\* History goes on as long as some process keeps its collector running: a
\* holder that dies, fails or is cancelled between two calls never keeps the
\* lock from the others for good.
CollectionResumes ==
    (\E p \in Collector : <>[](cols[p].pc # "off"))
        => []<>(\E p \in Collector : cols[p].pc = "save")

\* collector.py: "Only one worker process at a time will write history points".
OneCollectorWrites ==
    \A p, q \in Collector :
        cols[p].pc \in Building /\ cols[q].pc \in Building => p = q

\* A snapshot that is about to be saved lists only workers that were online
\* while it was built, and misses only workers that were offline for some time
\* while it was built: a worker that stays online is never reported lost.
BuildIsWitnessed ==
    \A p \in Collector : cols[p].pc = "save" =>
        /\ cols[p].ids \subseteq cols[p].wasOn
        /\ Watched \ cols[p].ids \subseteq cols[p].wasOff

\* Between two points over the same workers the SLO window's success ratio is
\* a fraction: what succeeded is part of what ended.  A point's counters are read
\* one worker after the other, so this leans on one collector writing at a time:
\* of two builds that overlap, one may count a worker's failures early and the
\* other one's completions late.
WindowRatioIsFraction ==
    \A i, k \in DOMAIN points :
        i < k /\ points[i].online = points[k].online =>
            LET win == SloWindow(points[i], points[k])
            IN  win.successful <= win.terminal

\* With an SLO policy the health summary is never better than the data-flow
\* picture drawn from the same snapshot.
FlowAgreesWithHealth ==
    \A i \in DOMAIN points : FlowCritical(points[i]) =>
        Health(points[i], PlainAlerts(points[i]) \cup SloAlerts(points[i])) = "critical"

\* What the readers derive from a point is consistent: the windows of
\* MetricsReadClient, and the two pictures the dashboard draws side by side.
ReadersAgree == WindowRatioIsFraction /\ FlowAgreesWithHealth

\* snapshot.py, SLOPolicy: "Service-level objectives used to derive SLI-aware
\* health alerts".  A point that misses the success objective raises its alert.
BreachRaisesAlert ==
    \A i \in DOMAIN points : Breached(points[i]) => "SLO_SUCCESS_RATIO" \in SloAlerts(points[i])
===========================================================================
