----------------------- MODULE Observability_proofs -----------------------
(***************************************************************************)
(* What the program says of itself, for every value of the constants: the  *)
(* fleet's snapshots (SnapshotsAreWitnessed, PicturesAgree) and the traces *)
(* of a call tree (MergedTreesAreComplete, WaitingIsNotCompleted); at the  *)
(* end, the type of the composition the safety run checks                  *)
(* (PartsTypeCorrect).                                                     *)
(***************************************************************************)
EXTENDS MCServices, Services_proofs

-----------------------------------------------------------------------------
(* FleetMetrics: the snapshots of the fleet.                               *)

\* No scan is cut: the limit covers the fleet, or there is none.
ScanCoversFleet == ScanLimit = 0 \/ Cardinality(Watched) <= ScanLimit

\* The snapshot c, while the fleet is at now: the leases it lists were seen, and
\* unless its scan was cut the ones it has given up were missed.
Snapping == {"load", "sum", "save"}
WitnessedBy(c, now) ==
    ScanCoversFleet /\ c.pc \in Snapping =>
        /\ now \subseteq c.wasOn /\ Watched \ now \subseteq c.wasOff
        /\ c.ids \subseteq c.wasOn
        /\ Watched \ (c.ids \cup (IF c.pc = "load" THEN c.todo ELSE {})) \subseteq c.wasOff

\* Every snapshot under way has noted what it lists and what it leaves out.
MetricsOK == MetricsTypeOK /\ \A p \in Collector : WitnessedBy(cols[p], up)

\* What a record of a collector is made of.
LEMMA NewColTyped == NewCol \in ColRecord /\ NewCol.pc = "off"
BY DEF NewCol, ColRecord, ColPc, Building, Counts, NoCounts

\* One collector does something; the fleet and the lock stand still.
LEMMA OneCollector ==
    ASSUME MetricsOK, NEW p \in Collector, NEW c \in ColRecord, WitnessedBy(c, up),
           cols' = [cols EXCEPT ![p] = c],
           UNCHANGED <<up, jobs, plane, fleetEvents, points>>,
           cycleFaults' \in 0..MaxCycleFaults,
           obsLock' \in Collector \cup {NoCollector}, obsTtl' \in 0..CollectorTtl
    PROVE  MetricsOK'
<1>1. cols \in [Collector -> ColRecord]
  BY DEF MetricsOK, MetricsTypeOK
<1>2. cols' \in [Collector -> ColRecord]
  BY <1>1
<1>3. \A q \in Collector : WitnessedBy(cols'[q], up)
  BY <1>1 DEF MetricsOK
<1>4. \A q \in Collector : WitnessedBy(cols[q], up)'
  BY <1>3 DEF WitnessedBy
<1> QED
  BY <1>2, <1>4 DEF MetricsOK, MetricsTypeOK

\* A collector that is not reading leases has nothing to show for it.
LEMMA MovesTo ==
    ASSUME MetricsOK, NEW p \in Collector, NEW pc \in ColPc,
           pc \in Snapping => pc = "save" /\ cols[p].pc = "sum"
    PROVE  /\ [cols[p] EXCEPT !.pc = pc] \in ColRecord
           /\ WitnessedBy([cols[p] EXCEPT !.pc = pc], up)
<1>1. cols[p] \in ColRecord /\ WitnessedBy(cols[p], up)
  BY DEF MetricsOK, MetricsTypeOK
<1>2. PICK c : c = [cols[p] EXCEPT !.pc = pc]
  OBVIOUS
<1>3. c \in ColRecord
  BY <1>1, <1>2 DEF ColRecord
<1>4. /\ c.pc = pc /\ c.ids = cols[p].ids /\ c.todo = cols[p].todo
      /\ c.wasOn = cols[p].wasOn /\ c.wasOff = cols[p].wasOff
  BY <1>1, <1>2 DEF ColRecord
<1>5. WitnessedBy(c, up)
  BY <1>1, <1>4 DEF WitnessedBy, Snapping
<1> QED
  BY <1>2, <1>3, <1>5

\* The same, its age reset.
LEMMA FallsAsleep ==
    ASSUME MetricsOK, NEW p \in Collector, NEW pc \in {"sleep", "lock"}
    PROVE  /\ [cols[p] EXCEPT !.pc = pc, !.age = 0] \in ColRecord
           /\ WitnessedBy([cols[p] EXCEPT !.pc = pc, !.age = 0], up)
<1>1. cols[p] \in ColRecord
  BY DEF MetricsOK, MetricsTypeOK
<1>2. PICK c : c = [cols[p] EXCEPT !.pc = pc, !.age = 0]
  OBVIOUS
<1>3. c \in ColRecord /\ c.pc = pc
  BY <1>1, <1>2 DEF ColRecord, ColPc
<1>4. WitnessedBy(c, up)
  BY <1>3 DEF WitnessedBy, Snapping
<1> QED
  BY <1>2, <1>3, <1>4

\* The steps of the collector lock, and a collector that starts, fails or ends.
LEMMA LockKeeps ==
    ASSUME MetricsOK, NEW p \in Collector,
           \/ CollectorStarts(p) \/ LockSets(p) \/ LockReads(p) \/ LockRenews(p)
           \/ ReleaseReads(p) \/ ReleaseDeletes(p) \/ CollectorCancelled(p)
           \/ CollectorDies(p) \/ CycleFails(p) \/ SleepEnds(p) \/ SummariesRead(p)
    PROVE  MetricsOK'
<1>1. PICK c : /\ cols' = [cols EXCEPT ![p] = c]
               /\ c \in ColRecord /\ WitnessedBy(c, up)
  <2> DEFINE fresh(pc) == [NewCol EXCEPT !.pc = pc]
             moved(pc) == [cols[p] EXCEPT !.pc = pc]
             reset(pc) == [cols[p] EXCEPT !.pc = pc, !.age = 0]
  <2>1. \A pc \in {"lock", "sleep"} : fresh(pc) \in ColRecord /\ WitnessedBy(fresh(pc), up)
    <3> SUFFICES ASSUME NEW pc \in {"lock", "sleep"}
                 PROVE  fresh(pc) \in ColRecord /\ WitnessedBy(fresh(pc), up)
      OBVIOUS
    <3>1. fresh(pc) \in ColRecord /\ fresh(pc).pc = pc
      BY NewColTyped DEF ColRecord, ColPc
    <3> HIDE DEF fresh
    <3> QED
      BY <3>1 DEF WitnessedBy, Snapping
  <2>2. NewCol \in ColRecord /\ WitnessedBy(NewCol, up)
    BY NewColTyped DEF WitnessedBy, Snapping
  <2>3. \A pc \in {"scan", "owner", "renew", "unread", "undelete", "off"} :
           moved(pc) \in ColRecord /\ WitnessedBy(moved(pc), up)
    <3>1. \A pc \in {"scan", "owner", "renew", "unread", "undelete", "off"} :
             pc \in ColPc /\ pc \notin Snapping
      BY DEF ColPc, Building, Snapping
    <3> QED
      BY <3>1, MovesTo
  <2>4. \A pc \in {"lock", "sleep"} : reset(pc) \in ColRecord /\ WitnessedBy(reset(pc), up)
    BY FallsAsleep
  <2>5. CASE CollectorStarts(p)
    BY <2>1, <2>5 DEF CollectorStarts
  <2>6. CASE CollectorDies(p) \/ CycleFails(p)
    BY <2>1, <2>2, <2>6 DEF CollectorDies, CycleFails
  <2>7. CASE LockReads(p) \/ SleepEnds(p)
    <3>1. \/ \E pc \in {"renew"} : cols' = [cols EXCEPT ![p] = moved(pc)]
          \/ \E pc \in {"lock", "sleep"} : cols' = [cols EXCEPT ![p] = reset(pc)]
      BY <2>7 DEF LockReads, SleepEnds, Step
    <3> HIDE DEF moved, reset
    <3> QED
      BY <2>3, <2>4, <3>1
  <2>8. CASE LockSets(p) \/ LockRenews(p) \/ ReleaseReads(p) \/ ReleaseDeletes(p)
             \/ CollectorCancelled(p)
    <3>1. \E pc \in {"scan", "owner", "unread", "undelete", "off"} :
             cols' = [cols EXCEPT ![p] = moved(pc)]
      BY <2>8 DEF LockSets, LockRenews, ReleaseReads, ReleaseDeletes,
                  CollectorCancelled, Step
    <3> HIDE DEF moved
    <3> QED
      BY <2>3, <3>1
  <2>9. CASE SummariesRead(p)
    <3>1. cols[p].pc = "sum" /\ cols' = [cols EXCEPT ![p] = moved("save")]
      BY <2>9 DEF SummariesRead, Step
    <3>2. moved("save") \in ColRecord /\ WitnessedBy(moved("save"), up)
      <4>1. "save" \in ColPc
        BY DEF ColPc, Building
      <4> QED
        BY <3>1, <4>1, MovesTo
    <3> HIDE DEF moved
    <3> QED
      BY <3>1, <3>2
  <2> QED
    BY <2>5, <2>6, <2>7, <2>8, <2>9
<1>2. UNCHANGED <<up, jobs, plane, fleetEvents, points>>
  BY DEF CollectorStarts, LockSets, LockReads, LockRenews, ReleaseReads, ReleaseDeletes,
         CollectorCancelled, CollectorDies, CycleFails, SleepEnds, SummariesRead, fleet,
         outside
<1>3. cycleFaults' \in 0..MaxCycleFaults
  BY MetricsAssumption
     DEF CollectorStarts, LockSets, LockReads, LockRenews, ReleaseReads, ReleaseDeletes,
         CollectorCancelled, CollectorDies, CycleFails, SleepEnds, SummariesRead, fleet,
         CycleFault, MetricsOK, MetricsTypeOK
<1>4. obsLock' \in Collector \cup {NoCollector} /\ obsTtl' \in 0..CollectorTtl
  BY MetricsAssumption
     DEF CollectorStarts, LockSets, LockReads, LockRenews, ReleaseReads, ReleaseDeletes,
         CollectorCancelled, CollectorDies, CycleFails, SleepEnds, SummariesRead,
         MetricsOK, MetricsTypeOK
<1> QED
  BY <1>1, <1>2, <1>3, <1>4, OneCollector

\* The scan starts a snapshot from the leases there are.
LEMMA ScanKeeps ==
    ASSUME MetricsOK, NEW p \in Collector, ScanLeases(p)
    PROVE  MetricsOK'
<1>1. PICK ids \in SUBSET up :
         /\ Cardinality(ids) = IF Cardinality(up) < ScanLimit \/ ScanLimit = 0
                               THEN Cardinality(up) ELSE ScanLimit
         /\ cols' = [cols EXCEPT ![p] = Witnessed(
                        [@ EXCEPT !.pc = "load", !.ids = {}, !.todo = ids,
                                  !.counts = NoCounts, !.wasOn = {}, !.wasOff = {}], up)]
  BY DEF ScanLeases
<1>2. ASSUME ScanCoversFleet
      PROVE  ids = up
  <2>1. up \subseteq Watched /\ IsFiniteSet(up) /\ Cardinality(up) <= Cardinality(Watched)
    BY FleetAssumption, FS_Subset DEF MetricsOK, MetricsTypeOK
  <2>2. /\ Cardinality(up) \in Nat /\ Cardinality(Watched) \in Nat /\ ScanLimit \in Nat
    BY <2>1, FleetAssumption, MetricsAssumption, FS_CardinalityType
  <2>3. Cardinality(ids) = Cardinality(up)
    BY <1>1, <1>2, <2>1, <2>2 DEF ScanCoversFleet
  <2> QED
    BY <2>1, <2>3, FS_Subset
<1>3. PICK old \in ColRecord : old = cols[p]
  BY DEF MetricsOK, MetricsTypeOK
<1>4. PICK r : r = [old EXCEPT !.pc = "load", !.ids = {}, !.todo = ids,
                               !.counts = NoCounts, !.wasOn = {}, !.wasOff = {}]
  OBVIOUS
<1>5. /\ r \in ColRecord
      /\ r.pc = "load" /\ r.ids = {} /\ r.todo = ids /\ r.wasOn = {} /\ r.wasOff = {}
  <2>1. up \subseteq Watched /\ NoCounts \in Counts
    BY DEF MetricsOK, MetricsTypeOK, NoCounts, Counts
  <2> QED
    BY <1>4, <2>1 DEF ColRecord, ColPc, Building
<1>6. PICK c : c = [r EXCEPT !.wasOn = up, !.wasOff = Watched \ up]
  OBVIOUS
<1>7. cols' = [cols EXCEPT ![p] = c]
  <2>1. cols' = [cols EXCEPT ![p] = Witnessed(r, up)]
    BY <1>1, <1>3, <1>4
  <2>2. Witnessed(r, up) = [r EXCEPT !.wasOn = {} \cup up,
                                     !.wasOff = {} \cup (Watched \ up)]
    BY <1>5 DEF Witnessed
  <2>3. {} \cup up = up /\ {} \cup (Watched \ up) = Watched \ up
    OBVIOUS
  <2> QED
    BY <1>6, <2>1, <2>2, <2>3
<1>8. /\ c \in ColRecord
      /\ c.pc = "load" /\ c.ids = {} /\ c.todo = ids
      /\ c.wasOn = up /\ c.wasOff = Watched \ up
  <2>1. up \subseteq Watched
    BY DEF MetricsOK, MetricsTypeOK
  <2> QED
    BY <1>5, <1>6, <2>1 DEF ColRecord
<1>9. WitnessedBy(c, up)
  BY <1>2, <1>8 DEF WitnessedBy
<1> QED
  BY <1>7, <1>8, <1>9, OneCollector DEF ScanLeases, fleet, outside, MetricsOK, MetricsTypeOK

\* A lease that is read again is there, or the worker was seen without.
LEMMA LoadKeeps ==
    ASSUME MetricsOK, NEW p \in Collector, NEW w \in Watched, LoadWorker(p, w)
    PROVE  MetricsOK'
<1>1. PICK old \in ColRecord : old = cols[p] /\ WitnessedBy(old, up)
  BY DEF MetricsOK, MetricsTypeOK
<1>2. PICK ids : ids = IF w \in up THEN old.ids \cup {w} ELSE old.ids
  OBVIOUS
<1>3. PICK c : c = [old EXCEPT !.todo = old.todo \ {w}, !.ids = ids]
  OBVIOUS
<1>4. cols' = [cols EXCEPT ![p] = c] /\ old.pc = "load"
  BY <1>1, <1>2, <1>3 DEF LoadWorker
<1>5. /\ c \in ColRecord
      /\ c.pc = "load" /\ c.ids = ids /\ c.todo = old.todo \ {w}
      /\ c.wasOn = old.wasOn /\ c.wasOff = old.wasOff
  BY <1>1, <1>2, <1>3, <1>4 DEF ColRecord
<1>6. WitnessedBy(c, up)
  BY <1>1, <1>2, <1>4, <1>5 DEF WitnessedBy, Snapping
<1> QED
  BY <1>4, <1>5, <1>6, OneCollector DEF LoadWorker, fleet, outside, MetricsOK, MetricsTypeOK

\* The leases are read, the counters come next.
LEMMA LoadedKeeps ==
    ASSUME MetricsOK, NEW p \in Collector, WorkersLoaded(p)
    PROVE  MetricsOK'
<1>1. PICK old \in ColRecord : old = cols[p] /\ WitnessedBy(old, up)
  BY DEF MetricsOK, MetricsTypeOK
<1>2. PICK c : c = [old EXCEPT !.pc = "sum", !.todo = old.ids]
  OBVIOUS
<1>3. cols' = [cols EXCEPT ![p] = c] /\ old.pc = "load" /\ old.todo = {}
  BY <1>1, <1>2 DEF WorkersLoaded
<1>4. /\ c \in ColRecord
      /\ c.pc = "sum" /\ c.ids = old.ids
      /\ c.wasOn = old.wasOn /\ c.wasOff = old.wasOff
  BY <1>1, <1>2 DEF ColRecord, ColPc, Building
<1>5. WitnessedBy(c, up)
  BY <1>1, <1>3, <1>4 DEF WitnessedBy, Snapping
<1> QED
  BY <1>3, <1>4, <1>5, OneCollector
     DEF WorkersLoaded, fleet, outside, MetricsOK, MetricsTypeOK

\* Sums of counters are counters.
LEMMA PlusTyped ==
    ASSUME NEW a \in Counts, NEW b \in Counts
    PROVE  Plus(a, b) \in Counts
<1>1. DOMAIN a = {"completed", "failed", "active"}
  BY DEF Counts
<1>2. \A f \in DOMAIN a : a[f] \in Nat /\ b[f] \in Nat
  BY <1>1 DEF Counts
<1>3. PICK s : s = [f \in {"completed", "failed", "active"} |-> a[f] + b[f]]
  OBVIOUS
<1>4. /\ DOMAIN s = {"completed", "failed", "active"}
      /\ s["completed"] \in Nat /\ s["failed"] \in Nat /\ s["active"] \in Nat
  BY <1>1, <1>2, <1>3
<1>5. s = [completed |-> s["completed"], failed |-> s["failed"], active |-> s["active"]]
  BY <1>3, <1>4
<1>6. s \in Counts
  BY <1>4, <1>5 DEF Counts
<1> QED
  BY <1>1, <1>3, <1>6 DEF Plus

\* One worker's counters are added.
LEMMA SummariseKeeps ==
    ASSUME MetricsOK, NEW p \in Collector, NEW w \in Watched, SummariseWorker(p, w)
    PROVE  MetricsOK'
<1>1. PICK old \in ColRecord : old = cols[p] /\ WitnessedBy(old, up)
  BY DEF MetricsOK, MetricsTypeOK
<1>2. Counted(w) \in Counts
  <2> DEFINE of(S) == {j \in Job : jobs[j].worker = w /\ jobs[j].status \in S}
  <2>1. \A S : Cardinality(of(S)) \in Nat
    <3> SUFFICES ASSUME NEW S PROVE Cardinality(of(S)) \in Nat
      OBVIOUS
    <3>1. of(S) \in SUBSET Job
      OBVIOUS
    <3> HIDE DEF of
    <3> QED
      BY <3>1, FleetAssumption, FS_Subset, FS_CardinalityType
  <2> QED
    BY <2>1 DEF Counted, Counts
<1>3. PICK n \in Counts : n = Plus(old.counts, Counted(w))
  BY <1>2, PlusTyped DEF ColRecord
<1>4. PICK c : c = [old EXCEPT !.todo = old.todo \ {w}, !.counts = n]
  OBVIOUS
<1>5. cols' = [cols EXCEPT ![p] = c] /\ old.pc = "sum"
  BY <1>1, <1>3, <1>4 DEF SummariseWorker
<1>6. /\ c \in ColRecord
      /\ c.pc = "sum" /\ c.ids = old.ids
      /\ c.wasOn = old.wasOn /\ c.wasOff = old.wasOff
  BY <1>1, <1>3, <1>4, <1>5 DEF ColRecord
<1>7. WitnessedBy(c, up)
  BY <1>1, <1>5, <1>6 DEF WitnessedBy, Snapping
<1> QED
  BY <1>5, <1>6, <1>7, OneCollector
     DEF SummariseWorker, fleet, outside, MetricsOK, MetricsTypeOK

\* The point is saved, and the oldest one given up for it.
LEMMA SaveKeeps ==
    ASSUME MetricsOK, NEW p \in Collector, SavePoint(p)
    PROVE  MetricsOK'
<1>1. PICK pt : pt = HistoryPoint(cols[p])
  OBVIOUS
<1>2. pt \in Point
  BY <1>1 DEF HistoryPoint, Point, MetricsOK, MetricsTypeOK, ColRecord
<1>3. points' \in Seq(Point) /\ Len(points') <= MaxPoints
  <2>1. PICK old \in Seq(Point) : old = points /\ Len(old) <= MaxPoints
    BY DEF MetricsOK, MetricsTypeOK
  <2>2. PICK all : all = Append(old, pt)
    OBVIOUS
  <2>3. all \in Seq(Point) /\ Len(all) = Len(old) + 1 /\ all # <<>>
    BY <1>2, <2>2
  <2>4. Tail(all) \in Seq(Point) /\ Len(Tail(all)) = Len(all) - 1
    BY <2>3
  <2>5. points' = IF Len(all) > MaxPoints THEN Tail(all) ELSE all
    BY <1>1, <2>1, <2>2 DEF SavePoint
  <2> QED
    BY <2>1, <2>3, <2>4, <2>5, MetricsAssumption
<1>4. PICK c : c = [NewCol EXCEPT !.pc = "sleep"]
  OBVIOUS
<1>5. c \in ColRecord /\ c.pc = "sleep" /\ cols' = [cols EXCEPT ![p] = c]
  BY <1>4, NewColTyped DEF ColRecord, ColPc, SavePoint
<1>6. cols' \in [Collector -> ColRecord] /\ \A q \in Collector : WitnessedBy(cols'[q], up)
  BY <1>5 DEF MetricsOK, MetricsTypeOK, WitnessedBy, Snapping
<1>7. UNCHANGED <<up, jobs, plane, fleetEvents, cycleFaults, obsLock, obsTtl>>
  BY DEF SavePoint, fleet, outside
<1>8. MetricsTypeOK'
  BY <1>3, <1>6, <1>7 DEF MetricsOK, MetricsTypeOK
<1> QED
  BY <1>6, <1>7, <1>8 DEF MetricsOK, WitnessedBy

\* A lease comes or goes: every snapshot under way takes note.
LEMMA LeaseMoveKeeps ==
    ASSUME MetricsOK, NEW w \in Watched, LeaseMoves(w)
    PROVE  MetricsOK'
<1>1. PICK now \in SUBSET Watched : now = up'
  BY DEF LeaseMoves, MetricsOK, MetricsTypeOK
<1>2. ASSUME NEW p \in Collector
      PROVE  cols'[p] \in ColRecord /\ WitnessedBy(cols'[p], now)
  <2>1. PICK old \in ColRecord : old = cols[p] /\ WitnessedBy(old, up)
    BY DEF MetricsOK, MetricsTypeOK
  <2>2. PICK c : c = [old EXCEPT !.wasOn = old.wasOn \cup now,
                                 !.wasOff = old.wasOff \cup (Watched \ now)]
    OBVIOUS
  <2>3. cols'[p] = IF old.pc \in Building THEN c ELSE old
    BY <1>1, <2>1, <2>2 DEF LeaseMoves, Witnessed
  <2>4. /\ c \in ColRecord
        /\ c.pc = old.pc /\ c.ids = old.ids /\ c.todo = old.todo
        /\ c.wasOn = old.wasOn \cup now
        /\ c.wasOff = old.wasOff \cup (Watched \ now)
    BY <2>1, <2>2 DEF ColRecord
  <2>5. WitnessedBy(c, now)
    BY <2>1, <2>4 DEF WitnessedBy
  <2>6. old.pc \notin Building => WitnessedBy(old, now)
    BY DEF WitnessedBy, Snapping, Building
  <2> QED
    BY <2>1, <2>3, <2>4, <2>5, <2>6
<1>3. cols' \in [Collector -> ColRecord]
  <2>1. cols' = [p \in Collector |-> IF cols[p].pc \in Building
                                     THEN Witnessed(cols[p], up') ELSE cols[p]]
    BY DEF LeaseMoves
  <2> QED
    BY <1>2, <2>1
<1>4. fleetEvents' \in 0..MaxFleetEvents
  BY MetricsAssumption DEF LeaseMoves, FleetEvent, MetricsOK, MetricsTypeOK
<1>5. MetricsTypeOK'
  BY <1>1, <1>3, <1>4 DEF LeaseMoves, FleetEvent, MetricsOK, MetricsTypeOK
<1> QED
  BY <1>1, <1>2, <1>5 DEF MetricsOK, WitnessedBy

\* The rest of the fleet moves, or time passes.
LEMMA OutsideKeeps ==
    ASSUME MetricsOK,
           \/ \E j \in Job, w \in Watched, s \in {"RUNNING"} \cup Ended : JobMoves(j, w, s)
           \/ \E next \in [dead : 0..1, pending : 0..1] : PlaneMoves(next)
           \/ MetricsTick
           \/ UNCHANGED metricsVars
    PROVE  MetricsOK'
<1>1. ASSUME NEW j \in Job, NEW w \in Watched, NEW s \in {"RUNNING"} \cup Ended,
             JobMoves(j, w, s)
      PROVE  MetricsOK'
  <2>1. jobs' \in [Job -> JobRecord]
    BY <1>1 DEF JobMoves, MetricsOK, MetricsTypeOK, JobRecord
  <2>2. fleetEvents' \in 0..MaxFleetEvents
    BY <1>1, MetricsAssumption DEF JobMoves, FleetEvent, MetricsOK, MetricsTypeOK
  <2> QED
    BY <1>1, <2>1, <2>2 DEF JobMoves, FleetEvent, MetricsOK, MetricsTypeOK, WitnessedBy
<1>2. ASSUME NEW next \in [dead : 0..1, pending : 0..1], PlaneMoves(next)
      PROVE  MetricsOK'
  <2>1. fleetEvents' \in 0..MaxFleetEvents
    BY <1>2, MetricsAssumption DEF PlaneMoves, FleetEvent, MetricsOK, MetricsTypeOK
  <2> QED
    BY <1>2, <2>1 DEF PlaneMoves, FleetEvent, MetricsOK, MetricsTypeOK, WitnessedBy
<1>3. CASE MetricsTick
  <2>1. ASSUME NEW p \in Collector
        PROVE  cols'[p] \in ColRecord /\ WitnessedBy(cols'[p], up)
    <3>1. PICK old \in ColRecord : old = cols[p] /\ WitnessedBy(old, up)
      BY DEF MetricsOK, MetricsTypeOK
    <3>2. PICK c : c = [old EXCEPT !.age = old.age + 1]
      OBVIOUS
    <3>3. cols'[p] = IF old.pc = "off" THEN old ELSE c
      BY <1>3, <3>1, <3>2 DEF MetricsTick
    <3>4. /\ c \in ColRecord
          /\ c.pc = old.pc /\ c.ids = old.ids /\ c.todo = old.todo
          /\ c.wasOn = old.wasOn /\ c.wasOff = old.wasOff
      BY <3>1, <3>2 DEF ColRecord
    <3> QED
      BY <3>1, <3>3, <3>4 DEF WitnessedBy
  <2>2. cols' \in [Collector -> ColRecord]
    <3>1. cols' = [p \in Collector |-> IF cols[p].pc = "off" THEN cols[p]
                                       ELSE [cols[p] EXCEPT !.age = @ + 1]]
      BY <1>3 DEF MetricsTick
    <3> QED
      BY <2>1, <3>1
  <2>3. obsTtl' \in 0..CollectorTtl /\ obsLock' \in Collector \cup {NoCollector}
    BY <1>3, MetricsAssumption DEF MetricsTick, MetricsOK, MetricsTypeOK
  <2>4. UNCHANGED <<up, jobs, plane, fleetEvents, cycleFaults, points>>
    BY <1>3 DEF MetricsTick, fleet, outside
  <2>5. MetricsTypeOK'
    BY <2>2, <2>3, <2>4 DEF MetricsOK, MetricsTypeOK
  <2> QED
    BY <2>1, <2>4, <2>5 DEF MetricsOK, WitnessedBy
<1>4. CASE UNCHANGED metricsVars
  BY <1>4 DEF metricsVars, MetricsOK, MetricsTypeOK, WitnessedBy
<1> QED
  BY <1>1, <1>2, <1>3, <1>4

\* Nothing is watched yet.
LEMMA MetricsStart ==
    ASSUME MetricsInit
    PROVE  MetricsOK
<1>1. PICK w \in Watched : w = CHOOSE x \in Watched : TRUE
  BY FleetAssumption
<1>2. jobs \in [Job -> JobRecord]
  BY <1>1 DEF MetricsInit, JobRecord
<1>3. cols \in [Collector -> ColRecord] /\ \A p \in Collector : WitnessedBy(cols[p], up)
  BY NewColTyped DEF MetricsInit, WitnessedBy, Snapping
<1>4. points \in Seq(Point) /\ Len(points) <= MaxPoints
  BY MetricsAssumption DEF MetricsInit
<1>5. MetricsTypeOK
  BY <1>2, <1>3, <1>4, MetricsAssumption DEF MetricsInit, MetricsTypeOK
<1> QED
  BY <1>3, <1>5 DEF MetricsOK

LEMMA MetricsStep ==
    ASSUME MetricsOK, [MetricsNext]_metricsVars
    PROVE  MetricsOK'
<1>1. ASSUME NEW p \in Collector, CollectorStep(p)
      PROVE  MetricsOK'
  BY <1>1, LockKeeps, ScanKeeps, LoadKeeps, LoadedKeeps, SummariseKeeps, SaveKeeps
     DEF CollectorStep
<1> QED
  BY <1>1, LockKeeps, LeaseMoveKeeps, OutsideKeeps DEF MetricsNext

\* The inductive invariant of the fleet's snapshots.
THEOREM MetricsInvariant == MetricsSpec => []MetricsOK
<1>1. MetricsInit => MetricsOK
  BY MetricsStart
<1>2. MetricsOK /\ [MetricsNext]_metricsVars => MetricsOK'
  BY MetricsStep
<1> QED
  BY <1>1, <1>2, PTL DEF MetricsSpec

\* A snapshot lists only workers that were online while it was built and misses
\* only workers that were offline for a while, however often leases come and go
\* between its calls, in any fleet the scan limit covers
\* (metrics/snapshot.py, collect; metrics/collector.py).
THEOREM SnapshotsAreWitnessed ==
    ASSUME ScanCoversFleet
    PROVE  MetricsSpec => []BuildIsWitnessed
<1>1. ScanCoversFleet /\ MetricsOK => BuildIsWitnessed
  BY DEF MetricsOK, WitnessedBy, Snapping, BuildIsWitnessed
<1> QED
  BY <1>1, MetricsInvariant, PTL

\* Of the executions J, those of the workers R that ended with a status.
Ends(J, status, R) == {j \in Job : J[j].status = status /\ J[j].worker \in R}

\* D and E are executions of R that completed and failed, as many as counted.
Tally(J, counts, D, E, R) ==
    /\ counts.completed = Cardinality(D) /\ counts.failed = Cardinality(E)
    /\ D \subseteq Ends(J, "COMPLETED", R) /\ E \subseteq Ends(J, "FAILED", R)

\* The workers whose counters the snapshot c has read.
Counting(c) == c.pc \in {"sum", "save"}
ReadBy(c) == IF c.pc = "sum" THEN c.ids \ c.todo ELSE c.ids

\* Those of D that ran on R.
On(J, D, R) == {j \in D : J[j].worker \in R}

\* d[i] and e[i] are what the point i of the history P counts; over the same
\* workers a later point counts all an earlier one does.
PointSets(P) == [1..Len(P) -> SUBSET Job]
PointsGrow(J, P, d, e) ==
    /\ \A i \in 1..Len(P) : Tally(J, P[i].counts, d[i], e[i], P[i].online)
    /\ \A i, k \in 1..Len(P) :
          i < k /\ P[i].online = P[k].online => d[i] \subseteq d[k] /\ e[i] \subseteq e[k]

\* The snapshot c counts all that the points over its workers do, as far as it
\* has read.
CountsOn(J, P, c, d, e) ==
    Counting(c) =>
        \E D, E \in SUBSET Job :
            /\ Tally(J, c.counts, D, E, ReadBy(c))
            /\ \A i \in 1..Len(P) : P[i].online = c.ids =>
                  On(J, d[i], ReadBy(c)) \subseteq D /\ On(J, e[i], ReadBy(c)) \subseteq E

\* Nothing is counted before the leases are read, and only leases read are.
StartsEmpty(c) ==
    /\ c.pc = "load" => c.counts = NoCounts
    /\ c.pc = "sum" => c.todo \subseteq c.ids

Windows(C, J, P) ==
    /\ \A p \in Collector : StartsEmpty(C[p])
    /\ \E d, e \in PointSets(P) :
          PointsGrow(J, P, d, e) /\ \A p \in Collector : CountsOn(J, P, C[p], d, e)

\* Points and snapshots count sets of executions that only grow.
WindowsOK == Windows(cols, jobs, points)

\* One collector moves; it counts on as it did.
LEMMA OneCounts ==
    ASSUME NEW C, NEW J, NEW P, Windows(C, J, P), NEW p \in Collector, NEW c, NEW C2,
           C2 = [C EXCEPT ![p] = c], C \in [Collector -> ColRecord],
           \A d, e \in PointSets(P) :
               PointsGrow(J, P, d, e) /\ CountsOn(J, P, C[p], d, e) =>
                   StartsEmpty(c) /\ CountsOn(J, P, c, d, e)
    PROVE  Windows(C2, J, P)
<1>1. PICK d \in PointSets(P), e \in PointSets(P) :
         PointsGrow(J, P, d, e) /\ \A q \in Collector : CountsOn(J, P, C[q], d, e)
  BY DEF Windows
<1>2. \A q \in Collector : C2[q] = IF q = p THEN c ELSE C[q]
  OBVIOUS
<1>3. \A q \in Collector : StartsEmpty(C2[q]) /\ CountsOn(J, P, C2[q], d, e)
  BY <1>1, <1>2 DEF Windows
<1> QED
  BY <1>1, <1>3 DEF Windows

\* A snapshot that does not count promises nothing.
LEMMA NotCounting ==
    ASSUME NEW J, NEW P, NEW c, NEW d, NEW e, ~Counting(c)
    PROVE  CountsOn(J, P, c, d, e)
BY DEF CountsOn

\* No snapshot counts on, and no execution that has ended changes.
LEMMA NoneCounts ==
    ASSUME NEW C, NEW J, NEW P, Windows(C, J, P), NEW C2, NEW K,
           \A j \in Job : J[j].status \in Ended => K[j] = J[j],
           \A p \in Collector :
               /\ StartsEmpty(C2[p])
               /\ \/ ~Counting(C2[p])
                  \/ /\ C2[p].pc = C[p].pc /\ C2[p].ids = C[p].ids
                     /\ C2[p].todo = C[p].todo /\ C2[p].counts = C[p].counts
    PROVE  Windows(C2, K, P)
<1>1. PICK d \in PointSets(P), e \in PointSets(P) :
         PointsGrow(J, P, d, e) /\ \A q \in Collector : CountsOn(J, P, C[q], d, e)
  BY DEF Windows
<1>2. \A R : /\ Ends(J, "COMPLETED", R) \subseteq Ends(K, "COMPLETED", R)
             /\ Ends(J, "FAILED", R) \subseteq Ends(K, "FAILED", R)
  BY DEF Ends, Ended
<1>3. \A counts, D, E, R : Tally(J, counts, D, E, R) => Tally(K, counts, D, E, R)
  <2> HIDE DEF Ends
  <2> QED
    BY <1>2 DEF Tally
<1>4. PointsGrow(K, P, d, e)
  BY <1>1, <1>3 DEF PointsGrow
<1>5. \A i \in 1..Len(P) : \A R :
         On(K, d[i], R) = On(J, d[i], R) /\ On(K, e[i], R) = On(J, e[i], R)
  <2> SUFFICES ASSUME NEW i \in 1..Len(P)
               PROVE  \A j \in d[i] \cup e[i] : K[j] = J[j]
    BY DEF On
  <2>1. Tally(J, P[i].counts, d[i], e[i], P[i].online)
    BY <1>1 DEF PointsGrow
  <2> QED
    BY <2>1 DEF Tally, Ends, Ended
<1>6. ASSUME NEW q \in Collector, Counting(C2[q])
      PROVE  CountsOn(K, P, C2[q], d, e)
  <2>1. /\ C2[q].pc = C[q].pc /\ C2[q].ids = C[q].ids
        /\ C2[q].todo = C[q].todo /\ C2[q].counts = C[q].counts
    BY <1>6
  <2>2. ReadBy(C2[q]) = ReadBy(C[q]) /\ Counting(C[q])
    BY <1>6, <2>1 DEF ReadBy, Counting
  <2>3. PICK D \in SUBSET Job, E \in SUBSET Job :
           /\ Tally(J, C[q].counts, D, E, ReadBy(C[q]))
           /\ \A i \in 1..Len(P) : P[i].online = C[q].ids =>
                 On(J, d[i], ReadBy(C[q])) \subseteq D /\ On(J, e[i], ReadBy(C[q])) \subseteq E
    BY <1>1, <2>2 DEF CountsOn
  <2>4. Tally(K, C2[q].counts, D, E, ReadBy(C2[q]))
    BY <1>3, <2>1, <2>2, <2>3
  <2>5. \A i \in 1..Len(P) : P[i].online = C2[q].ids =>
           On(K, d[i], ReadBy(C2[q])) \subseteq D /\ On(K, e[i], ReadBy(C2[q])) \subseteq E
    BY <1>5, <2>1, <2>2, <2>3
  <2> QED
    BY <2>4, <2>5 DEF CountsOn
<1> QED
  BY <1>1, <1>4, <1>6, NotCounting DEF Windows

\* A snapshot starts to count over the workers it has loaded.
LEMMA CountingStarts ==
    ASSUME NEW J, NEW P, NEW b, NEW c, NEW d, NEW e,
           b.pc = "load", StartsEmpty(b),
           c.pc = "sum", c.ids = b.ids, c.todo = b.ids, c.counts = b.counts
    PROVE  StartsEmpty(c) /\ CountsOn(J, P, c, d, e)
<1>1. ReadBy(c) = {} /\ c.counts = NoCounts /\ StartsEmpty(c)
  BY DEF ReadBy, StartsEmpty
<1>2. Tally(J, c.counts, {}, {}, {})
  BY <1>1, FS_EmptySet DEF Tally, NoCounts
<1>3. \A D : On(J, D, {}) = {}
  BY DEF On
<1> QED
  BY <1>1, <1>2, <1>3 DEF CountsOn

\* It has read all the workers' counters.
LEMMA CountingEnds ==
    ASSUME NEW J, NEW P, NEW b, NEW c, NEW d, NEW e, CountsOn(J, P, b, d, e),
           b.pc = "sum", b.todo = {}, c.pc = "save", c.ids = b.ids, c.counts = b.counts
    PROVE  StartsEmpty(c) /\ CountsOn(J, P, c, d, e)
<1>1. ReadBy(c) = ReadBy(b) /\ Counting(b) /\ StartsEmpty(c)
  BY DEF ReadBy, Counting, StartsEmpty
<1> QED
  BY <1>1 DEF CountsOn

\* It reads the counters of one more worker.
LEMMA CountsOneMore ==
    ASSUME IsFiniteSet(Job), NEW J, NEW P, NEW b, NEW c, NEW d, NEW e,
           StartsEmpty(b), CountsOn(J, P, b, d, e), PointsGrow(J, P, d, e),
           d \in PointSets(P), e \in PointSets(P),
           NEW w \in b.todo, b.pc = "sum", c.pc = "sum", c.ids = b.ids, c.todo = b.todo \ {w},
           c.counts.completed = b.counts.completed + Cardinality(Ends(J, "COMPLETED", {w})),
           c.counts.failed = b.counts.failed + Cardinality(Ends(J, "FAILED", {w}))
    PROVE  StartsEmpty(c) /\ CountsOn(J, P, c, d, e)
<1>1. /\ ReadBy(c) = ReadBy(b) \cup {w} /\ w \notin ReadBy(b)
      /\ Counting(b) /\ StartsEmpty(c)
  BY DEF ReadBy, Counting, StartsEmpty
<1>2. PICK D \in SUBSET Job, E \in SUBSET Job :
         /\ Tally(J, b.counts, D, E, ReadBy(b))
         /\ \A i \in 1..Len(P) : P[i].online = b.ids =>
               On(J, d[i], ReadBy(b)) \subseteq D /\ On(J, e[i], ReadBy(b)) \subseteq E
  BY <1>1 DEF CountsOn
<1> DEFINE moreD == Ends(J, "COMPLETED", {w})
           moreE == Ends(J, "FAILED", {w})
<1>3. ASSUME NEW A \in SUBSET Job, NEW B \in SUBSET Job, A \cap B = {}
      PROVE  Cardinality(A \cup B) = Cardinality(A) + Cardinality(B)
  <2>1. IsFiniteSet(A) /\ IsFiniteSet(B)
    BY FS_Subset
  <2>2. /\ Cardinality(A \cup B) = Cardinality(A) + Cardinality(B) - Cardinality(A \cap B)
        /\ Cardinality(A) \in Nat /\ Cardinality(B) \in Nat /\ Cardinality(A \cap B) = 0
    BY <1>3, <2>1, FS_Union, FS_CardinalityType, FS_EmptySet
  <2> QED
    BY <2>2
<1>4. moreD \in SUBSET Job /\ moreE \in SUBSET Job /\ D \cap moreD = {} /\ E \cap moreE = {}
  BY <1>1, <1>2 DEF Tally, Ends
<1>5. \A s : \A R, S : Ends(J, s, R) \subseteq Ends(J, s, R \cup S)
                      /\ Ends(J, s, S) \subseteq Ends(J, s, R \cup S)
  BY DEF Ends
<1>6. Tally(J, c.counts, D \cup moreD, E \cup moreE, ReadBy(c))
  <2>1. /\ Cardinality(D \cup moreD) = Cardinality(D) + Cardinality(moreD)
        /\ Cardinality(E \cup moreE) = Cardinality(E) + Cardinality(moreE)
    BY <1>3, <1>4
  <2>2. /\ D \subseteq Ends(J, "COMPLETED", ReadBy(c))
        /\ E \subseteq Ends(J, "FAILED", ReadBy(c))
        /\ moreD \subseteq Ends(J, "COMPLETED", ReadBy(c))
        /\ moreE \subseteq Ends(J, "FAILED", ReadBy(c))
    BY <1>1, <1>2, <1>5 DEF Tally
  <2>3. b.counts.completed = Cardinality(D) /\ b.counts.failed = Cardinality(E)
    BY <1>2 DEF Tally
  <2> HIDE DEF moreD, moreE
  <2> QED
    BY <2>1, <2>2, <2>3 DEF Tally, moreD, moreE
<1>7. ASSUME NEW i \in 1..Len(P), P[i].online = c.ids
      PROVE  /\ On(J, d[i], ReadBy(c)) \subseteq D \cup moreD
             /\ On(J, e[i], ReadBy(c)) \subseteq E \cup moreE
  <2>1. On(J, d[i], ReadBy(b)) \subseteq D /\ On(J, e[i], ReadBy(b)) \subseteq E
    BY <1>2, <1>7
  <2>2. \A j \in d[i] : j \in Job /\ J[j].status = "COMPLETED"
    BY DEF PointsGrow, Tally, Ends
  <2>3. \A j \in e[i] : j \in Job /\ J[j].status = "FAILED"
    BY DEF PointsGrow, Tally, Ends
  <2> QED
    BY <1>1, <2>1, <2>2, <2>3 DEF On, Ends
<1> HIDE DEF moreD, moreE
<1> QED
  BY <1>1, <1>4, <1>6, <1>7 DEF CountsOn

\* The point of a snapshot that has counted is added to the history, whose
\* oldest point may go.
LEMMA PointIsAdded ==
    ASSUME NEW J, NEW P \in Seq(Point), NEW c, NEW d \in PointSets(P), NEW e \in PointSets(P),
           PointsGrow(J, P, d, e), CountsOn(J, P, c, d, e), c.pc = "save",
           NEW pt \in Point, pt.online = c.ids, pt.counts = c.counts,
           NEW P2 \in {Append(P, pt), Tail(Append(P, pt))}
    PROVE  \E f, g \in PointSets(P2) : PointsGrow(J, P2, f, g)
<1>1. PICK D \in SUBSET Job, E \in SUBSET Job :
         /\ Tally(J, c.counts, D, E, c.ids)
         /\ \A i \in 1..Len(P) : P[i].online = c.ids =>
               On(J, d[i], c.ids) \subseteq D /\ On(J, e[i], c.ids) \subseteq E
  BY DEF CountsOn, Counting, ReadBy
<1>2. ASSUME NEW i \in 1..Len(P), P[i].online = c.ids
      PROVE  d[i] \subseteq D /\ e[i] \subseteq E
  <2>1. Tally(J, P[i].counts, d[i], e[i], c.ids)
    BY <1>2 DEF PointsGrow
  <2>2. On(J, d[i], c.ids) = d[i] /\ On(J, e[i], c.ids) = e[i]
    BY <2>1 DEF Tally, Ends, On
  <2> QED
    BY <1>1, <1>2, <2>2
<1>3. PICK s \in 0..1 : /\ Len(P2) = Len(P) + 1 - s
                        /\ \A i \in 1..Len(P2) :
                              P2[i] = IF i + s <= Len(P) THEN P[i + s] ELSE pt
  <2>1. CASE P2 = Append(P, pt)
    BY <2>1
  <2>2. CASE P2 = Tail(Append(P, pt))
    <3>1. PICK A : A = Append(P, pt)
      OBVIOUS
    <3>2. /\ A \in Seq(Point) /\ A # <<>> /\ Len(A) = Len(P) + 1
          /\ \A i \in 1..Len(A) : A[i] = IF i <= Len(P) THEN P[i] ELSE pt
      BY <3>1
    <3>3. Len(Tail(A)) = Len(A) - 1 /\ \A i \in 1..Len(Tail(A)) : Tail(A)[i] = A[i + 1]
      BY <3>2
    <3> QED
      BY <2>2, <3>1, <3>2, <3>3
  <2> QED
    BY <2>1, <2>2
<1>4. Len(P) \in Nat
  OBVIOUS
<1> DEFINE f == [i \in 1..Len(P2) |-> IF i + s <= Len(P) THEN d[i + s] ELSE D]
           g == [i \in 1..Len(P2) |-> IF i + s <= Len(P) THEN e[i + s] ELSE E]
<1>5. f \in PointSets(P2) /\ g \in PointSets(P2)
  BY <1>3, <1>4 DEF PointSets
<1>6. ASSUME NEW i \in 1..Len(P2)
      PROVE  Tally(J, P2[i].counts, f[i], g[i], P2[i].online)
  <2>1. CASE i + s <= Len(P)
    BY <1>3, <1>4, <2>1 DEF PointsGrow
  <2>2. CASE ~(i + s <= Len(P))
    BY <1>1, <1>3, <2>2
  <2> QED
    BY <2>1, <2>2
<1>7. ASSUME NEW i \in 1..Len(P2), NEW k \in 1..Len(P2), i < k, P2[i].online = P2[k].online
      PROVE  f[i] \subseteq f[k] /\ g[i] \subseteq g[k]
  <2>1. i + s <= Len(P) /\ i + s \in 1..Len(P) /\ i + s < k + s
    BY <1>3, <1>4, <1>7
  <2>2. P2[i] = P[i + s] /\ f[i] = d[i + s] /\ g[i] = e[i + s]
    BY <1>3, <2>1
  <2>3. CASE k + s <= Len(P)
    <3>1. k + s \in 1..Len(P) /\ P2[k] = P[k + s] /\ f[k] = d[k + s] /\ g[k] = e[k + s]
      BY <1>3, <1>4, <2>3
    <3> QED
      BY <1>7, <2>1, <2>2, <3>1 DEF PointsGrow
  <2>4. CASE ~(k + s <= Len(P))
    <3>1. P2[k] = pt /\ f[k] = D /\ g[k] = E
      BY <1>3, <2>4
    <3> QED
      BY <1>2, <1>7, <2>1, <2>2, <3>1
  <2> QED
    BY <2>3, <2>4
<1> HIDE DEF f, g
<1> QED
  BY <1>5, <1>6, <1>7 DEF PointsGrow

\* The leases are read and the counters of one worker after the other.
LEMMA BuildingCounts ==
    ASSUME MetricsOK, WindowsOK, NEW p \in Collector, NEW w \in Watched,
           \/ ScanLeases(p) \/ LoadWorker(p, w) \/ WorkersLoaded(p)
           \/ SummariseWorker(p, w) \/ SummariesRead(p)
    PROVE  WindowsOK'
<1>1. cols \in [Collector -> ColRecord] /\ IsFiniteSet(Job) /\ Windows(cols, jobs, points)
  BY FleetAssumption DEF MetricsOK, MetricsTypeOK, WindowsOK
<1>2. PICK b \in ColRecord : b = cols[p] /\ StartsEmpty(b)
  BY <1>1 DEF Windows
<1>3. UNCHANGED <<jobs, points>>
  BY DEF ScanLeases, LoadWorker, WorkersLoaded, SummariseWorker, SummariesRead,
         fleet, outside
<1>4. ASSUME NEW c, cols' = [cols EXCEPT ![p] = c],
             \A d, e \in PointSets(points) :
                 PointsGrow(jobs, points, d, e) /\ CountsOn(jobs, points, b, d, e) =>
                    StartsEmpty(c) /\ CountsOn(jobs, points, c, d, e)
      PROVE  WindowsOK'
  <2>1. Windows(cols', jobs, points)
    BY <1>1, <1>2, <1>4, OneCounts
  <2> QED
    BY <1>3, <2>1 DEF WindowsOK
<1>5. CASE ScanLeases(p)
  <2>1. PICK ids \in SUBSET up :
           cols' = [cols EXCEPT ![p] = Witnessed(
                      [@ EXCEPT !.pc = "load", !.ids = {}, !.todo = ids,
                                !.counts = NoCounts, !.wasOn = {}, !.wasOff = {}], up)]
    BY <1>5 DEF ScanLeases
  <2>2. PICK a : a = [b EXCEPT !.pc = "load", !.ids = {}, !.todo = ids,
                               !.counts = NoCounts, !.wasOn = {}, !.wasOff = {}]
    OBVIOUS
  <2>3. PICK c : c = Witnessed(a, up)
    OBVIOUS
  <2>4. cols' = [cols EXCEPT ![p] = c]
    BY <1>2, <2>1, <2>2, <2>3
  <2>5. c.pc = "load" /\ c.counts = NoCounts
    BY <2>2, <2>3 DEF ColRecord, Witnessed
  <2>6. StartsEmpty(c) /\ ~Counting(c)
    BY <2>5 DEF StartsEmpty, Counting
  <2> QED
    BY <1>4, <2>4, <2>6, NotCounting
<1>6. CASE LoadWorker(p, w)
  <2>1. PICK ids : ids = IF w \in up THEN b.ids \cup {w} ELSE b.ids
    OBVIOUS
  <2>2. PICK c : c = [b EXCEPT !.todo = b.todo \ {w}, !.ids = ids]
    OBVIOUS
  <2>3. cols' = [cols EXCEPT ![p] = c] /\ b.pc = "load"
    BY <1>1, <1>2, <1>6, <2>1, <2>2 DEF LoadWorker
  <2>4. c.pc = "load" /\ c.counts = b.counts
    BY <2>2, <2>3 DEF ColRecord
  <2>5. StartsEmpty(c) /\ ~Counting(c)
    BY <1>2, <2>3, <2>4 DEF StartsEmpty, Counting
  <2> QED
    BY <1>4, <2>3, <2>5, NotCounting
<1>7. CASE WorkersLoaded(p)
  <2>1. PICK c : c = [b EXCEPT !.pc = "sum", !.todo = b.ids]
    OBVIOUS
  <2>2. cols' = [cols EXCEPT ![p] = c] /\ b.pc = "load"
    BY <1>1, <1>2, <1>7, <2>1 DEF WorkersLoaded
  <2>3. c.pc = "sum" /\ c.ids = b.ids /\ c.todo = b.ids /\ c.counts = b.counts
    BY <2>1 DEF ColRecord
  <2>4. \A d, e : StartsEmpty(c) /\ CountsOn(jobs, points, c, d, e)
    BY <1>2, <2>2, <2>3, CountingStarts
  <2> QED
    BY <1>4, <2>2, <2>4
<1>8. CASE SummariseWorker(p, w)
  <2>1. PICK n : n = Plus(b.counts, Counted(w))
    OBVIOUS
  <2>2. PICK c : c = [b EXCEPT !.todo = b.todo \ {w}, !.counts = n]
    OBVIOUS
  <2>3. cols' = [cols EXCEPT ![p] = c] /\ b.pc = "sum" /\ w \in b.todo
    BY <1>1, <1>2, <1>8, <2>1, <2>2 DEF SummariseWorker
  <2>4. c.pc = "sum" /\ c.ids = b.ids /\ c.todo = b.todo \ {w} /\ c.counts = n
    BY <2>2, <2>3 DEF ColRecord
  <2>5. /\ Counted(w).completed = Cardinality(Ends(jobs, "COMPLETED", {w}))
        /\ Counted(w).failed = Cardinality(Ends(jobs, "FAILED", {w}))
    <3>1. \A s : {j \in Job : jobs[j].worker = w /\ jobs[j].status \in {s}}
                    = Ends(jobs, s, {w})
      BY DEF Ends
    <3> QED
      BY <3>1 DEF Counted
  <2>6. /\ n.completed = b.counts.completed + Counted(w).completed
        /\ n.failed = b.counts.failed + Counted(w).failed
    <3>1. b.counts \in Counts
      BY DEF ColRecord
    <3>2. "completed" \in DOMAIN b.counts /\ "failed" \in DOMAIN b.counts
      BY <3>1 DEF Counts
    <3> QED
      BY <2>1, <3>2 DEF Plus
  <2>7. \A d, e \in PointSets(points) :
           PointsGrow(jobs, points, d, e) /\ CountsOn(jobs, points, b, d, e) =>
              StartsEmpty(c) /\ CountsOn(jobs, points, c, d, e)
    BY <1>1, <1>2, <2>3, <2>4, <2>5, <2>6, CountsOneMore
  <2> QED
    BY <1>4, <2>3, <2>7
<1>9. CASE SummariesRead(p)
  <2>1. PICK c : c = [b EXCEPT !.pc = "save"]
    OBVIOUS
  <2>2. cols' = [cols EXCEPT ![p] = c] /\ b.pc = "sum" /\ b.todo = {}
    BY <1>1, <1>2, <1>9, <2>1 DEF SummariesRead, Step
  <2>3. c.pc = "save" /\ c.ids = b.ids /\ c.counts = b.counts
    BY <2>1 DEF ColRecord
  <2>4. \A d, e : CountsOn(jobs, points, b, d, e) =>
                     StartsEmpty(c) /\ CountsOn(jobs, points, c, d, e)
    BY <2>2, <2>3, CountingEnds
  <2> QED
    BY <1>4, <2>2, <2>4
<1> QED
  BY <1>5, <1>6, <1>7, <1>8, <1>9

\* What a collector is while it neither loads leases nor counts.
Resting(c) == c.pc \notin Snapping

\* The steps of the lock, and a collector that starts, fails or ends.
LEMMA LockCounts ==
    ASSUME MetricsOK, WindowsOK, NEW p \in Collector,
           \/ CollectorStarts(p) \/ LockSets(p) \/ LockReads(p) \/ LockRenews(p)
           \/ ReleaseReads(p) \/ ReleaseDeletes(p) \/ CollectorCancelled(p)
           \/ CollectorDies(p) \/ CycleFails(p) \/ SleepEnds(p)
    PROVE  WindowsOK'
<1>1. cols \in [Collector -> ColRecord] /\ Windows(cols, jobs, points)
  BY DEF MetricsOK, MetricsTypeOK, WindowsOK
<1>2. cols[p] \in ColRecord
  BY <1>1
<1>3. UNCHANGED <<jobs, points>>
  BY DEF CollectorStarts, LockSets, LockReads, LockRenews, ReleaseReads, ReleaseDeletes,
         CollectorCancelled, CollectorDies, CycleFails, SleepEnds, fleet, outside
<1>4. PICK c : cols' = [cols EXCEPT ![p] = c] /\ Resting(c)
  <2> DEFINE moved(pc) == [cols[p] EXCEPT !.pc = pc]
             reset(pc) == [cols[p] EXCEPT !.pc = pc, !.age = 0]
             fresh(pc) == [NewCol EXCEPT !.pc = pc]
             calm == {"scan", "owner", "renew", "unread", "undelete", "off", "sleep", "lock"}
  <2>1. \A pc \in calm : Resting(moved(pc)) /\ Resting(reset(pc)) /\ Resting(fresh(pc))
    BY <1>2 DEF Resting, ColRecord, Snapping, NewCol
  <2>2. Resting(NewCol)
    BY DEF Resting, NewCol, Snapping
  <2>3. CASE CollectorStarts(p) \/ CollectorDies(p) \/ CycleFails(p)
    BY <2>1, <2>2, <2>3 DEF CollectorStarts, CollectorDies, CycleFails
  <2>4. CASE LockReads(p) \/ SleepEnds(p)
    <3>1. \E pc \in calm : cols' = [cols EXCEPT ![p] = moved(pc)]
                           \/ cols' = [cols EXCEPT ![p] = reset(pc)]
      BY <2>4 DEF LockReads, SleepEnds, Step
    <3> HIDE DEF moved, reset
    <3> QED
      BY <2>1, <3>1
  <2>5. CASE LockSets(p) \/ LockRenews(p) \/ ReleaseReads(p) \/ ReleaseDeletes(p)
             \/ CollectorCancelled(p)
    <3>1. \E pc \in calm : cols' = [cols EXCEPT ![p] = moved(pc)]
      BY <2>5 DEF LockSets, LockRenews, ReleaseReads, ReleaseDeletes,
                  CollectorCancelled, Step
    <3> HIDE DEF moved
    <3> QED
      BY <2>1, <3>1
  <2> QED
    BY <2>3, <2>4, <2>5
<1>5. StartsEmpty(c) /\ ~Counting(c)
  BY <1>4 DEF Resting, Snapping, StartsEmpty, Counting
<1>6. Windows(cols', jobs, points)
  BY <1>1, <1>4, <1>5, NotCounting, OneCounts
<1> QED
  BY <1>3, <1>6 DEF WindowsOK

\* The point of the one collector that writes is saved.
LEMMA SaveCounts ==
    ASSUME MetricsOK, WindowsOK, OneCollectorWrites, NEW p \in Collector, SavePoint(p)
    PROVE  WindowsOK'
<1>1. PICK P \in Seq(Point) : P = points
  BY DEF MetricsOK, MetricsTypeOK
<1>2. cols \in [Collector -> ColRecord] /\ Windows(cols, jobs, P) /\ cols[p].pc = "save"
  BY <1>1 DEF MetricsOK, MetricsTypeOK, WindowsOK, SavePoint
<1>3. PICK d \in PointSets(P), e \in PointSets(P) :
         PointsGrow(jobs, P, d, e) /\ \A q \in Collector : CountsOn(jobs, P, cols[q], d, e)
  BY <1>2 DEF Windows
<1>4. PICK pt \in Point : pt = HistoryPoint(cols[p])
  <2>1. HistoryPoint(cols[p]) \in Point
    BY DEF HistoryPoint, Point, MetricsOK, MetricsTypeOK, ColRecord
  <2> QED
    BY <2>1
<1>5. pt.online = cols[p].ids /\ pt.counts = cols[p].counts
  BY <1>4 DEF HistoryPoint
<1>6. PICK P2 : P2 = points'
  OBVIOUS
<1>7. P2 \in {Append(P, pt), Tail(Append(P, pt))}
  BY <1>1, <1>4, <1>6 DEF SavePoint
<1>8. PICK f \in PointSets(P2), g \in PointSets(P2) : PointsGrow(jobs, P2, f, g)
  BY <1>2, <1>3, <1>5, <1>7, PointIsAdded
<1>9. \A q \in Collector : Resting(cols'[q])
  <2>1. PICK c : c = [NewCol EXCEPT !.pc = "sleep"]
    OBVIOUS
  <2>2. cols' = [cols EXCEPT ![p] = c] /\ c.pc = "sleep"
    BY <2>1 DEF SavePoint, NewCol
  <2>3. \A q \in Collector : q # p => cols[q].pc \notin Building
    BY <1>2 DEF OneCollectorWrites, Building
  <2> QED
    BY <1>2, <2>2, <2>3 DEF Resting, Snapping, Building
<1>10. \A q \in Collector : /\ StartsEmpty(cols'[q])
                            /\ CountsOn(jobs, P2, cols'[q], f, g)
  BY <1>9 DEF Resting, Snapping, StartsEmpty, CountsOn, Counting
<1>11. Windows(cols', jobs, P2)
  BY <1>8, <1>10 DEF Windows
<1> QED
  BY <1>6, <1>11 DEF WindowsOK, SavePoint, fleet, outside

\* The fleet moves, or time passes: what has ended stays as it ended.
LEMMA OutsideCounts ==
    ASSUME MetricsOK, WindowsOK,
           \/ \E w \in Watched : LeaseMoves(w)
           \/ \E j \in Job, w \in Watched, s \in {"RUNNING"} \cup Ended : JobMoves(j, w, s)
           \/ \E next \in [dead : 0..1, pending : 0..1] : PlaneMoves(next)
           \/ MetricsTick
           \/ UNCHANGED metricsVars
    PROVE  WindowsOK'
<1>1. cols \in [Collector -> ColRecord] /\ Windows(cols, jobs, points)
  BY DEF MetricsOK, MetricsTypeOK, WindowsOK
<1>2. points' = points
  BY DEF LeaseMoves, JobMoves, PlaneMoves, FleetEvent, MetricsTick, metricsVars
<1>3. ASSUME NEW j \in Job, jobs[j].status \in Ended
      PROVE  jobs'[j] = jobs[j]
  <2>1. CASE \E k \in Job, w \in Watched, s \in {"RUNNING"} \cup Ended : JobMoves(k, w, s)
    <3>1. PICK k \in Job, w \in Watched, s \in {"RUNNING"} \cup Ended : JobMoves(k, w, s)
      BY <2>1
    <3>2. jobs[k].status \notin Ended
      BY <3>1 DEF JobMoves, Ended
    <3> QED
      BY <1>3, <3>1, <3>2 DEF JobMoves
  <2>2. CASE jobs' = jobs
    BY <2>2
  <2> QED
    BY <2>1, <2>2 DEF LeaseMoves, PlaneMoves, MetricsTick, fleet, outside, metricsVars
<1>4. ASSUME NEW p \in Collector
      PROVE  /\ cols'[p].pc = cols[p].pc /\ cols'[p].ids = cols[p].ids
             /\ cols'[p].todo = cols[p].todo /\ cols'[p].counts = cols[p].counts
  <2>1. cols[p] \in ColRecord
    BY <1>1
  <2>2. CASE cols' = cols
    BY <2>2
  <2>3. CASE \E w \in Watched : LeaseMoves(w)
    <3>1. cols'[p] = IF cols[p].pc \in Building THEN Witnessed(cols[p], up') ELSE cols[p]
      BY <2>3 DEF LeaseMoves
    <3> QED
      BY <2>1, <3>1 DEF Witnessed, ColRecord
  <2>4. CASE MetricsTick
    <3>1. cols'[p] = IF cols[p].pc = "off" THEN cols[p]
                     ELSE [cols[p] EXCEPT !.age = cols[p].age + 1]
      BY <2>4 DEF MetricsTick
    <3> QED
      BY <2>1, <3>1 DEF ColRecord
  <2> QED
    BY <2>2, <2>3, <2>4 DEF JobMoves, PlaneMoves, metricsVars
<1>5. \A p \in Collector : StartsEmpty(cols'[p])
  BY <1>1, <1>4 DEF Windows, StartsEmpty
<1>6. Windows(cols', jobs', points)
  BY <1>1, <1>3, <1>4, <1>5, NoneCounts
<1> QED
  BY <1>2, <1>6 DEF WindowsOK

\* A window over points that count growing sets: what succeeded is part of what
\* ended.
LEMMA GrowingWindow ==
    ASSUME NEW x \in Nat, NEW y \in Nat, NEW u \in Nat, NEW v \in Nat, x <= u, y <= v
    PROVE  AtLeastZero(u - x) <= AtLeastZero((u + v) - (x + y))
BY DEF AtLeastZero

\* The invariant gives both pictures the readers draw.
LEMMA WindowsAgree ==
    ASSUME MetricsOK, WindowsOK
    PROVE  ReadersAgree
<1>1. points \in Seq(Point) /\ IsFiniteSet(Job)
  BY FleetAssumption DEF MetricsOK, MetricsTypeOK
<1>2. ASSUME NEW i \in DOMAIN points, NEW k \in DOMAIN points, i < k,
             points[i].online = points[k].online
      PROVE  SloWindow(points[i], points[k]).successful
                <= SloWindow(points[i], points[k]).terminal
  <2>1. PICK d \in PointSets(points), e \in PointSets(points) :
           PointsGrow(jobs, points, d, e)
    BY DEF WindowsOK, Windows
  <2>2. i \in 1..Len(points) /\ k \in 1..Len(points)
    BY <1>1
  <2>3. /\ d[i] \in SUBSET Job /\ d[k] \in SUBSET Job /\ d[i] \subseteq d[k]
        /\ e[i] \in SUBSET Job /\ e[k] \in SUBSET Job /\ e[i] \subseteq e[k]
    BY <1>2, <2>1, <2>2 DEF PointsGrow, PointSets
  <2>4. /\ points[i].counts.completed = Cardinality(d[i])
        /\ points[k].counts.completed = Cardinality(d[k])
        /\ points[i].counts.failed = Cardinality(e[i])
        /\ points[k].counts.failed = Cardinality(e[k])
    BY <2>1, <2>2 DEF PointsGrow, Tally
  <2>5. /\ Cardinality(d[i]) \in Nat /\ Cardinality(d[k]) \in Nat
        /\ Cardinality(e[i]) \in Nat /\ Cardinality(e[k]) \in Nat
        /\ Cardinality(d[i]) <= Cardinality(d[k]) /\ Cardinality(e[i]) <= Cardinality(e[k])
    BY <1>1, <2>3, FS_Subset, FS_CardinalityType
  <2>6. PICK x \in Nat, y \in Nat, u \in Nat, v \in Nat :
           /\ x = points[i].counts.completed /\ y = points[i].counts.failed
           /\ u = points[k].counts.completed /\ v = points[k].counts.failed
           /\ x <= u /\ y <= v
    BY <2>4, <2>5
  <2>7. PICK win : win = SloWindow(points[i], points[k])
    OBVIOUS
  <2>8. /\ win.successful = AtLeastZero(u - x)
        /\ win.terminal = IF AtLeastZero((u + v) - (x + y)) > 0
                          THEN AtLeastZero((u + v) - (x + y))
                          ELSE AtLeastZero(u - x) + AtLeastZero(v - y)
    BY <2>6, <2>7 DEF SloWindow
  <2>9. win.successful <= win.terminal
    BY <2>6, <2>8, GrowingWindow DEF AtLeastZero
  <2> QED
    BY <2>7, <2>9
<1>3. FlowAgreesWithHealth
  BY DEF FlowAgreesWithHealth, FlowCritical, Health, Critical, PlainAlerts, SloAlerts
<1> QED
  BY <1>2, <1>3 DEF ReadersAgree, WindowRatioIsFraction

LEMMA WindowsStart ==
    ASSUME MetricsInit
    PROVE  WindowsOK
<1>1. points = <<>> /\ \A p \in Collector : Resting(cols[p])
  BY NewColTyped DEF MetricsInit, Resting, Snapping
<1>2. Len(points) = 0 /\ 1..Len(points) = {}
  BY <1>1
<1>3. PICK d \in PointSets(points) : TRUE
  <2>1. [i \in 1..Len(points) |-> {}] \in PointSets(points)
    BY DEF PointSets
  <2> QED
    BY <2>1
<1>4. PointsGrow(jobs, points, d, d)
  BY <1>2 DEF PointsGrow
<1>5. \A p \in Collector : StartsEmpty(cols[p]) /\ CountsOn(jobs, points, cols[p], d, d)
  BY <1>1 DEF Resting, Snapping, StartsEmpty, CountsOn, Counting
<1> QED
  BY <1>3, <1>4, <1>5 DEF WindowsOK, Windows

\* As long as one collector at a time builds and writes, the points it saves
\* count executions that only grow in number, worker by worker, so every window's
\* success ratio is a fraction and the two pictures of a point agree
\* (metrics/collector.py; metrics/snapshot.py, _summarize_slo_window).
THEOREM PicturesAgree == MetricsSpec /\ []OneCollectorWrites => []ReadersAgree
<1>1. MetricsInit => WindowsOK
  BY WindowsStart
<1>2. MetricsOK /\ WindowsOK /\ OneCollectorWrites /\ [MetricsNext]_metricsVars => WindowsOK'
  <2> SUFFICES ASSUME MetricsOK, WindowsOK, OneCollectorWrites, [MetricsNext]_metricsVars
               PROVE  WindowsOK'
    OBVIOUS
  <2>1. ASSUME NEW p \in Collector, CollectorStep(p)
        PROVE  WindowsOK'
    BY <2>1, BuildingCounts, LockCounts, SaveCounts, FleetAssumption DEF CollectorStep
  <2> QED
    BY <2>1, LockCounts, OutsideCounts DEF MetricsNext
<1>3. MetricsOK /\ WindowsOK => ReadersAgree
  BY WindowsAgree
<1> QED
  BY <1>1, <1>2, <1>3, MetricsInvariant, PTL DEF MetricsSpec

\* With a single collector nothing else is asked.
THEOREM OneCollectorAgrees ==
    ASSUME \A p, q \in Collector : p = q
    PROVE  MetricsSpec => []ReadersAgree
<1>1. OneCollectorWrites
  BY DEF OneCollectorWrites
<1> QED
  BY <1>1, PicturesAgree, PTL

-----------------------------------------------------------------------------
(* TraceStore: one trace, recorded and read back.                          *)

\* g is what F makes of a, applied over and over.
Iterated(g, F, a, N) == g[0] = a /\ \A n \in 1..N : g[n] = F[g[n - 1]]

\* A function can be applied over and over.
LEMMA Iterates ==
    ASSUME NEW N \in Nat, NEW X, NEW F \in [X -> X], NEW a \in X
    PROVE  \E g \in [0..N -> X] : Iterated(g, F, a, N)
<1> DEFINE G(g, m) == /\ g \in [0..m -> X] /\ g[0] = a
                      /\ \A n \in 1..m : g[n] = F[g[n - 1]]
           S == {m \in 0..N : \E g : G(g, m)}
<1>1. 0 \in S
  <2>1. G([n \in 0..0 |-> a], 0)
    OBVIOUS
  <2> HIDE DEF G
  <2> QED
    BY <2>1
<1>2. ASSUME NEW m \in 0..(N - 1), m \in S
      PROVE  m + 1 \in S
  <2>1. PICK g : G(g, m)
    BY <1>2
  <2> DEFINE h == [n \in 0..(m + 1) |-> IF n <= m THEN g[n] ELSE F[g[m]]]
  <2>2. h \in [0..(m + 1) -> X] /\ h[0] = a
    BY <2>1
  <2>3. ASSUME NEW n \in 1..(m + 1)
        PROVE  h[n] = F[h[n - 1]]
    <3>1. CASE n <= m
      <4>1. h[n] = g[n] /\ h[n - 1] = g[n - 1] /\ n \in 1..m
        BY <3>1
      <4> QED
        BY <2>1, <4>1
    <3>2. CASE n = m + 1
      BY <3>2
    <3> QED
      BY <3>1, <3>2
  <2>4. G(h, m + 1)
    BY <2>2, <2>3
  <2>5. m + 1 \in 0..N
    OBVIOUS
  <2> HIDE DEF G, h
  <2> QED
    BY <2>4, <2>5
<1>3. N \in S
  <2> HIDE DEF S
  <2>1. 0..N \subseteq S
    BY <1>1, <1>2, UpTo
  <2> QED
    BY <2>1
<1> QED
  BY <1>3 DEF Iterated

\* The chain of parents of an entry is what HitsCycle looks at.
LEMMA ChainUp ==
    ASSUME NEW kept, NEW N \in Nat, N = Cardinality(kept), NEW i \in kept
    PROVE  \E f : /\ f[0] = {i}
                  /\ \A n \in 1..N : f[n] = UNION {ParentIn(kept, j) : j \in f[n - 1]}
                  /\ HitsCycle(kept, i) <=> f[N] # {}
<1> DEFINE E(g) == g = [n \in 0..N |->
                          IF n = 0 THEN {i} ELSE UNION {ParentIn(kept, j) : j \in g[n - 1]}]
           f == CHOOSE g : E(g)
           F == [A \in SUBSET kept |-> UNION {ParentIn(kept, j) : j \in A}]
<1>1. F \in [SUBSET kept -> SUBSET kept] /\ {i} \in SUBSET kept
  BY DEF ParentIn
<1>2. PICK g \in [0..N -> SUBSET kept] : g[0] = {i} /\ \A n \in 1..N : g[n] = F[g[n - 1]]
  <2> HIDE DEF F
  <2>1. \E g \in [0..N -> SUBSET kept] : Iterated(g, F, {i}, N)
    BY <1>1, Iterates, Zenon
  <2> QED
    BY <2>1 DEF Iterated
<1>3. E(g)
  <2>1. \A n \in 0..N : n # 0 => n \in 1..N /\ n - 1 \in 0..N
    OBVIOUS
  <2>2. \A n \in 0..N : g[n] = IF n = 0 THEN {i} ELSE UNION {ParentIn(kept, j) : j \in g[n - 1]}
    BY <1>2, <2>1
  <2> QED
    BY <2>2
<1>4. E(f)
  <2> HIDE DEF E
  <2> QED
    BY <1>3
<1>5. f[0] = {i} /\ \A n \in 1..N : f[n] = UNION {ParentIn(kept, j) : j \in f[n - 1]}
  <2> DEFINE B(n) == IF n = 0 THEN {i} ELSE UNION {ParentIn(kept, j) : j \in f[n - 1]}
  <2>1. f = [n \in 0..N |-> B(n)]
    BY <1>4, Zenon
  <2> HIDE DEF f
  <2>2. B(0) = {i} /\ \A n \in 1..N : B(n) = UNION {ParentIn(kept, j) : j \in f[n - 1]}
    OBVIOUS
  <2>3. 0 \in 0..N /\ \A n \in 1..N : n \in 0..N
    OBVIOUS
  <2> HIDE DEF B
  <2>4. \A n \in 0..N : f[n] = B(n)
    BY <2>1, Zenon
  <2> QED
    BY <2>2, <2>3, <2>4
<1>6. HitsCycle(kept, i) <=> f[N] # {}
  BY Zenon DEF HitsCycle
<1> QED
  BY <1>5, <1>6

\* The levels of the merged tree.
LEMMA LevelsDown ==
    ASSUME NEW kept, NEW N \in Nat, N = Cardinality(kept)
    PROVE  \E s : /\ s[0] = {i \in kept : ParentIn(kept, i) = {} \/ HitsCycle(kept, i)}
                  /\ \A n \in 1..N :
                        s[n] = s[n - 1] \cup {i \in kept : ParentIn(kept, i) \cap s[n - 1] # {}}
                  /\ MergedTree(kept) = s[N]
<1> DEFINE first == {i \in kept : ParentIn(kept, i) = {} \/ HitsCycle(kept, i)}
           E(g) == g = [n \in 0..N |->
                          IF n = 0 THEN first
                          ELSE g[n - 1] \cup {i \in kept : ParentIn(kept, i) \cap g[n - 1] # {}}]
           s == CHOOSE g : E(g)
           F == [A \in SUBSET kept |-> A \cup {i \in kept : ParentIn(kept, i) \cap A # {}}]
<1>1. F \in [SUBSET kept -> SUBSET kept] /\ first \in SUBSET kept
  OBVIOUS
<1>2. PICK g \in [0..N -> SUBSET kept] : g[0] = first /\ \A n \in 1..N : g[n] = F[g[n - 1]]
  <2> HIDE DEF F, first
  <2>1. \E g \in [0..N -> SUBSET kept] : Iterated(g, F, first, N)
    BY <1>1, Iterates, Zenon
  <2> QED
    BY <2>1 DEF Iterated
<1>3. E(g)
  <2>1. \A n \in 0..N : n # 0 => n \in 1..N /\ n - 1 \in 0..N
    OBVIOUS
  <2> HIDE DEF first
  <2>2. \A n \in 0..N : g[n] = IF n = 0 THEN first
                               ELSE g[n - 1] \cup {i \in kept : ParentIn(kept, i) \cap g[n - 1] # {}}
    BY <1>2, <2>1
  <2> QED
    BY <2>2
<1>4. E(s)
  <2> HIDE DEF E
  <2> QED
    BY <1>3
<1>5. /\ s[0] = first
      /\ \A n \in 1..N :
            s[n] = s[n - 1] \cup {i \in kept : ParentIn(kept, i) \cap s[n - 1] # {}}
  <2> DEFINE B(n) == IF n = 0 THEN first
                     ELSE s[n - 1] \cup {i \in kept : ParentIn(kept, i) \cap s[n - 1] # {}}
  <2> HIDE DEF first, s
  <2>1. s = [n \in 0..N |-> B(n)]
    BY <1>4, Zenon
  <2>2. B(0) = first
        /\ \A n \in 1..N : B(n) = s[n - 1] \cup {i \in kept : ParentIn(kept, i) \cap s[n - 1] # {}}
    OBVIOUS
  <2>3. 0 \in 0..N /\ \A n \in 1..N : n \in 0..N
    OBVIOUS
  <2> HIDE DEF B
  <2>4. \A n \in 0..N : s[n] = B(n)
    BY <2>1, Zenon
  <2> QED
    BY <2>2, <2>3, <2>4
<1>6. MergedTree(kept) = s[N]
  BY Zenon DEF MergedTree
<1> QED
  BY <1>5, <1>6

\* Every entry is shown: its chain of parents ends at an entry without one, or
\* leads into a cycle and makes it a root.
LEMMA AllShown ==
    ASSUME NEW kept, NEW N \in Nat, N = Cardinality(kept)
    PROVE  MergedTree(kept) = kept
<1> DEFINE first == {i \in kept : ParentIn(kept, i) = {} \/ HitsCycle(kept, i)}
<1>1. PICK s : /\ s[0] = first
               /\ \A n \in 1..N :
                     s[n] = s[n - 1] \cup {i \in kept : ParentIn(kept, i) \cap s[n - 1] # {}}
               /\ MergedTree(kept) = s[N]
  BY LevelsDown
<1>2. \A n \in 0..N : first \subseteq s[n] /\ s[n] \subseteq kept
  <2> DEFINE S == {n \in 0..N : first \subseteq s[n] /\ s[n] \subseteq kept}
  <2>1. 0 \in S
    BY <1>1
  <2>2. ASSUME NEW n \in 0..(N - 1), n \in S
        PROVE  n + 1 \in S
    <3>1. n + 1 \in 1..N /\ (n + 1) - 1 = n /\ n + 1 \in 0..N
      OBVIOUS
    <3>2. s[n + 1] = s[n] \cup {i \in kept : ParentIn(kept, i) \cap s[n] # {}}
      BY <1>1, <3>1
    <3> HIDE DEF first
    <3> QED
      BY <2>2, <3>1, <3>2
  <2>3. 0..N \subseteq S
    <3> HIDE DEF S
    <3> QED
      BY <2>1, <2>2, UpTo
  <2> QED
    BY <2>3
<1>3. ASSUME NEW i \in kept
      PROVE  i \in s[N]
  <2>0. N \in 0..N
    OBVIOUS
  <2>1. CASE HitsCycle(kept, i)
    BY <1>2, <2>0, <2>1
  <2>2. CASE ~HitsCycle(kept, i)
    <3>1. PICK f : /\ f[0] = {i} /\ f[N] = {}
                   /\ \A n \in 1..N : f[n] = UNION {ParentIn(kept, j) : j \in f[n - 1]}
      BY <2>2, ChainUp
    <3> DEFINE S == {m \in 0..N : f[N - m] \cap kept \subseteq s[m]}
    <3>2. 0 \in S
      BY <3>1
    <3>3. ASSUME NEW m \in 0..(N - 1), m \in S
          PROVE  m + 1 \in S
      <4>1. /\ m + 1 \in 1..N /\ (m + 1) - 1 = m /\ m + 1 \in 0..N
            /\ N - m \in 1..N /\ (N - m) - 1 = N - (m + 1)
        OBVIOUS
      <4>2. s[m + 1] = s[m] \cup {j \in kept : ParentIn(kept, j) \cap s[m] # {}}
        BY <1>1, <4>1
      <4>3. f[N - m] = UNION {ParentIn(kept, j) : j \in f[N - (m + 1)]}
        BY <3>1, <4>1
      <4>4. ASSUME NEW j \in f[N - (m + 1)], j \in kept
            PROVE  j \in s[m + 1]
        <5>1. CASE ParentIn(kept, j) = {}
          <6>1. j \in first
            BY <4>4, <5>1
          <6> QED
            BY <1>2, <4>1, <6>1
        <5>2. CASE ParentIn(kept, j) # {}
          <6>1. ParentIn(kept, j) \subseteq f[N - m] \cap kept
            BY <4>3, <4>4 DEF ParentIn
          <6>2. ParentIn(kept, j) \subseteq s[m]
            BY <3>3, <6>1
          <6> QED
            BY <4>2, <4>4, <5>2, <6>2
        <5> QED
          BY <5>1, <5>2
      <4> QED
        BY <4>1, <4>4
    <3>4. N \in S
      <4> HIDE DEF S
      <4> QED
        BY <2>0, <3>2, <3>3, UpTo
    <3> QED
      BY <3>1, <3>4
  <2> QED
    BY <2>1, <2>2
<1>4. N \in 0..N
  OBVIOUS
<1> QED
  BY <1>1, <1>2, <1>3, <1>4

\* The types of what an activation is made of.
Phases == {"idle", "running", "calling", "returning", "marking", "closing", "rooting", "over"}
Statuses == {"COMPLETED", "FAILED", "WAITING_AGENT"}
Exports == {NoExport} \cup [span : Span, seen : Nat]
MetaRecord == [start : Nat, status : Statuses \cup {"QUEUED"}, end : Statuses \cup {""}]

\* s is the span of the segment that began at b and ended with the status o.
IsSegment(s, b, o) == s.start = b /\ s.status = o
OfWork(s) == s.id[2] = "worker.execute"

\* The activation r is in the phase pc with outcome o, began at b and has x to
\* export, at the time t.
PhaseOK(r, pc, o, b, x, t) ==
    /\ pc = "idle" => o = ""
    /\ pc \in {"returning", "marking", "closing", "rooting"} => o # ""
    /\ r # Client /\ pc # "idle" => b \in 1..t
    /\ r = Client => pc \in {"calling", "over"} /\ o = ""
    /\ x # NoExport => pc \in {"calling", "returning", "closing"}
    /\ x # NoExport /\ OfWork(x.span) => pc = "closing" /\ IsSegment(x.span, b, o)

Begun(r) == r \in Runs \ {Client} /\ runs[r] # "idle"

\* Activations begin at different times, and a stored span of a segment has the
\* status of the one activation that began when it did.
TraceOK ==
    /\ TraceTypeOK
    /\ \A r \in Runs : PhaseOK(r, runs[r], outcome[r], began[r], export[r], clock)
    /\ \A q, r \in Runs : Begun(q) /\ Begun(r) /\ began[q] = began[r] => q = r
    /\ \A i \in 1..Len(spans) : OfWork(spans[i]) =>
          \E q \in Runs \ {Client} : /\ runs[q] \in {"rooting", "over"}
                                     /\ IsSegment(spans[i], began[q], outcome[q])

\* Appended to the list, or not.
Stores(old, new, r, pc, o, b) ==
    \/ new = old
    \/ \E s \in Span : /\ new = Append(old, s)
                       /\ OfWork(s) => /\ r # Client /\ pc \in {"rooting", "over"}
                                       /\ IsSegment(s, b, o)

Writes(r, pc, o, b) == Stores(spans, spans', r, pc, o, b)

\* The activation r goes to the phase pc, and keeps its times and its end.
GoesTo(r, pc, o, b, x, t) ==
    /\ runs' = [runs EXCEPT ![r] = pc] /\ outcome' = [outcome EXCEPT ![r] = o]
    /\ began' = [began EXCEPT ![r] = b] /\ export' = [export EXCEPT ![r] = x]
    /\ clock' = t /\ clock <= t
    /\ called' \subseteq Hop /\ replied' \subseteq Hop /\ finished' \subseteq Hop
    /\ meta' \in MetaRecord
Keeps(r, pc, o, b) ==
    /\ runs[r] \in {"rooting", "over"} => pc = "over" /\ o = outcome[r] /\ b = began[r]
    /\ b > clock \/ (b = began[r] /\ (pc = "idle" \/ runs[r] # "idle"))

\* Of times: a later one, and one that has passed.
LEMMA Longer ==
    ASSUME NEW m \in Nat, NEW n \in Nat, m <= n
    PROVE  1..m \subseteq 1..n
OBVIOUS

LEMMA NextTime ==
    ASSUME NEW m \in Nat
    PROVE  /\ m + 1 \in Nat /\ m + 1 \in 1..(m + 1) /\ m + 1 > m /\ m <= m + 1
           /\ \A n \in 1..m : n \in 1..(m + 1)
OBVIOUS

LEMMA NotAfter ==
    ASSUME NEW m \in Nat, NEW k \in 1..m
    PROVE  ~(k > m)
OBVIOUS

\* One more or the same: what the list holds.
LEMMA StoresOne ==
    ASSUME NEW old \in Seq(Span), NEW new, NEW r, NEW pc, NEW o, NEW b,
           Stores(old, new, r, pc, o, b)
    PROVE  /\ new \in Seq(Span)
           /\ \A i \in 1..Len(new) :
                 \/ i \in 1..Len(old) /\ new[i] = old[i]
                 \/ OfWork(new[i]) => /\ r # Client /\ pc \in {"rooting", "over"}
                                      /\ IsSegment(new[i], b, o)
<1>1. CASE new = old
  BY <1>1
<1>2. CASE new # old
  <2>1. PICK s \in Span : /\ new = Append(old, s)
                          /\ OfWork(s) => /\ r # Client /\ pc \in {"rooting", "over"}
                                          /\ IsSegment(s, b, o)
    BY <1>2 DEF Stores
  <2>2. /\ new \in Seq(Span) /\ Len(new) = Len(old) + 1 /\ Len(old) \in Nat
        /\ \A i \in 1..Len(old) : new[i] = old[i]
        /\ new[Len(old) + 1] = s
    BY <2>1
  <2> QED
    BY <2>1, <2>2
<1> QED
  BY <1>1, <1>2

\* One activation moves, and may store a span.
LEMMA OneMoves ==
    ASSUME TraceOK, NEW r \in Runs,
           NEW pc \in Phases, NEW o \in Statuses \cup {""}, NEW b \in Nat,
           NEW x \in Exports, NEW t \in Nat, GoesTo(r, pc, o, b, x, t), Keeps(r, pc, o, b),
           PhaseOK(r, pc, o, b, x, t), Writes(r, pc, o, b)
    PROVE  TraceOK'
<1>1. /\ runs \in [Runs -> Phases] /\ outcome \in [Runs -> Statuses \cup {""}]
      /\ began \in [Runs -> Nat] /\ export \in [Runs -> Exports]
      /\ clock \in Nat /\ spans \in Seq(Span)
  BY DEF TraceOK, TraceTypeOK, Phases, Statuses, Exports
<1>2. \A q \in Runs : /\ runs'[q] = IF q = r THEN pc ELSE runs[q]
                      /\ outcome'[q] = IF q = r THEN o ELSE outcome[q]
                      /\ began'[q] = IF q = r THEN b ELSE began[q]
                      /\ export'[q] = IF q = r THEN x ELSE export[q]
  BY <1>1 DEF GoesTo
<1>0. PICK now \in Nat : now = clock /\ now <= t
  BY <1>1 DEF GoesTo
<1>3. PICK old \in Seq(Span), new \in Seq(Span) :
         /\ old = spans /\ new = spans'
         /\ \A i \in 1..Len(new) :
               \/ i \in 1..Len(old) /\ new[i] = old[i]
               \/ OfWork(new[i]) => /\ r # Client /\ pc \in {"rooting", "over"}
                                    /\ IsSegment(new[i], b, o)
  BY <1>1, StoresOne DEF Writes
<1>4. TraceTypeOK'
  <2>1. /\ runs' \in [Runs -> Phases] /\ outcome' \in [Runs -> Statuses \cup {""}]
        /\ began' \in [Runs -> Nat] /\ export' \in [Runs -> Exports] /\ clock' \in Nat
    BY <1>1 DEF GoesTo
  <2> QED
    BY <1>3, <2>1 DEF GoesTo, TraceTypeOK, Phases, Statuses, Exports, MetaRecord
<1>5. ASSUME NEW q \in Runs
      PROVE  PhaseOK(q, runs'[q], outcome'[q], began'[q], export'[q], t)
  <2>1. CASE q = r
    BY <1>2, <2>1
  <2>2. CASE q # r
    <3>1. PhaseOK(q, runs[q], outcome[q], began[q], export[q], clock)
      BY DEF TraceOK
    <3>2. 1..clock \subseteq 1..t
      <4>1. 1..now \subseteq 1..t
        BY <1>0, Longer
      <4> QED
        BY <1>0, <4>1
    <3>3. PhaseOK(q, runs[q], outcome[q], began[q], export[q], t)
      BY <1>1, <3>1, <3>2 DEF PhaseOK
    <3> QED
      BY <1>2, <2>2, <3>3
  <2> QED
    BY <2>1, <2>2
<1>6. ASSUME NEW p \in Runs, NEW q \in Runs, Begun(p)', Begun(q)', began'[p] = began'[q]
      PROVE  p = q
  <2>1. \A u \in Runs : Begun(u) => began[u] \in 1..now
    BY <1>0 DEF TraceOK, PhaseOK, Begun
  <2>2. b > now \/ (b = began[r] /\ (pc = "idle" \/ runs[r] # "idle"))
    BY <1>0 DEF Keeps
  <2>3. ASSUME NEW u \in Runs, Begun(u)', u # r
        PROVE  Begun(u) /\ began'[u] = began[u]
    BY <1>2, <2>3 DEF Begun
  <2>4. CASE p = r /\ q # r
    <3>1. Begun(q) /\ began'[q] = began[q] /\ began'[p] = b
      BY <1>2, <1>6, <2>3, <2>4
    <3>a. b \in 1..now /\ ~(b > now)
      <4>1. b = began[q] /\ b \in 1..now
        BY <1>6, <2>1, <2>4, <3>1
      <4> QED
        BY <4>1, NotAfter
    <3>b. pc # "idle" /\ r # Client
      BY <1>2, <1>6, <2>4 DEF Begun
    <3>2. b = began[r] /\ Begun(r)
      BY <2>2, <3>a, <3>b DEF Begun
    <3> QED
      BY <1>6, <2>4, <3>1, <3>2 DEF TraceOK
  <2>5. CASE p # r /\ q = r
    <3>1. Begun(p) /\ began'[p] = began[p] /\ began'[q] = b
      BY <1>2, <1>6, <2>3, <2>5
    <3>a. b \in 1..now /\ ~(b > now)
      <4>1. b = began[p] /\ b \in 1..now
        BY <1>6, <2>1, <2>5, <3>1
      <4> QED
        BY <4>1, NotAfter
    <3>b. pc # "idle" /\ r # Client
      BY <1>2, <1>6, <2>5 DEF Begun
    <3>2. b = began[r] /\ Begun(r)
      BY <2>2, <3>a, <3>b DEF Begun
    <3> QED
      BY <1>6, <2>5, <3>1, <3>2 DEF TraceOK
  <2>6. CASE p # r /\ q # r
    BY <1>6, <2>3, <2>6 DEF TraceOK
  <2> QED
    BY <2>4, <2>5, <2>6
<1>7. ASSUME NEW s, NEW q \in Runs \ {Client}, runs[q] \in {"rooting", "over"},
             IsSegment(s, began[q], outcome[q])
      PROVE  runs'[q] \in {"rooting", "over"} /\ IsSegment(s, began'[q], outcome'[q])
  BY <1>2, <1>7 DEF Keeps
<1>8. ASSUME NEW i \in 1..Len(new), OfWork(new[i])
      PROVE  \E q \in Runs \ {Client} : /\ runs'[q] \in {"rooting", "over"}
                                        /\ IsSegment(new[i], began'[q], outcome'[q])
  <2>1. CASE i \in 1..Len(old) /\ new[i] = old[i]
    <3>1. PICK q \in Runs \ {Client} : /\ runs[q] \in {"rooting", "over"}
                                       /\ IsSegment(old[i], began[q], outcome[q])
      BY <1>3, <1>8, <2>1 DEF TraceOK
    <3> QED
      BY <1>7, <2>1, <3>1
  <2>2. CASE /\ r # Client /\ pc \in {"rooting", "over"}
             /\ IsSegment(new[i], b, o)
    BY <1>2, <2>2
  <2> QED
    BY <1>3, <1>8, <2>1, <2>2
<1>9. \A q \in Runs : PhaseOK(q, runs[q], outcome[q], began[q], export[q], clock)'
  BY <1>5, Zenon DEF PhaseOK, GoesTo
<1> QED
  BY <1>3, <1>4, <1>6, <1>8, <1>9 DEF TraceOK

\* An activation is one of an execution, by its dispatch or by a child's reply.
LEMMA RunParts ==
    ASSUME NEW r \in Runs, r # Client
    PROVE  r[1] \in Hop /\ (r[2] = NoHop \/ r[2] \in Hop)
<1>1. CASE r \in Hop \X {NoHop}
  BY <1>1
<1>2. CASE \E c \in Hop : Caller[c] # NoHop /\ r = <<Caller[c], c>>
  BY <1>2, TraceAssumption
<1> QED
  BY <1>1, <1>2 DEF Runs

\* Nothing happens to what an activation does not touch.
LEMMA StaysAsItIs ==
    ASSUME TraceOK, NEW r \in Runs
    PROVE  /\ runs = [runs EXCEPT ![r] = runs[r]]
           /\ outcome = [outcome EXCEPT ![r] = outcome[r]]
           /\ began = [began EXCEPT ![r] = began[r]]
           /\ export = [export EXCEPT ![r] = export[r]]
           /\ runs[r] \in Phases /\ outcome[r] \in Statuses \cup {""}
           /\ began[r] \in Nat /\ export[r] \in Exports
           /\ clock \in Nat /\ clock <= clock /\ meta \in MetaRecord
           /\ called \subseteq Hop /\ replied \subseteq Hop /\ finished \subseteq Hop
           /\ PhaseOK(r, runs[r], outcome[r], began[r], export[r], clock)
<1>1. /\ runs \in [Runs -> Phases] /\ outcome \in [Runs -> Statuses \cup {""}]
      /\ began \in [Runs -> Nat] /\ export \in [Runs -> Exports]
      /\ clock \in Nat /\ meta \in MetaRecord
      /\ called \subseteq Hop /\ replied \subseteq Hop /\ finished \subseteq Hop
      /\ PhaseOK(r, runs[r], outcome[r], began[r], export[r], clock)
  BY DEF TraceOK, TraceTypeOK, Phases, Statuses, Exports, MetaRecord
<1>2. \A X : \A f \in [Runs -> X] : f = [f EXCEPT ![r] = f[r]]
  OBVIOUS
<1>3. \A n \in Nat : n <= n
  OBVIOUS
<1>4. /\ runs = [runs EXCEPT ![r] = runs[r]] /\ outcome = [outcome EXCEPT ![r] = outcome[r]]
      /\ began = [began EXCEPT ![r] = began[r]] /\ export = [export EXCEPT ![r] = export[r]]
  BY <1>1, <1>2
<1> QED
  BY <1>1, <1>3, <1>4

LEMMA SpanTyped ==
    ASSUME NEW id \in SpanId, NEW parent \in SpanId \cup {NoSpan}, NEW start \in Nat,
           NEW status \in Statuses, NEW s,
           s = [id |-> id, parent |-> parent, start |-> start, status |-> status]
    PROVE  s \in Span /\ s.id = id /\ IsSegment(s, start, status)
BY DEF Span, Statuses, IsSegment

LEMMA IdTyped ==
    ASSUME NEW h \in Hop, NEW k \in {"client.dispatch", "worker.execute", "agent.return"}
    PROVE  <<h, k>> \in SpanId /\ <<h, k>>[2] = k
BY DEF SpanId

\* The span an activation exports is its own segment's, or not one of work.
LEMMA SpanOfTyped ==
    ASSUME TraceOK, NEW r \in Runs,
           runs[r] \in {"returning", "closing"} \/ (r = Client /\ runs[r] = "calling")
    PROVE  /\ SpanOf(r) \in Span
           /\ OfWork(SpanOf(r)) => /\ runs[r] = "closing"
                                   /\ IsSegment(SpanOf(r), began[r], outcome[r])
<1>1. /\ PhaseOK(r, runs[r], outcome[r], began[r], export[r], clock)
      /\ began[r] \in Nat /\ clock \in Nat /\ outcome[r] \in Statuses \cup {""}
  BY StaysAsItIs
<1>2. PICK s : s = SpanOf(r)
  OBVIOUS
<1>3. CASE r = Client
  <2>1. PICK h \in Hop : h = CHOOSE z \in Roots : TRUE
    BY RootAssumption DEF Roots
  <2>2. PICK id \in SpanId : id = <<h, "client.dispatch">> /\ id[2] = "client.dispatch"
    BY IdTyped
  <2>3. s = [id |-> id, parent |-> NoSpan, start |-> 1, status |-> "COMPLETED"]
    BY <1>1, <1>2, <1>3, <2>1, <2>2 DEF SpanOf, PhaseOK
  <2>4. s \in Span /\ s.id = id
    BY <2>3, SpanTyped DEF Statuses
  <2> QED
    BY <1>2, <2>2, <2>4 DEF OfWork
<1>4. CASE r # Client /\ runs[r] = "returning"
  <2>1. r[1] \in Hop /\ outcome[r] \in Statuses
    BY <1>1, <1>4, RunParts DEF PhaseOK
  <2>2. PICK now \in Nat, status \in Statuses : now = clock /\ status = outcome[r]
    BY <1>1, <2>1
  <2>3. PICK id \in SpanId, parent \in SpanId :
           /\ id = <<r[1], "agent.return">> /\ id[2] = "agent.return"
           /\ parent = <<r[1], "worker.execute">>
    BY <2>1, IdTyped
  <2>4. s = [id |-> id, parent |-> parent, start |-> now, status |-> status]
    BY <1>2, <1>4, <2>2, <2>3 DEF SpanOf
  <2>5. s \in Span /\ s.id = id
    BY <2>4, SpanTyped
  <2> QED
    BY <1>2, <2>3, <2>5 DEF OfWork
<1>5. CASE r # Client /\ runs[r] = "closing"
  <2>1. r[1] \in Hop /\ outcome[r] \in Statuses /\ (r[2] = NoHop \/ r[2] \in Hop)
    BY <1>1, <1>5, RunParts DEF PhaseOK
  <2>2. PICK b \in Nat, status \in Statuses : b = began[r] /\ status = outcome[r]
    BY <1>1, <2>1
  <2>3. PICK id \in SpanId, parent \in SpanId :
           /\ id = <<r[1], "worker.execute">>
           /\ parent = IF r[2] = NoHop THEN <<r[1], "client.dispatch">>
                                       ELSE <<r[2], "agent.return">>
    BY <2>1, IdTyped
  <2>4. s = [id |-> id, parent |-> parent, start |-> b, status |-> status]
    BY <1>2, <1>5, <2>2, <2>3 DEF SpanOf
  <2>5. s \in Span /\ IsSegment(s, b, status)
    BY <2>4, SpanTyped
  <2> QED
    BY <1>2, <1>5, <2>2, <2>5
<1> QED
  BY <1>3, <1>4, <1>5

LEMMA ReadingKeeps ==
    ASSUME TraceOK, NEW r \in Runs, ExportReads(r)
    PROVE  TraceOK'
<1>1. PICK x : x = [span |-> SpanOf(r), seen |-> meta.start]
  OBVIOUS
<1>2. /\ runs[r] \in {"returning", "closing"} \/ (r = Client /\ runs[r] = "calling")
      /\ export' = [export EXCEPT ![r] = x]
      /\ UNCHANGED <<clock, runs, began, outcome, called, replied, finished, spans, meta>>
  BY <1>1 DEF ExportReads
<1>3. x \in Exports /\ x.span = SpanOf(r)
  BY <1>1, <1>2, SpanOfTyped, StaysAsItIs DEF Exports, MetaRecord
<1>4. PhaseOK(r, runs[r], outcome[r], began[r], x, clock)
  BY <1>2, <1>3, SpanOfTyped, StaysAsItIs DEF PhaseOK
<1>5. GoesTo(r, runs[r], outcome[r], began[r], x, clock)
  BY <1>2, StaysAsItIs DEF GoesTo
<1>6. Keeps(r, runs[r], outcome[r], began[r]) /\ Writes(r, runs[r], outcome[r], began[r])
  BY <1>2 DEF Keeps, Writes, Stores, PhaseOK
<1> QED
  BY <1>3, <1>4, <1>5, <1>6, StaysAsItIs, OneMoves

\* An export is over: the phase that follows.
LEMMA AfterExportIs ==
    ASSUME TraceOK, NEW r \in Runs, export[r] # NoExport, AfterExport(r)
    PROVE  \E pc \in Phases :
              /\ runs' = [runs EXCEPT ![r] = pc] /\ replied' \subseteq Hop
              /\ PhaseOK(r, pc, outcome[r], began[r], NoExport, clock)
              /\ Keeps(r, pc, outcome[r], began[r])
              /\ OfWork(export[r].span) => r # Client /\ pc \in {"rooting", "over"}
<1>1. /\ runs[r] \in Phases /\ replied \subseteq Hop
      /\ PhaseOK(r, runs[r], outcome[r], began[r], export[r], clock)
  BY StaysAsItIs
<1>2. runs[r] \in {"calling", "returning", "closing"}
  BY <1>1 DEF PhaseOK
<1>3. r = Client => runs[r] = "calling"
  BY <1>1, <1>2 DEF PhaseOK
<1>4. PICK pc \in {"running", "marking", "rooting", "over"} :
         /\ runs' = [runs EXCEPT ![r] = pc]
         /\ pc \in {"marking", "rooting"} => outcome[r] # ""
         /\ r = Client => pc = "over"
         /\ runs[r] = "closing" => pc \in {"rooting", "over"}
  <2>1. CASE runs[r] = "calling" /\ r # Client
    BY <2>1 DEF AfterExport
  <2>2. CASE runs[r] = "calling" /\ r = Client
    BY <2>2 DEF AfterExport
  <2>3. CASE runs[r] = "returning"
    BY <1>1, <1>3, <2>3 DEF AfterExport, PhaseOK
  <2>4. CASE runs[r] = "closing"
    <3>1. outcome[r] # "" /\ r # Client
      BY <1>1, <1>3, <2>4 DEF PhaseOK
    <3> QED
      BY <2>4, <3>1 DEF AfterExport
  <2> QED
    BY <1>2, <2>1, <2>2, <2>3, <2>4
<1>5. replied' \subseteq Hop
  BY <1>1, <1>3, RunParts DEF AfterExport
<1>6. PhaseOK(r, pc, outcome[r], began[r], NoExport, clock)
  BY <1>1, <1>2, <1>4 DEF PhaseOK
<1>7. Keeps(r, pc, outcome[r], began[r])
  BY <1>2 DEF Keeps
<1>8. OfWork(export[r].span) => runs[r] = "closing" /\ r # Client
  BY <1>1 DEF PhaseOK
<1> QED
  BY <1>4, <1>5, <1>6, <1>7, <1>8 DEF Phases

\* The span is stored, or dropped.
LEMMA ExportKeeps ==
    ASSUME TraceOK, NEW r \in Runs, ExportWrites(r) \/ ExportFails(r)
    PROVE  TraceOK'
<1>1. /\ export[r] # NoExport /\ AfterExport(r) /\ export' = [export EXCEPT ![r] = NoExport]
      /\ UNCHANGED <<clock, began, outcome, called, finished>>
  BY DEF ExportWrites, ExportFails
<1>2. PICK pc \in Phases :
         /\ runs' = [runs EXCEPT ![r] = pc] /\ replied' \subseteq Hop
         /\ PhaseOK(r, pc, outcome[r], began[r], NoExport, clock)
         /\ Keeps(r, pc, outcome[r], began[r])
         /\ OfWork(export[r].span) => r # Client /\ pc \in {"rooting", "over"}
  BY <1>1, AfterExportIs
<1>3. export[r].span \in Span /\ export[r].seen \in Nat
      /\ (OfWork(export[r].span) => IsSegment(export[r].span, began[r], outcome[r]))
  <2>1. export[r] \in Exports /\ PhaseOK(r, runs[r], outcome[r], began[r], export[r], clock)
    BY StaysAsItIs
  <2> QED
    BY <1>1, <2>1 DEF Exports, PhaseOK
<1>4. meta' \in MetaRecord
  <2>1. meta \in MetaRecord
    BY StaysAsItIs
  <2>2. CASE ExportFails(r)
    BY <2>1, <2>2 DEF ExportFails
  <2>3. CASE ExportWrites(r)
    <3>1. PICK s \in Span, n \in Nat : s = export[r].span /\ n = export[r].seen
      BY <1>3
    <3>2. s.status \in Statuses /\ s.start \in Nat
      BY DEF Span, Statuses
    <3>3. PICK start \in Nat : start = IF n < s.start THEN n ELSE s.start
      BY <3>2
    <3>4. meta' = [meta EXCEPT !.status = s.status, !.start = start]
      BY <2>3, <3>1, <3>3 DEF ExportWrites
    <3> QED
      BY <2>1, <3>2, <3>4 DEF MetaRecord
  <2> QED
    BY <2>2, <2>3
<1>5. Writes(r, pc, outcome[r], began[r])
  <2>1. spans' = spans \/ spans' = Append(spans, export[r].span)
    BY DEF ExportWrites, ExportFails
  <2> QED
    BY <1>2, <1>3, <2>1 DEF Writes, Stores
<1>6. GoesTo(r, pc, outcome[r], began[r], NoExport, clock)
  BY <1>1, <1>2, <1>4, StaysAsItIs DEF GoesTo
<1>7. NoExport \in Exports
  BY DEF Exports
<1> QED
  BY <1>2, <1>5, <1>6, <1>7, StaysAsItIs, OneMoves

\* An activation begins, or is refused.
LEMMA BeginKeeps ==
    ASSUME TraceOK, NEW r \in Runs, RunBegins(r) \/ RunRefused(r)
    PROVE  TraceOK'
<1>1. PICK now \in Nat : now = clock
  BY StaysAsItIs
<1>2. PICK pc \in {"running", "closing"}, o \in Statuses \cup {""} :
         /\ runs' = [runs EXCEPT ![r] = pc] /\ outcome' = [outcome EXCEPT ![r] = o]
         /\ pc = "closing" => o # ""
  <2>1. CASE RunBegins(r)
    BY <2>1, StaysAsItIs DEF RunBegins
  <2>2. CASE RunRefused(r)
    BY <2>2 DEF RunRefused, Statuses
  <2> QED
    BY <2>1, <2>2
<1>3. /\ r # Client /\ runs[r] = "idle" /\ clock' = now + 1
      /\ began' = [began EXCEPT ![r] = now + 1]
      /\ UNCHANGED <<called, replied, finished, export, spans, meta>>
  BY <1>1 DEF RunBegins, RunRefused
<1>4. export[r] = NoExport
  BY <1>3, StaysAsItIs DEF PhaseOK
<1>5. now + 1 \in Nat /\ now + 1 \in 1..(now + 1) /\ now + 1 > now /\ now <= now + 1
  BY NextTime
<1>6. GoesTo(r, pc, o, now + 1, export[r], now + 1)
  BY <1>1, <1>2, <1>3, <1>5, StaysAsItIs DEF GoesTo
<1>7. Keeps(r, pc, o, now + 1)
  BY <1>1, <1>3, <1>5 DEF Keeps
<1>8. PhaseOK(r, pc, o, now + 1, export[r], now + 1)
  BY <1>2, <1>3, <1>4, <1>5 DEF PhaseOK
<1>9. Writes(r, pc, o, now + 1) /\ pc \in Phases
  BY <1>3 DEF Writes, Stores, Phases
<1> QED
  BY <1>2, <1>5, <1>6, <1>7, <1>8, <1>9, StaysAsItIs, OneMoves

\* A call goes out, its span to follow.
LEMMA CallExported ==
    ASSUME TraceOK, NEW r \in Runs, NEW c \in Hop, CallsAgent(r, c)
    PROVE  TraceOK'
<1>1. PICK now \in Nat, seen \in Nat : now = clock /\ seen = meta.start
  BY StaysAsItIs DEF MetaRecord
<1>2. /\ r # Client /\ runs[r] = "running" /\ clock' = now + 1
      /\ runs' = [runs EXCEPT ![r] = "calling"] /\ called' = called \cup {c}
      /\ UNCHANGED <<began, outcome, replied, finished, spans, meta>>
  BY <1>1 DEF CallsAgent
<1>3. PICK id \in SpanId, parent \in SpanId :
         /\ id = <<c, "client.dispatch">> /\ id[2] = "client.dispatch"
         /\ parent = <<r[1], "worker.execute">>
  BY <1>2, RunParts, IdTyped
<1>4. PICK s : s = [id |-> id, parent |-> parent, start |-> now + 1, status |-> "COMPLETED"]
  OBVIOUS
<1>5. s \in Span /\ s.id = id
  BY <1>4, SpanTyped DEF Statuses
<1>6. PICK x : x = [span |-> s, seen |-> seen]
  OBVIOUS
<1>7. x \in Exports /\ ~OfWork(x.span) /\ export' = [export EXCEPT ![r] = x]
  BY <1>1, <1>3, <1>4, <1>5, <1>6 DEF Exports, OfWork, CallsAgent
<1>8. /\ now + 1 \in Nat /\ now <= now + 1 /\ "calling" \in Phases
      /\ \A n \in 1..now : n \in 1..(now + 1)
  BY NextTime DEF Phases
<1>9. GoesTo(r, "calling", outcome[r], began[r], x, now + 1)
  BY <1>1, <1>2, <1>7, <1>8, StaysAsItIs DEF GoesTo
<1>10. Keeps(r, "calling", outcome[r], began[r]) /\ Writes(r, "calling", outcome[r], began[r])
  BY <1>2 DEF Keeps, Writes, Stores
<1>11. PhaseOK(r, "calling", outcome[r], began[r], x, now + 1)
  BY <1>1, <1>2, <1>7, <1>8, StaysAsItIs DEF PhaseOK
<1> QED
  BY <1>7, <1>8, <1>9, <1>10, <1>11, StaysAsItIs, OneMoves

\* The handler returns, the execution is marked, the root's end is written.
LEMMA EndKeeps ==
    ASSUME TraceOK, NEW r \in Runs,
           \/ \E status \in {"COMPLETED", "FAILED", "WAITING_AGENT"} : RunEnds(r, status)
           \/ RunMarks(r) \/ RootEnds(r)
    PROVE  TraceOK'
<1>1. PhaseOK(r, runs[r], outcome[r], began[r], export[r], clock)
  BY StaysAsItIs
<1>2. /\ runs[r] \in {"running", "marking", "rooting"} /\ r # Client
      /\ UNCHANGED <<clock, began, called, replied, export, spans>>
  BY <1>1 DEF RunEnds, RunMarks, RootEnds, PhaseOK
<1>3. export[r] = NoExport
  BY <1>1, <1>2 DEF PhaseOK
<1>4. PICK pc \in {"returning", "marking", "closing", "over"}, o \in Statuses :
         /\ runs' = [runs EXCEPT ![r] = pc] /\ outcome' = [outcome EXCEPT ![r] = o]
         /\ runs[r] = "rooting" => pc = "over" /\ o = outcome[r]
  <2>1. CASE \E status \in {"COMPLETED", "FAILED", "WAITING_AGENT"} : RunEnds(r, status)
    BY <2>1 DEF RunEnds, Statuses
  <2>2. CASE RunMarks(r) \/ RootEnds(r)
    <3>1. outcome[r] \in Statuses
      BY <1>1, <2>2, StaysAsItIs DEF RunMarks, RootEnds, PhaseOK
    <3>2. outcome' = [outcome EXCEPT ![r] = outcome[r]]
      BY <2>2, StaysAsItIs DEF RunMarks, RootEnds
    <3> QED
      BY <2>2, <3>1, <3>2 DEF RunMarks, RootEnds
  <2> QED
    BY <2>1, <2>2
<1>5. finished' \subseteq Hop
  <2>1. finished \subseteq Hop /\ r[1] \in Hop
    BY <1>2, StaysAsItIs, RunParts
  <2>2. finished' = finished \/ finished' = finished \cup {r[1]}
    BY DEF RunEnds, RunMarks, RootEnds
  <2> QED
    BY <2>1, <2>2
<1>6. meta' \in MetaRecord
  <2>1. meta \in MetaRecord
    BY StaysAsItIs
  <2>2. CASE RootEnds(r)
    <3>1. PICK o1 \in Statuses : o1 = outcome[r]
      BY <1>1, <2>2, StaysAsItIs DEF RootEnds, PhaseOK
    <3> QED
      BY <2>1, <2>2, <3>1 DEF RootEnds, MetaRecord
  <2>3. CASE meta' = meta
    BY <2>1, <2>3
  <2> QED
    BY <2>2, <2>3 DEF RunEnds, RunMarks
<1>7. GoesTo(r, pc, o, began[r], export[r], clock)
  BY <1>2, <1>4, <1>5, <1>6, StaysAsItIs DEF GoesTo
<1>8. Keeps(r, pc, o, began[r]) /\ Writes(r, pc, o, began[r])
  BY <1>2, <1>4 DEF Keeps, Writes, Stores
<1>9. PhaseOK(r, pc, o, began[r], export[r], clock)
  BY <1>1, <1>2, <1>3, <1>4 DEF PhaseOK, Statuses
<1>10. pc \in Phases /\ o \in Statuses \cup {""}
  BY DEF Phases
<1> QED
  BY <1>7, <1>8, <1>9, <1>10, StaysAsItIs, OneMoves

LEMMA TraceStarts ==
    ASSUME TraceInit
    PROVE  TraceOK
<1>1. Client \in Runs
  BY DEF Runs
<1>2. NoExport \in Exports
  BY DEF Exports
<1>3. TraceTypeOK
  <2>1. /\ runs \in [Runs -> Phases] /\ began \in [Runs -> Nat]
        /\ outcome \in [Runs -> Statuses \cup {""}] /\ export \in [Runs -> Exports]
    BY <1>2 DEF TraceInit, Phases
  <2>2. meta \in MetaRecord /\ clock \in Nat
    BY DEF TraceInit, MetaRecord
  <2>3. spans \in Seq(Span) /\ called \subseteq Hop /\ replied \subseteq Hop
        /\ finished \subseteq Hop
    <3>1. \A S : <<>> \in Seq(S)
      OBVIOUS
    <3>2. spans \in Seq(Span)
      BY <3>1 DEF TraceInit
    <3> QED
      BY <3>2 DEF TraceInit, Roots
  <2> QED
    BY <2>1, <2>2, <2>3 DEF TraceTypeOK, Phases, Statuses, Exports, MetaRecord
<1>4. ASSUME NEW r \in Runs
      PROVE  PhaseOK(r, runs[r], outcome[r], began[r], export[r], clock)
  BY DEF TraceInit, PhaseOK
<1>5. \A r \in Runs : ~Begun(r)
  BY DEF TraceInit, Begun
<1>6. 1..Len(spans) = {}
  <2>1. 1..Len(<<>>) = {}
    OBVIOUS
  <2> QED
    BY <2>1 DEF TraceInit
<1> QED
  BY <1>3, <1>4, <1>5, <1>6, Zenon DEF TraceOK

LEMMA TraceStep ==
    ASSUME TraceOK, [TraceNext]_traceVars
    PROVE  TraceOK'
<1>1. CASE UNCHANGED traceVars
  BY <1>1 DEF traceVars, TraceOK, TraceTypeOK, Begun
<1>2. CASE TraceNext
  BY <1>2, ReadingKeeps, ExportKeeps, BeginKeeps, CallExported, EndKeeps DEF TraceNext
<1> QED
  BY <1>1, <1>2

\* What a trace is made of, and whose span each stored one is.
THEOREM TraceInvariant == TraceSpec => []TraceOK
<1>1. TraceInit => TraceOK
  BY TraceStarts
<1>2. TraceOK /\ [TraceNext]_traceVars => TraceOK'
  BY TraceStep
<1> QED
  BY <1>1, <1>2, PTL DEF TraceSpec

\* The merged tree shows every stored span, whatever the parent links say, cycles
\* included, and whichever duplicate is kept (trace query, TraceMerger._build_tree).
THEOREM MergedTreesAreComplete == TraceSpec => []MergedTreeIsComplete
<1>1. TraceOK => MergedTreeIsComplete
  <2> SUFFICES ASSUME TraceOK, NEW kept \in Deduped
               PROVE  MergedTree(kept) = kept
    BY DEF MergedTreeIsComplete
  <2>1. PICK n \in Nat : n = Len(spans) /\ kept \subseteq 1..n
    <3>1. spans \in Seq(Span)
      BY DEF TraceOK, TraceTypeOK
    <3>2. Len(spans) \in Nat
      BY <3>1
    <3>3. kept \subseteq 1..Len(spans)
      BY DEF Deduped, Stored
    <3> QED
      BY <3>2, <3>3
  <2>2. Cardinality(kept) \in Nat
    <3>1. IsFiniteSet(1..n)
      BY FS_Interval
    <3> QED
      BY <2>1, <3>1, FS_Subset, FS_CardinalityType
  <2> QED
    BY <2>2, AllShown
<1> QED
  BY <1>1, TraceInvariant, PTL

\* The stored span of the segment that suspended says WAITING_AGENT, so the
\* dashboard's snapshot does not take a trace that waits for completed
\* (metrics/snapshot.py, _trace_status).
THEOREM WaitingIsNotCompleted == TraceSpec => []WaitingTraceNotCompleted
<1>1. TraceOK => WaitingTraceNotCompleted
  <2> SUFFICES ASSUME TraceOK, NEW r \in Runs, outcome[r] = "WAITING_AGENT",
                      NEW i \in Stored, spans[i].id = <<r[1], "worker.execute">>,
                      spans[i].start = began[r]
               PROVE  SnapshotStatus # "COMPLETED"
    BY DEF WaitingTraceNotCompleted
  <2>1. Begun(r)
    BY StaysAsItIs DEF PhaseOK, Begun
  <2>2. OfWork(spans[i])
    BY DEF OfWork
  <2>3. PICK q \in Runs \ {Client} : /\ runs[q] \in {"rooting", "over"}
                                     /\ IsSegment(spans[i], began[q], outcome[q])
    BY <2>2 DEF TraceOK, Stored
  <2>4. Begun(q) /\ began[q] = began[r]
    BY <2>3 DEF Begun, IsSegment
  <2>5. q = r
    BY <2>1, <2>4 DEF TraceOK
  <2>6. spans[i].status = "WAITING_AGENT"
    BY <2>3, <2>5 DEF IsSegment
  <2>7. "WAITING_AGENT" \in {spans[k].status : k \in Stored}
    BY <2>6
  <2> QED
    BY <2>7 DEF SnapshotStatus
<1> QED
  BY <1>1, TraceInvariant, PTL

-----------------------------------------------------------------------------
(* The parts in one: MCServices.                                           *)

\* The part that moves keeps its invariant; the others stand still.
PartsOK ==
    /\ part = "configs" => ConfigsOK
    /\ part = "langfuse" => WorkflowsOK
    /\ part = "trace" => TraceOK
    /\ part = "metrics" => MetricsOK
    /\ part = "loop" => HarnessOK
    /\ part = "stream" => StreamOK
    /\ part = "discovery" => DiscoveryOK

LEMMA PartsStart ==
    ASSUME PartsInit
    PROVE  PartsOK
BY ConfigsStart, LangfuseStart, TraceStarts, MetricsStart, HarnessInitOK, StreamInitOK,
   DiscoveryStart, HarnessAssumption, StreamAssumption DEF PartsInit, PartsOK

LEMMA PartsStep ==
    ASSUME PartsOK, [PartsNext]_<<part, services>>
    PROVE  PartsOK'
<1>1. /\ part = "configs" => [ConfigsNext]_configVars
      /\ part = "langfuse" => [LangfuseNext]_langfuseVars
      /\ part = "trace" => [TraceNext]_traceVars
      /\ part = "metrics" => [MetricsNext]_metricsVars
      /\ part = "loop" => [HarnessNext]_loopVars
      /\ part = "stream" => [StreamNext]_streamVars
      /\ part = "discovery" => [DiscoveryNext]_discoveryVars
      /\ part' = part
  BY DEF PartsNext, Moves, services
<1>2. /\ ConfigsOK /\ [ConfigsNext]_configVars => ConfigsOK'
      /\ WorkflowsOK /\ [LangfuseNext]_langfuseVars => WorkflowsOK'
      /\ TraceOK /\ [TraceNext]_traceVars => TraceOK'
      /\ MetricsOK /\ [MetricsNext]_metricsVars => MetricsOK'
      /\ HarnessOK /\ [HarnessNext]_loopVars => HarnessOK'
      /\ StreamOK /\ [StreamNext]_streamVars => StreamOK'
      /\ DiscoveryOK /\ [DiscoveryNext]_discoveryVars => DiscoveryOK'
  BY ConfigsStep, LangfuseStep, TraceStep, MetricsStep, HarnessStepOK, StreamStepOK,
     DiscoveryStep, HarnessAssumption, StreamAssumption
<1> QED
  BY <1>1, <1>2 DEF PartsOK

\* Whichever part moves, its variables keep to their types.
THEOREM PartsTypeCorrect == PartsSpec => []PartsTypeOK
<1>1. PartsInit => PartsOK
  BY PartsStart
<1>2. PartsOK /\ [PartsNext]_<<part, services>> => PartsOK'
  BY PartsStep
<1>3. PartsOK => PartsTypeOK
  BY DEF PartsOK, PartsTypeOK, ConfigsOK, WorkflowsOK, TraceOK, MetricsOK, HarnessOK,
         StreamOK, DiscoveryOK
<1> QED
  BY <1>1, <1>2, <1>3, PTL DEF PartsSpec

=============================================================================
