----------------------- MODULE ExecutionLedger_proofs -----------------------
(***************************************************************************)
(* For every tree of executions: the variables of ExecutionLedger keep to  *)
(* their types (LedgerTypeCorrect), a cancel command finds its task        *)
(* (CancelAlwaysFindsTask), the counters agree with the records as long as *)
(* updates do not overlap (CountersExact), and the cascade of cancel_task  *)
(* wakes nobody it takes down (CascadeSilent).                             *)
(***************************************************************************)
EXTENDS ExecutionLedger, FiniteSetTheorems, TLAPS

\* An update that holds a version of the record, and a task that has run.
Holding == {"write", "stats", "clean"}
Over == {"finish", "ended"}

\* Who updates what: a task its own record, around its run; the canceller and
\* the control loop the mark and the flag.
UpdateOwned(a) ==
    /\ update[a].pc = "idle" => update[a].exec = NoExec
    /\ update[a].pc # "idle" =>
          /\ update[a].exec \in Exec
          /\ a \in Exec =>
                /\ update[a].exec = a
                /\ \/ update[a].kind = "RUNNING" /\ task[a].pc = "start"
                   \/ update[a].kind \in Final /\ task[a].pc = "finish"
          /\ a \notin Exec => update[a].kind \in {"CANCELLING", "REQUESTED"}
    /\ update[a].pc \in Holding =>
          /\ update[a].old.status # "NONE"
          /\ update[a].new = Updated(update[a].kind, update[a].old)

UpdatesOwned == \A a \in Actor : UpdateOwned(a)

\* A message that waits and a record that is absent have no task yet.
NotStarted ==
    \A e \in Exec :
        /\ e \in inbox => task[e].pc = "none" /\ record[e].status # "NONE"
        /\ record[e].status = "NONE" => task[e].pc = "none"

LedgerOK == LedgerTypeOK /\ UpdatesOwned /\ NotStarted
-----------------------------------------------------------------------------
(* Records and their versions.                                             *)

\* What an update makes of a record: it never unsets the flag or the worker,
\* never makes a record absent, and finishes one only by finishing it.
LEMMA UpdatedRecord ==
    ASSUME NEW kind \in UpdateKind, NEW r \in Record
    PROVE  LET new == Updated(kind, r) IN
           /\ new \in Record
           /\ r.status # "NONE" => new.status # "NONE"
           /\ new.cancel <=> r.cancel \/ kind \in {"CANCELLING", "REQUESTED"}
           /\ r.worker => new.worker
           /\ new.status \in Final => kind \in Final \/ r.status \in Final
<1>1. CASE kind = "RUNNING"
  BY <1>1 DEF Updated, Record, RecordStatus, Final
<1>2. CASE kind = "REQUESTED"
  BY <1>2 DEF Updated, Record, RecordStatus, Final
<1>3. CASE kind = "CANCELLING"
  BY <1>3 DEF Updated, Record, RecordStatus, Final
<1>4. CASE kind \in Final
  BY <1>4 DEF Updated, Record, RecordStatus, Final
<1> QED
  BY <1>1, <1>2, <1>3, <1>4 DEF UpdateKind

\* The absent record and the idle update.
LEMMA NoRecordTyped == NoRecord \in Record /\ NoRecord.status = "NONE"
BY DEF NoRecord, Record, RecordStatus

LEMMA NoUpdateTyped ==
    /\ NoUpdate \in UpdateRecord
    /\ NoUpdate.pc = "idle" /\ NoUpdate.exec = NoExec
BY NoRecordTyped, SMT DEF NoUpdate, UpdateRecord, UpdateKind

\* One field of an update.
LEMMA UpdateAt ==
    ASSUME NEW r \in UpdateRecord, NEW u,
           NEW pc \in {"idle", "read", "write", "stats", "clean"},
           u = [r EXCEPT !.pc = pc]
    PROVE  /\ u \in UpdateRecord /\ u.pc = pc /\ u.exec = r.exec
           /\ u.kind = r.kind /\ u.old = r.old /\ u.new = r.new
BY SMT DEF UpdateRecord

LEMMA UpdateOf ==
    ASSUME NEW r \in UpdateRecord, NEW e \in Exec, NEW u, u = [r EXCEPT !.exec = e]
    PROVE  u \in UpdateRecord /\ u.pc = r.pc /\ u.exec = e
BY SMT DEF UpdateRecord

LEMMA UpdateAs ==
    ASSUME NEW r \in UpdateRecord, NEW kind \in UpdateKind, NEW u,
           u = [r EXCEPT !.kind = kind]
    PROVE  u \in UpdateRecord /\ u.pc = r.pc /\ u.exec = r.exec /\ u.kind = kind
BY SMT DEF UpdateRecord

LEMMA UpdateFrom ==
    ASSUME NEW r \in UpdateRecord, NEW o \in Record, NEW u, u = [r EXCEPT !.old = o]
    PROVE  /\ u \in UpdateRecord /\ u.pc = r.pc /\ u.exec = r.exec
           /\ u.kind = r.kind /\ u.old = o
BY SMT DEF UpdateRecord

LEMMA UpdateTo ==
    ASSUME NEW r \in UpdateRecord, NEW n \in Record, NEW u, u = [r EXCEPT !.new = n]
    PROVE  /\ u \in UpdateRecord /\ u.pc = r.pc /\ u.exec = r.exec
           /\ u.kind = r.kind /\ u.old = r.old /\ u.new = n
BY SMT DEF UpdateRecord

\* One entry of the updates under way replaced.
LEMMA UpdateReplaced ==
    ASSUME update \in [Actor -> UpdateRecord], NEW a \in Actor,
           NEW u \in UpdateRecord, update' = [update EXCEPT ![a] = u]
    PROVE  /\ update' \in [Actor -> UpdateRecord]
           /\ update'[a] = u
           /\ \A b \in Actor \ {a} : update'[b] = update[b]
BY SMT

\* An update begun.
LEMMA Begun ==
    ASSUME update \in [Actor -> UpdateRecord], NEW a \in Actor, NEW e \in Exec,
           NEW kind \in UpdateKind, Begin(a, e, kind)
    PROVE  /\ update' \in [Actor -> UpdateRecord]
           /\ update'[a].pc = "read" /\ update'[a].exec = e
           /\ update'[a].kind = kind
           /\ \A b \in Actor \ {a} : update'[b] = update[b]
<1> DEFINE q == [NoUpdate EXCEPT !.pc = "read"]
           r == [q EXCEPT !.exec = e]
           u == [r EXCEPT !.kind = kind]
<1>1. update' = [update EXCEPT ![a] = u]
  BY Zenon DEF Begin
<1>2. q \in UpdateRecord /\ q.pc = "read"
  BY NoUpdateTyped, UpdateAt
<1> HIDE DEF q
<1>3. r \in UpdateRecord /\ r.pc = "read" /\ r.exec = e
  BY <1>2, UpdateOf
<1> HIDE DEF r
<1>4. u \in UpdateRecord /\ u.pc = "read" /\ u.exec = e /\ u.kind = kind
  BY <1>3, UpdateAs
<1> HIDE DEF u
<1> QED
  BY <1>1, <1>4, UpdateReplaced, Zenon

TaskPc == {"none", "load", "start", "run", "unwind", "finish", "ended"}

\* One field of a task.
LEMMA TaskAt ==
    ASSUME NEW r \in TaskRecord, NEW pc \in TaskPc, NEW u, u = [r EXCEPT !.pc = pc]
    PROVE  /\ u \in TaskRecord /\ u.pc = pc /\ u.event = r.event
           /\ u.cancelled = r.cancelled
BY SMT DEF TaskRecord, TaskPc

LEMMA TaskWith ==
    ASSUME NEW r \in TaskRecord, NEW o \in Final, NEW u, u = [r EXCEPT !.outcome = o]
    PROVE  /\ u \in TaskRecord /\ u.pc = r.pc /\ u.event = r.event
           /\ u.cancelled = r.cancelled
BY SMT DEF TaskRecord

LEMMA TaskCancelled ==
    ASSUME NEW r \in TaskRecord, NEW b \in BOOLEAN, NEW u,
           u = [r EXCEPT !.cancelled = b]
    PROVE  /\ u \in TaskRecord /\ u.pc = r.pc /\ u.event = r.event
           /\ u.cancelled = b
BY SMT DEF TaskRecord

LEMMA TaskTold ==
    ASSUME NEW r \in TaskRecord, NEW b \in BOOLEAN, NEW u, u = [r EXCEPT !.event = b]
    PROVE  /\ u \in TaskRecord /\ u.pc = r.pc /\ u.event = b
           /\ u.cancelled = r.cancelled
BY SMT DEF TaskRecord

\* One task replaced.
LEMMA TaskReplaced ==
    ASSUME task \in [Exec -> TaskRecord], NEW e \in Exec,
           NEW r \in TaskRecord, task' = [task EXCEPT ![e] = r]
    PROVE  /\ task' \in [Exec -> TaskRecord]
           /\ task'[e] = r
           /\ \A x \in Exec \ {e} : task'[x] = task[x]
BY SMT
-----------------------------------------------------------------------------
(* What the steps of an update do.                                         *)

\* Reading: the update holds the record and what it will make of it, or ends.
LEMMA ReadsEffect ==
    ASSUME LedgerTypeOK, UpdatesOwned, NEW a \in Actor, UpdateReads(a)
    PROVE  LET u == update[a] IN
           /\ u.pc = "read" /\ u.exec \in Exec
           /\ update' \in [Actor -> UpdateRecord]
           /\ \A b \in Actor \ {a} : update'[b] = update[b]
           /\ \/ update'[a] = NoUpdate
              \/ /\ update'[a].pc = "write" /\ update'[a].exec = u.exec
                 /\ update'[a].kind = u.kind
                 /\ record[u.exec].status # "NONE"
                 /\ update'[a].old = record[u.exec]
                 /\ update'[a].new = Updated(u.kind, record[u.exec])
<1> DEFINE u == update[a]
           o == record[u.exec]
           n == Updated(u.kind, o)
           w == [u EXCEPT !.pc = "write", !.old = o, !.new = n]
<1>1. u \in UpdateRecord /\ u.pc = "read" /\ u.exec \in Exec
  BY DEF LedgerTypeOK, UpdatesOwned, UpdateOwned, UpdateReads
<1>2. o \in Record
  BY <1>1 DEF LedgerTypeOK
<1>3. n \in Record
  BY <1>1, <1>2, UpdatedRecord DEF UpdateRecord
<1>4. update' = [update EXCEPT ![a] = IF o.status = "NONE" THEN NoUpdate ELSE w]
  BY Zenon DEF UpdateReads
<1>5. /\ w \in UpdateRecord /\ w.pc = "write" /\ w.exec = u.exec
      /\ w.kind = u.kind /\ w.old = o /\ w.new = n
  <2> DEFINE q == [u EXCEPT !.pc = "write"]
             r == [q EXCEPT !.old = o]
             v == [r EXCEPT !.new = n]
  <2>1. w = v
    BY Zenon
  <2> HIDE DEF u, o, n, w
  <2>2. q \in UpdateRecord /\ q.pc = "write" /\ q.exec = u.exec /\ q.kind = u.kind
    BY <1>1, UpdateAt
  <2> HIDE DEF q
  <2>3. /\ r \in UpdateRecord /\ r.pc = "write" /\ r.exec = u.exec
        /\ r.kind = u.kind /\ r.old = o
    BY <1>2, <2>2, UpdateFrom
  <2> HIDE DEF r
  <2> QED
    BY <1>3, <2>1, <2>3, UpdateTo
<1> HIDE DEF w
<1>6. CASE o.status = "NONE"
  <2>1. update' = [update EXCEPT ![a] = NoUpdate]
    BY <1>4, <1>6, Zenon
  <2> QED
    BY <1>1, <2>1, NoUpdateTyped, UpdateReplaced, Zenon DEF LedgerTypeOK
<1>7. CASE o.status # "NONE"
  <2>1. update' = [update EXCEPT ![a] = w]
    BY <1>4, <1>7, Zenon
  <2> QED
    BY <1>1, <1>5, <1>7, <2>1, UpdateReplaced, Zenon DEF LedgerTypeOK
<1> QED
  BY <1>6, <1>7

\* Writing.
LEMMA WritesEffect ==
    ASSUME LedgerTypeOK, UpdatesOwned, NEW a \in Actor, UpdateWrites(a)
    PROVE  LET u == update[a] IN
           /\ u.pc = "write" /\ u.exec \in Exec
           /\ update' \in [Actor -> UpdateRecord]
           /\ \A b \in Actor \ {a} : update'[b] = update[b]
           /\ update'[a].pc = "stats" /\ update'[a].exec = u.exec
           /\ update'[a].kind = u.kind /\ update'[a].old = u.old
           /\ update'[a].new = u.new
           /\ record' \in [Exec -> Record]
           /\ record'[u.exec] = u.new
           /\ \A e \in Exec \ {u.exec} : record'[e] = record[e]
<1> DEFINE u == update[a]
           w == [u EXCEPT !.pc = "stats"]
<1>1. u \in UpdateRecord /\ u.pc = "write" /\ u.exec \in Exec /\ u.new \in Record
  BY DEF LedgerTypeOK, UpdatesOwned, UpdateOwned, UpdateWrites, UpdateRecord
<1>2. update' = [update EXCEPT ![a] = w]
  BY Zenon DEF UpdateWrites
<1>3. /\ w \in UpdateRecord /\ w.pc = "stats" /\ w.exec = u.exec
      /\ w.kind = u.kind /\ w.old = u.old /\ w.new = u.new
  <2> HIDE DEF u
  <2> QED
    BY <1>1, SMT DEF UpdateRecord
<1> HIDE DEF w
<1>4. /\ update' \in [Actor -> UpdateRecord] /\ update'[a] = w
      /\ \A b \in Actor \ {a} : update'[b] = update[b]
  BY <1>2, <1>3, UpdateReplaced, Zenon DEF LedgerTypeOK
<1>5. record' = [record EXCEPT ![u.exec] = u.new]
  BY Zenon DEF UpdateWrites
<1>6. /\ record' \in [Exec -> Record] /\ record'[u.exec] = u.new
      /\ \A e \in Exec \ {u.exec} : record'[e] = record[e]
  <2> HIDE DEF u
  <2> QED
    BY <1>1, <1>5 DEF LedgerTypeOK
<1> QED
  BY <1>1, <1>3, <1>4, <1>6, Zenon

\* Counting: the update ends, or has the snapshot to clean up.
LEMMA CountsEffect ==
    ASSUME LedgerTypeOK, UpdatesOwned, NEW a \in Actor, UpdateCounts(a)
    PROVE  LET u == update[a] IN
           /\ u.pc = "stats" /\ u.exec \in Exec
           /\ update' \in [Actor -> UpdateRecord]
           /\ \A b \in Actor \ {a} : update'[b] = update[b]
           /\ \/ update'[a] = NoUpdate
              \/ /\ update'[a].pc = "clean" /\ update'[a].exec = u.exec
                 /\ update'[a].kind = u.kind /\ update'[a].old = u.old
                 /\ update'[a].new = u.new
<1> DEFINE u == update[a]
           w == [u EXCEPT !.pc = "clean"]
<1>1. u \in UpdateRecord /\ u.pc = "stats" /\ u.exec \in Exec
  BY DEF LedgerTypeOK, UpdatesOwned, UpdateOwned, UpdateCounts
<1>2. \/ update' = [update EXCEPT ![a] = w]
      \/ update' = [update EXCEPT ![a] = NoUpdate]
  BY Zenon DEF UpdateCounts
<1>3. /\ w \in UpdateRecord /\ w.pc = "clean" /\ w.exec = u.exec
      /\ w.kind = u.kind /\ w.old = u.old /\ w.new = u.new
  <2> HIDE DEF u
  <2> QED
    BY <1>1, SMT DEF UpdateRecord
<1> HIDE DEF w
<1>4. /\ update' \in [Actor -> UpdateRecord] /\ update'[a] \in {w, NoUpdate}
      /\ \A b \in Actor \ {a} : update'[b] = update[b]
  BY <1>2, <1>3, NoUpdateTyped, UpdateReplaced, Zenon DEF LedgerTypeOK
<1> QED
  BY <1>1, <1>3, <1>4, Zenon

\* Cleaning writes the same version once more.
LEMMA CleansEffect ==
    ASSUME LedgerTypeOK, UpdatesOwned, NEW a \in Actor, UpdateCleans(a)
    PROVE  LET u == update[a] IN
           /\ u.pc = "clean" /\ u.exec \in Exec
           /\ update' \in [Actor -> UpdateRecord]
           /\ \A b \in Actor \ {a} : update'[b] = update[b]
           /\ update'[a] = NoUpdate
           /\ record' \in [Exec -> Record]
           /\ record'[u.exec] = u.new
           /\ \A e \in Exec \ {u.exec} : record'[e] = record[e]
<1> DEFINE u == update[a]
<1>1. u \in UpdateRecord /\ u.pc = "clean" /\ u.exec \in Exec /\ u.new \in Record
  BY DEF LedgerTypeOK, UpdatesOwned, UpdateOwned, UpdateCleans, UpdateRecord
<1>2. update' = [update EXCEPT ![a] = NoUpdate]
  BY Zenon DEF UpdateCleans
<1>3. /\ update' \in [Actor -> UpdateRecord] /\ update'[a] = NoUpdate
      /\ \A b \in Actor \ {a} : update'[b] = update[b]
  BY <1>2, NoUpdateTyped, UpdateReplaced, Zenon DEF LedgerTypeOK
<1>4. record' = [record EXCEPT ![u.exec] = u.new]
  BY Zenon DEF UpdateCleans
<1>5. /\ record' \in [Exec -> Record] /\ record'[u.exec] = u.new
      /\ \A e \in Exec \ {u.exec} : record'[e] = record[e]
  <2> HIDE DEF u
  <2> QED
    BY <1>1, <1>4 DEF LedgerTypeOK
<1> QED
  BY <1>1, <1>3, <1>5, Zenon
-----------------------------------------------------------------------------
(* Types and ownership.                                                    *)

\* One field of the trail.
LEMMA TrailOverlaps ==
    ASSUME NEW r \in Trail, NEW b \in BOOLEAN, NEW v, v = [r EXCEPT !.overlapped = b]
    PROVE  /\ v \in Trail /\ v.overlapped = b
           /\ v.woken = r.woken /\ v.reached = r.reached
BY SMT DEF Trail

LEMMA TrailWakes ==
    ASSUME NEW r \in Trail, NEW S \in SUBSET Exec, NEW v, v = [r EXCEPT !.woken = S]
    PROVE  /\ v \in Trail /\ v.woken = S
           /\ v.overlapped = r.overlapped /\ v.reached = r.reached
BY SMT DEF Trail

LEMMA TrailReaches ==
    ASSUME NEW r \in Trail, NEW S \in SUBSET Exec, NEW v, v = [r EXCEPT !.reached = S]
    PROVE  /\ v \in Trail /\ v.reached = S
           /\ v.overlapped = r.overlapped /\ v.woken = r.woken
BY SMT DEF Trail

\* What the four steps that leave a trace leave: a read that overlaps another
\* update, the client's write, the reply to a parent, an interrupted update.
LEMMA ReadsTrail ==
    ASSUME trail \in Trail, NEW a \in Actor, UpdateReads(a)
    PROVE  /\ trail' \in Trail
           /\ trail'.overlapped = (trail.overlapped \/ \E b \in Actor \ {a} :
                  update[b].exec = update[a].exec /\ update[b].pc \in Holding)
           /\ trail'.woken = trail.woken /\ trail'.reached = trail.reached
<1> DEFINE o == trail.overlapped \/ \E b \in Actor \ {a} :
                    update[b].exec = update[a].exec /\ update[b].pc \in Holding
<1>1. o \in BOOLEAN
  BY Zenon
<1>2. trail' = [trail EXCEPT !.overlapped = o]
  BY Zenon DEF UpdateReads, Holding
<1> HIDE DEF o
<1>3. /\ trail' \in Trail /\ trail'.overlapped = o
      /\ trail'.woken = trail.woken /\ trail'.reached = trail.reached
  BY <1>1, <1>2, TrailOverlaps
<1> QED
  BY <1>3, Zenon DEF o

LEMMA WritesTrail ==
    ASSUME trail \in Trail, NEW a \in Actor, UpdateWrites(a), update[a].exec \in Exec
    PROVE  /\ trail' \in Trail
           /\ trail'.overlapped = trail.overlapped /\ trail'.woken = trail.woken
           /\ trail'.reached = IF a = Client THEN trail.reached \cup {update[a].exec}
                               ELSE trail.reached
<1> DEFINE S == trail.reached \cup {update[a].exec}
<1>1. CASE a # Client
  BY <1>1 DEF UpdateWrites
<1>2. CASE a = Client
  <2>1. trail' = [trail EXCEPT !.reached = S]
    BY <1>2, Zenon DEF UpdateWrites
  <2>2. S \in SUBSET Exec
    BY DEF Trail
  <2> HIDE DEF S
  <2>3. /\ trail' \in Trail /\ trail'.reached = S
        /\ trail'.overlapped = trail.overlapped /\ trail'.woken = trail.woken
    BY <2>1, <2>2, TrailReaches
  <2> QED
    BY <1>2, <2>3, Zenon DEF S
<1> QED
  BY <1>1, <1>2

LEMMA ReportsTrail ==
    ASSUME trail \in Trail, NEW e \in Exec, TaskReportsCancel(e)
    PROVE  /\ trail' \in Trail
           /\ trail'.overlapped = trail.overlapped /\ trail'.reached = trail.reached
           /\ \/ trail'.woken = trail.woken
              \/ /\ Parent[e] # NoExec /\ ~record[Parent[e]].cancel
                 /\ trail'.woken = trail.woken \cup {Parent[e]}
<1> DEFINE S == trail.woken \cup {Parent[e]}
<1>1. CASE trail' = trail
  BY <1>1
<1>2. CASE trail' # trail
  <2>1. /\ Parent[e] # NoExec /\ ~record[Parent[e]].cancel
        /\ trail' = [trail EXCEPT !.woken = S]
    BY <1>2, Zenon DEF TaskReportsCancel
  <2>2. S \in SUBSET Exec
    BY <2>1, ParentAssumption DEF Trail
  <2> HIDE DEF S
  <2>3. /\ trail' \in Trail /\ trail'.woken = S
        /\ trail'.overlapped = trail.overlapped /\ trail'.reached = trail.reached
    BY <2>1, <2>2, TrailWakes
  <2> QED
    BY <2>1, <2>3, Zenon DEF S
<1> QED
  BY <1>1, <1>2

LEMMA KilledTrail ==
    ASSUME trail \in Trail, NEW e \in Exec, TaskKilled(e)
    PROVE  /\ trail' \in Trail
           /\ trail'.overlapped = (trail.overlapped \/ ~Ready(e))
           /\ trail'.woken = trail.woken /\ trail'.reached = trail.reached
<1> DEFINE o == trail.overlapped \/ ~Ready(e)
<1>1. o \in BOOLEAN
  BY Zenon
<1>2. trail' = [trail EXCEPT !.overlapped = o]
  BY Zenon DEF TaskKilled
<1> HIDE DEF o
<1>3. /\ trail' \in Trail /\ trail'.overlapped = o
      /\ trail'.woken = trail.woken /\ trail'.reached = trail.reached
  BY <1>1, <1>2, TrailOverlaps
<1> QED
  BY <1>3, Zenon DEF o

\* An idle update is nobody's.
LEMMA IdleOwned ==
    ASSUME NEW a \in Actor, update[a] = NoUpdate
    PROVE  UpdateOwned(a)
BY NoUpdateTyped DEF UpdateOwned, Holding

\* The other updates stay as they are while the tasks do.
LEMMA OwnedOthers ==
    ASSUME UpdatesOwned, task' = task, NEW a \in Actor,
           \A b \in Actor \ {a} : update'[b] = update[b], UpdateOwned(a)'
    PROVE  UpdatesOwned'
<1>1. ASSUME NEW b \in Actor \ {a} PROVE UpdateOwned(b)'
  <2>1. UpdateOwned(b) /\ update'[b] = update[b]
    BY DEF UpdatesOwned
  <2> QED
    BY <2>1 DEF UpdateOwned
<1> QED
  BY <1>1 DEF UpdatesOwned

\* A record rewritten is not absent.
LEMMA RewrittenStarted ==
    ASSUME NotStarted, NEW x \in Exec, task' = task, inbox' = inbox,
           \A e \in Exec \ {x} : record'[e] = record[e], record'[x].status # "NONE"
    PROVE  NotStarted'
BY Zenon DEF NotStarted

\* The version an update has made.
LEMMA VersionMade ==
    ASSUME LedgerTypeOK, UpdatesOwned, NEW a \in Actor, update[a].pc \in Holding
    PROVE  LET u == update[a] IN
           /\ u.kind \in UpdateKind /\ u.old \in Record /\ u.new \in Record
           /\ u.new = Updated(u.kind, u.old)
           /\ u.old.status # "NONE" /\ u.new.status # "NONE"
           /\ u.new.cancel <=> u.old.cancel \/ u.kind \in {"CANCELLING", "REQUESTED"}
           /\ u.old.worker => u.new.worker
           /\ u.new.status \in Final => u.kind \in Final \/ u.old.status \in Final
<1>1. update[a] \in UpdateRecord
  BY DEF LedgerTypeOK
<1>2. update[a].kind \in UpdateKind /\ update[a].old \in Record /\ update[a].new \in Record
  BY <1>1 DEF UpdateRecord
<1>3. /\ update[a].old.status # "NONE"
      /\ update[a].new = Updated(update[a].kind, update[a].old)
  BY DEF UpdatesOwned, UpdateOwned
<1> DEFINE kind == update[a].kind
           old == update[a].old
           new == update[a].new
<1> HIDE DEF kind, old, new
<1>4. new = Updated(kind, old) /\ kind \in UpdateKind /\ old \in Record
  BY <1>2, <1>3 DEF kind, old, new
<1>5. /\ old.status # "NONE" => new.status # "NONE"
      /\ new.cancel <=> old.cancel \/ kind \in {"CANCELLING", "REQUESTED"}
      /\ old.worker => new.worker
      /\ new.status \in Final => kind \in Final \/ old.status \in Final
  BY <1>4, UpdatedRecord, Zenon
<1> QED
  BY <1>2, <1>3, <1>5, Zenon DEF kind, old, new

\* Read, written, counted, cleaned.
LEMMA UpdateStepOK ==
    ASSUME LedgerOK, NEW a \in Actor, UpdateStep(a)
    PROVE  LedgerOK'
<1> DEFINE u == update[a]
<1>1. LedgerTypeOK /\ UpdatesOwned /\ NotStarted /\ UpdateOwned(a) /\ trail \in Trail
  BY DEF LedgerOK, LedgerTypeOK, UpdatesOwned
<1>2. CASE UpdateReads(a)
  <2>2. trail' \in Trail
    BY <1>1, <1>2, ReadsTrail
  <2>3. UNCHANGED <<record, inbox, task, tracker, stats, canceller, orders, control>>
    BY <1>2 DEF UpdateReads
  <2>4. UpdateOwned(a)'
    <3>1. CASE update'[a] = NoUpdate
      BY <3>1, NoUpdateTyped DEF UpdateOwned, Holding
    <3>2. CASE update'[a] # NoUpdate
      <4>1. /\ u.pc = "read" /\ u.exec \in Exec
            /\ update'[a].pc = "write" /\ update'[a].exec = u.exec
            /\ update'[a].kind = u.kind
            /\ update'[a].old.status # "NONE"
            /\ update'[a].new = Updated(update'[a].kind, update'[a].old)
        BY <1>1, <1>2, <3>2, ReadsEffect, Zenon
      <4> QED
        BY <1>1, <2>3, <4>1 DEF UpdateOwned, Holding
    <3> QED
      BY <3>1, <3>2
  <2>5. /\ update' \in [Actor -> UpdateRecord]
        /\ \A c \in Actor \ {a} : update'[c] = update[c]
    BY <1>1, <1>2, ReadsEffect, Zenon
  <2>6. UpdatesOwned'
    BY <1>1, <2>3, <2>4, <2>5, OwnedOthers
  <2>7. LedgerTypeOK'
    BY <1>1, <2>2, <2>3, <2>5, Zenon DEF LedgerTypeOK
  <2>8. NotStarted'
    BY <1>1, <2>3, Zenon DEF NotStarted
  <2> QED
    BY <2>6, <2>7, <2>8 DEF LedgerOK
<1>3. CASE UpdateWrites(a)
  <2>1. UNCHANGED <<inbox, task, tracker, stats, canceller, orders, control>>
    BY <1>3 DEF UpdateWrites
  <2>2. /\ u.pc = "write" /\ u.exec \in Exec
        /\ update' \in [Actor -> UpdateRecord]
        /\ \A b \in Actor \ {a} : update'[b] = update[b]
        /\ update'[a].pc = "stats" /\ update'[a].exec = u.exec
        /\ update'[a].kind = u.kind /\ update'[a].old = u.old
        /\ update'[a].new = u.new
        /\ record' \in [Exec -> Record] /\ record'[u.exec] = u.new
        /\ \A e \in Exec \ {u.exec} : record'[e] = record[e]
    BY <1>1, <1>3, WritesEffect, Zenon
  <2>3. trail' \in Trail
    BY <1>1, <1>3, <2>2, WritesTrail
  <2>4. UpdateOwned(a)'
    BY <1>1, <2>1, <2>2 DEF UpdateOwned, Holding
  <2>5. UpdatesOwned'
    BY <1>1, <2>1, <2>2, <2>4, OwnedOthers
  <2>6. u.new.status # "NONE"
    BY <1>1, <2>2, VersionMade, Zenon DEF Holding
  <2>7. NotStarted'
    BY <1>1, <2>1, <2>2, <2>6, RewrittenStarted
  <2>8. LedgerTypeOK'
    BY <1>1, <2>1, <2>2, <2>3, Zenon DEF LedgerTypeOK
  <2> QED
    BY <2>5, <2>7, <2>8 DEF LedgerOK
<1>4. CASE UpdateCounts(a)
  <2>1. UNCHANGED <<record, inbox, task, tracker, canceller, orders, control, trail>>
    BY <1>4 DEF UpdateCounts
  <2>2. /\ u.pc = "stats" /\ u.exec \in Exec
        /\ update' \in [Actor -> UpdateRecord]
        /\ \A b \in Actor \ {a} : update'[b] = update[b]
        /\ \/ update'[a] = NoUpdate
           \/ /\ update'[a].pc = "clean" /\ update'[a].exec = u.exec
              /\ update'[a].kind = u.kind /\ update'[a].old = u.old
              /\ update'[a].new = u.new
    BY <1>1, <1>4, CountsEffect, Zenon
  <2>3. stats' \in [active: Int, index: SUBSET Exec]
    <3>1. /\ stats \in [active: Int, index: SUBSET Exec]
          /\ stats' = CountedStats(u)
      BY <1>1, <1>4 DEF LedgerTypeOK, UpdateCounts
    <3> DEFINE i == IF Active(u.new) THEN 1 ELSE 0
               j == IF Active(u.old) THEN 1 ELSE 0
               S == IF Active(u.new) THEN stats.index \cup {u.exec}
                    ELSE stats.index \ {u.exec}
    <3>2. stats.active \in Int /\ i \in Int /\ j \in Int /\ stats.index \subseteq Exec
      BY <3>1
    <3>5. S \subseteq Exec
      BY <2>2, <3>2, Zenon
    <3>3. stats' \in {stats, [active |-> stats.active + i - j, index |-> S]}
      BY <3>1, Zenon DEF CountedStats
    <3> HIDE DEF i, j, S
    <3> QED
      BY <3>1, <3>2, <3>3, <3>5, SMT
  <2>4. UpdateOwned(a)'
    <3>1. CASE update'[a] = NoUpdate
      BY <3>1, NoUpdateTyped DEF UpdateOwned, Holding
    <3>2. CASE update'[a] # NoUpdate
      BY <1>1, <2>1, <2>2, <3>2 DEF UpdateOwned, Holding
    <3> QED
      BY <3>1, <3>2
  <2>5. UpdatesOwned'
    BY <1>1, <2>1, <2>2, <2>4, OwnedOthers
  <2>6. LedgerTypeOK' /\ NotStarted'
    BY <1>1, <2>1, <2>2, <2>3, Zenon DEF LedgerTypeOK, NotStarted
  <2> QED
    BY <2>5, <2>6 DEF LedgerOK
<1>5. CASE UpdateCleans(a)
  <2>1. UNCHANGED <<inbox, task, tracker, stats, canceller, orders, control, trail>>
    BY <1>5 DEF UpdateCleans
  <2>2. /\ u.pc = "clean" /\ u.exec \in Exec
        /\ update' \in [Actor -> UpdateRecord]
        /\ \A b \in Actor \ {a} : update'[b] = update[b]
        /\ update'[a] = NoUpdate
        /\ record' \in [Exec -> Record] /\ record'[u.exec] = u.new
        /\ \A e \in Exec \ {u.exec} : record'[e] = record[e]
    BY <1>1, <1>5, CleansEffect, Zenon
  <2>3. UpdateOwned(a)'
    BY <2>2, NoUpdateTyped DEF UpdateOwned, Holding
  <2>4. UpdatesOwned'
    BY <1>1, <2>1, <2>2, <2>3, OwnedOthers
  <2>5. u.new.status # "NONE"
    BY <1>1, <2>2, VersionMade, Zenon DEF Holding
  <2>6. NotStarted'
    BY <1>1, <2>1, <2>2, <2>5, RewrittenStarted
  <2>7. LedgerTypeOK'
    BY <1>1, <2>1, <2>2, Zenon DEF LedgerTypeOK
  <2> QED
    BY <2>4, <2>6, <2>7 DEF LedgerOK
<1> QED
  BY <1>2, <1>3, <1>4, <1>5 DEF UpdateStep
-----------------------------------------------------------------------------
(* What the steps of a task do.                                            *)

\* A task that goes on.
LEMMA TaskMoved ==
    ASSUME task \in [Exec -> TaskRecord], NEW e \in Exec, NEW pc \in TaskPc,
           TaskGoto(e, pc)
    PROVE  /\ task' \in [Exec -> TaskRecord]
           /\ task'[e].pc = pc /\ task'[e].event = task[e].event
           /\ task'[e].cancelled = task[e].cancelled
           /\ \A x \in Exec \ {e} : task'[x] = task[x]
<1> DEFINE r == [task[e] EXCEPT !.pc = pc]
<1>1. /\ r \in TaskRecord /\ r.pc = pc /\ r.event = task[e].event
      /\ r.cancelled = task[e].cancelled
  BY TaskAt DEF TaskPc
<1>2. task' = [task EXCEPT ![e] = r]
  BY Zenon DEF TaskGoto
<1> HIDE DEF r
<1> QED
  BY <1>1, <1>2, TaskReplaced, Zenon

\* Tracked, with the flag the record has.
LEMMA TracksEffect ==
    ASSUME LedgerTypeOK, NEW e \in Exec, TaskTracks(e), record[e].status \notin Final
    PROVE  /\ task' \in [Exec -> TaskRecord]
           /\ task'[e].pc = "start" /\ task'[e].event = record[e].cancel
           /\ task'[e].cancelled = task[e].cancelled
           /\ \A x \in Exec \ {e} : task'[x] = task[x]
           /\ update' \in [Actor -> UpdateRecord]
           /\ update'[e].pc = "read" /\ update'[e].exec = e
           /\ update'[e].kind = "RUNNING"
           /\ \A b \in Actor \ {e} : update'[b] = update[b]
<1>1. /\ task' = [task EXCEPT ![e].pc = "start", ![e].event = record[e].cancel]
      /\ Begin(e, e, "RUNNING")
  BY DEF TaskTracks
<1> DEFINE c == record[e].cancel
           q == [task[e] EXCEPT !.pc = "start"]
           r == [q EXCEPT !.event = c]
<1>2. task' = [task EXCEPT ![e] = r]
  BY <1>1, Zenon
<1>3. task[e] \in TaskRecord /\ c \in BOOLEAN
  BY DEF LedgerTypeOK, Record
<1> HIDE DEF c
<1>4. q \in TaskRecord /\ q.pc = "start" /\ q.cancelled = task[e].cancelled
  BY <1>3, TaskAt DEF TaskPc
<1> HIDE DEF q
<1>5. /\ r \in TaskRecord /\ r.pc = "start" /\ r.event = c
      /\ r.cancelled = task[e].cancelled
  BY <1>3, <1>4, TaskTold
<1> HIDE DEF r
<1>6. e \in Actor /\ "RUNNING" \in UpdateKind
  BY DEF Actor, UpdateKind
<1>7. /\ update' \in [Actor -> UpdateRecord]
      /\ update'[e].pc = "read" /\ update'[e].exec = e
      /\ update'[e].kind = "RUNNING"
      /\ \A b \in Actor \ {e} : update'[b] = update[b]
  BY <1>1, <1>6, Begun, Zenon DEF LedgerTypeOK
<1>8. /\ task' \in [Exec -> TaskRecord] /\ task'[e] = r
      /\ \A x \in Exec \ {e} : task'[x] = task[x]
  BY <1>2, <1>5, TaskReplaced, Zenon DEF LedgerTypeOK
<1> QED
  BY <1>5, <1>7, <1>8, Zenon DEF c

\* Returned: its outcome is being recorded.
LEMMA ReturnsEffect ==
    ASSUME LedgerTypeOK, NEW e \in Exec, TaskReturns(e)
    PROVE  /\ task' \in [Exec -> TaskRecord]
           /\ task'[e].pc = "finish" /\ task'[e].event = task[e].event
           /\ task'[e].cancelled = task[e].cancelled
           /\ \A x \in Exec \ {e} : task'[x] = task[x]
           /\ update' \in [Actor -> UpdateRecord]
           /\ update'[e].pc = "read" /\ update'[e].exec = e
           /\ update'[e].kind \in Final
           /\ \A b \in Actor \ {e} : update'[b] = update[b]
<1>1. PICK outcome \in {"COMPLETED", "FAILED"} :
          task' = [task EXCEPT ![e].pc = "finish", ![e].outcome = outcome]
  BY DEF TaskReturns
<1> DEFINE q == [task[e] EXCEPT !.pc = "finish"]
           r == [q EXCEPT !.outcome = outcome]
           kind == task'[e].outcome
<1>2. task' = [task EXCEPT ![e] = r]
  BY <1>1, Zenon
<1>3. task[e] \in TaskRecord /\ outcome \in Final
  BY DEF LedgerTypeOK, Final
<1>4. /\ q \in TaskRecord /\ q.pc = "finish" /\ q.event = task[e].event
      /\ q.cancelled = task[e].cancelled
  BY <1>3, TaskAt DEF TaskPc
<1> HIDE DEF q
<1>5. /\ r \in TaskRecord /\ r.pc = "finish" /\ r.event = task[e].event
      /\ r.cancelled = task[e].cancelled
  BY <1>3, <1>4, TaskWith
<1> HIDE DEF r
<1>6. /\ task' \in [Exec -> TaskRecord] /\ task'[e] = r
      /\ \A x \in Exec \ {e} : task'[x] = task[x]
  BY <1>2, <1>5, TaskReplaced, Zenon DEF LedgerTypeOK
<1>7. kind \in Final /\ kind \in UpdateKind /\ e \in Actor
  BY <1>5, <1>6 DEF TaskRecord, UpdateKind, Actor
<1>8. Begin(e, e, kind)
  BY DEF TaskReturns, Begin
<1> HIDE DEF kind
<1>9. /\ update' \in [Actor -> UpdateRecord]
      /\ update'[e].pc = "read" /\ update'[e].exec = e
      /\ update'[e].kind = kind
      /\ \A b \in Actor \ {e} : update'[b] = update[b]
  BY <1>7, <1>8, Begun, Zenon DEF LedgerTypeOK
<1> QED
  BY <1>5, <1>6, <1>7, <1>9, Zenon

\* Unwinding: the request to stop has reached the handler.
LEMMA UnwindsEffect ==
    ASSUME LedgerTypeOK, NEW e \in Exec, TaskUnwinds(e)
    PROVE  /\ task' \in [Exec -> TaskRecord]
           /\ task'[e].pc = "unwind" /\ task'[e].event = task[e].event
           /\ ~task'[e].cancelled
           /\ \A x \in Exec \ {e} : task'[x] = task[x]
<1> DEFINE q == [task[e] EXCEPT !.pc = "unwind"]
           r == [q EXCEPT !.outcome = "CANCELLED"]
           v == [r EXCEPT !.cancelled = FALSE]
<1>1. task' = [task EXCEPT ![e] = v]
  BY Zenon DEF TaskUnwinds
<1>2. task[e] \in TaskRecord /\ "CANCELLED" \in Final
  BY DEF LedgerTypeOK, Final
<1>3. q \in TaskRecord /\ q.pc = "unwind" /\ q.event = task[e].event
  BY <1>2, TaskAt DEF TaskPc
<1> HIDE DEF q
<1>4. r \in TaskRecord /\ r.pc = "unwind" /\ r.event = task[e].event
  BY <1>2, <1>3, TaskWith
<1> HIDE DEF r
<1>5. v \in TaskRecord /\ v.pc = "unwind" /\ v.event = task[e].event /\ v.cancelled = FALSE
  BY <1>4, TaskCancelled
<1> HIDE DEF v
<1> QED
  BY <1>1, <1>5, TaskReplaced, Zenon DEF LedgerTypeOK

\* Killed outside the handler: its update stops where it is.
LEMMA KilledEffect ==
    ASSUME LedgerTypeOK, NEW e \in Exec, TaskKilled(e)
    PROVE  /\ task' \in [Exec -> TaskRecord]
           /\ task'[e].pc = "ended" /\ task'[e].event = task[e].event
           /\ ~task'[e].cancelled
           /\ \A x \in Exec \ {e} : task'[x] = task[x]
           /\ update' \in [Actor -> UpdateRecord]
           /\ update'[e] = NoUpdate
           /\ \A b \in Actor \ {e} : update'[b] = update[b]
<1> DEFINE q == [task[e] EXCEPT !.pc = "ended"]
           r == [q EXCEPT !.cancelled = FALSE]
<1>1. task' = [task EXCEPT ![e] = r] /\ update' = [update EXCEPT ![e] = NoUpdate]
  BY Zenon DEF TaskKilled
<1>2. task[e] \in TaskRecord /\ e \in Actor
  BY DEF LedgerTypeOK, Actor
<1>3. q \in TaskRecord /\ q.pc = "ended" /\ q.event = task[e].event
  BY <1>2, TaskAt DEF TaskPc
<1> HIDE DEF q
<1>4. r \in TaskRecord /\ r.pc = "ended" /\ r.event = task[e].event /\ r.cancelled = FALSE
  BY <1>3, TaskCancelled
<1> HIDE DEF r
<1>5. /\ update' \in [Actor -> UpdateRecord] /\ update'[e] = NoUpdate
      /\ \A b \in Actor \ {e} : update'[b] = update[b]
  BY <1>1, <1>2, NoUpdateTyped, UpdateReplaced, Zenon DEF LedgerTypeOK
<1>6. /\ task' \in [Exec -> TaskRecord] /\ task'[e] = r
      /\ \A x \in Exec \ {e} : task'[x] = task[x]
  BY <1>1, <1>4, TaskReplaced, Zenon DEF LedgerTypeOK
<1> QED
  BY <1>4, <1>5, <1>6, Zenon

\* The other updates stay as they are while only this task and its own move.
LEMMA OwnedMoved ==
    ASSUME UpdatesOwned, NEW e \in Exec,
           \A x \in Exec \ {e} : task'[x] = task[x],
           \A b \in Actor \ {e} : update'[b] = update[b], UpdateOwned(e)'
    PROVE  UpdatesOwned'
<1>1. ASSUME NEW b \in Actor \ {e} PROVE UpdateOwned(b)'
  <2>1. /\ UpdateOwned(b) /\ update'[b] = update[b]
        /\ b \in Exec => task'[b] = task[b]
    BY DEF UpdatesOwned
  <2> QED
    BY <2>1 DEF UpdateOwned
<1> QED
  BY <1>1 DEF UpdatesOwned

\* A task that has begun does not change what waits.
LEMMA StartedKept ==
    ASSUME NotStarted, NEW e \in Exec, task[e].pc # "none",
           record' = record, inbox' = inbox,
           \A x \in Exec \ {e} : task'[x] = task[x]
    PROVE  NotStarted'
BY Zenon DEF NotStarted

\* A task whose update is over may go on.
LEMMA OwnedIdle ==
    ASSUME UpdatesOwned, NEW e \in Exec, update[e].pc = "idle", update' = update,
           \A x \in Exec \ {e} : task'[x] = task[x]
    PROVE  UpdatesOwned'
<1>1. e \in Actor
  BY DEF Actor
<1>2. UpdateOwned(e)'
  BY <1>1 DEF UpdatesOwned, UpdateOwned, Holding
<1> QED
  BY <1>2, OwnedMoved

\* An update of one's own that has just begun.
LEMMA OwnedBegun ==
    ASSUME UpdatesOwned, NEW e \in Exec,
           update'[e].pc = "read", update'[e].exec = e,
           \/ update'[e].kind = "RUNNING" /\ task'[e].pc = "start"
           \/ update'[e].kind \in Final /\ task'[e].pc = "finish",
           \A x \in Exec \ {e} : task'[x] = task[x],
           \A b \in Actor \ {e} : update'[b] = update[b]
    PROVE  UpdatesOwned'
<1>1. UpdateOwned(e)'
  BY DEF UpdateOwned, Holding
<1> QED
  BY <1>1, OwnedMoved

\* The steps of a task.
LEMMA TaskStepOK ==
    ASSUME LedgerOK, NEW e \in Exec, TaskStep(e)
    PROVE  LedgerOK'
<1>1. /\ LedgerTypeOK /\ UpdatesOwned /\ NotStarted /\ UpdateOwned(e)
      /\ e \in Actor /\ trail \in Trail /\ task \in [Exec -> TaskRecord]
      /\ tracker \subseteq Exec /\ inbox \subseteq Exec
  BY DEF LedgerOK, LedgerTypeOK, UpdatesOwned, Actor
<1>2. task[e].pc \notin {"start", "finish"} => update[e].pc = "idle"
  BY <1>1 DEF UpdateOwned
<1>3. CASE TaskReads(e)
  <2>1. /\ task[e].pc = "none" /\ record[e].status # "NONE"
        /\ inbox' = inbox \ {e}
        /\ UNCHANGED <<record, tracker, update, stats, canceller, orders, control, trail>>
    BY <1>1, <1>3 DEF TaskReads, NotStarted
  <2>2. task' \in [Exec -> TaskRecord] /\ \A x \in Exec \ {e} : task'[x] = task[x]
    BY <1>1, <1>3, TaskMoved DEF TaskReads, TaskPc
  <2>3. UpdatesOwned'
    BY <1>1, <1>2, <2>1, <2>2, OwnedIdle
  <2>4. NotStarted'
    BY <1>1, <2>1, <2>2 DEF NotStarted
  <2>5. LedgerTypeOK'
    BY <1>1, <2>1, <2>2 DEF LedgerTypeOK
  <2> QED
    BY <2>3, <2>4, <2>5 DEF LedgerOK
<1>4. CASE TaskTracks(e)
  <2>1. /\ task[e].pc = "load"
        /\ UNCHANGED <<record, inbox, stats, canceller, orders, control, trail>>
    BY <1>4 DEF TaskTracks
  <2>2. CASE record[e].status \in Final
    <3>1. TaskGoto(e, "ended") /\ tracker' = tracker /\ update' = update
      BY <1>4, <2>2 DEF TaskTracks
    <3>2. task' \in [Exec -> TaskRecord] /\ \A x \in Exec \ {e} : task'[x] = task[x]
      BY <1>1, <3>1, TaskMoved DEF TaskPc
    <3>3. UpdatesOwned' /\ NotStarted'
      BY <1>1, <1>2, <2>1, <3>1, <3>2, OwnedIdle, StartedKept
    <3>4. LedgerTypeOK'
      BY <1>1, <2>1, <3>1, <3>2, Zenon DEF LedgerTypeOK
    <3> QED
      BY <3>3, <3>4 DEF LedgerOK
  <2>3. CASE record[e].status \notin Final
    <3>1. tracker' = tracker \cup {e}
      BY <1>4, <2>3 DEF TaskTracks
    <3>2. /\ task' \in [Exec -> TaskRecord] /\ task'[e].pc = "start"
          /\ \A x \in Exec \ {e} : task'[x] = task[x]
          /\ update' \in [Actor -> UpdateRecord]
          /\ update'[e].pc = "read" /\ update'[e].exec = e
          /\ update'[e].kind = "RUNNING"
          /\ \A b \in Actor \ {e} : update'[b] = update[b]
      BY <1>1, <1>4, <2>3, TracksEffect
    <3>3. UpdatesOwned' /\ NotStarted'
      BY <1>1, <2>1, <3>2, OwnedBegun, StartedKept
    <3>4. LedgerTypeOK'
      BY <1>1, <2>1, <3>1, <3>2 DEF LedgerTypeOK
    <3> QED
      BY <3>3, <3>4 DEF LedgerOK
  <2> QED
    BY <2>2, <2>3
<1>5. CASE TaskRuns(e)
  <2>1. /\ task[e].pc = "start" /\ update[e].pc = "idle" /\ TaskGoto(e, "run")
        /\ UNCHANGED <<record, inbox, tracker, update, stats, canceller, orders,
                       control, trail>>
    BY <1>5 DEF TaskRuns, Ready
  <2>2. task' \in [Exec -> TaskRecord] /\ \A x \in Exec \ {e} : task'[x] = task[x]
    BY <1>1, <2>1, TaskMoved DEF TaskPc
  <2>3. UpdatesOwned' /\ NotStarted'
    BY <1>1, <2>1, <2>2, OwnedIdle, StartedKept
  <2>4. LedgerTypeOK'
    BY <1>1, <2>1, <2>2, Zenon DEF LedgerTypeOK
  <2> QED
    BY <2>3, <2>4 DEF LedgerOK
<1>6. ASSUME NEW child \in Exec, TaskDispatches(e, child) PROVE LedgerOK'
  <2> DEFINE r == [NoRecord EXCEPT !.status = "QUEUED"]
  <2>1. r \in Record /\ r.status = "QUEUED"
    BY NoRecordTyped DEF Record, RecordStatus
  <2>2. /\ record[child].status = "NONE" /\ record' = [record EXCEPT ![child] = r]
        /\ inbox' = inbox \cup {child}
        /\ UNCHANGED <<task, tracker, update, stats, canceller, orders, control, trail>>
    BY <1>6, Zenon DEF TaskDispatches
  <2> HIDE DEF r
  <2>3. /\ record' \in [Exec -> Record] /\ record'[child] = r
        /\ \A x \in Exec \ {child} : record'[x] = record[x]
    BY <1>1, <2>1, <2>2, SMT DEF LedgerTypeOK
  <2>4. UpdatesOwned'
    BY <1>1, <2>2, Zenon DEF UpdatesOwned, UpdateOwned
  <2>5. NotStarted'
    BY <1>1, <2>1, <2>2, <2>3 DEF NotStarted
  <2>6. LedgerTypeOK'
    BY <1>1, <2>2, <2>3 DEF LedgerTypeOK
  <2> QED
    BY <2>4, <2>5, <2>6 DEF LedgerOK
<1>7. CASE TaskReturns(e)
  <2>1. /\ task[e].pc = "run"
        /\ UNCHANGED <<record, inbox, tracker, stats, canceller, orders, control, trail>>
    BY <1>7 DEF TaskReturns
  <2>2. /\ task' \in [Exec -> TaskRecord] /\ task'[e].pc = "finish"
        /\ \A x \in Exec \ {e} : task'[x] = task[x]
        /\ update' \in [Actor -> UpdateRecord]
        /\ update'[e].pc = "read" /\ update'[e].exec = e
        /\ update'[e].kind \in Final
        /\ \A b \in Actor \ {e} : update'[b] = update[b]
    BY <1>1, <1>7, ReturnsEffect
  <2>3. UpdatesOwned' /\ NotStarted'
    BY <1>1, <2>1, <2>2, OwnedBegun, StartedKept
  <2>4. LedgerTypeOK'
    BY <1>1, <2>1, <2>2, Zenon DEF LedgerTypeOK
  <2> QED
    BY <2>3, <2>4 DEF LedgerOK
<1>8. CASE TaskUnwinds(e)
  <2>1. /\ task[e].pc = "run"
        /\ UNCHANGED <<record, inbox, tracker, update, stats, canceller, orders,
                       control, trail>>
    BY <1>8 DEF TaskUnwinds
  <2>2. task' \in [Exec -> TaskRecord] /\ \A x \in Exec \ {e} : task'[x] = task[x]
    BY <1>1, <1>8, UnwindsEffect
  <2>3. UpdatesOwned' /\ NotStarted'
    BY <1>1, <1>2, <2>1, <2>2, OwnedIdle, StartedKept
  <2>4. LedgerTypeOK'
    BY <1>1, <2>1, <2>2, Zenon DEF LedgerTypeOK
  <2> QED
    BY <2>3, <2>4 DEF LedgerOK
<1>9. CASE TaskReportsCancel(e)
  <2>1. /\ task[e].pc = "unwind" /\ TaskGoto(e, "finish")
        /\ Begin(e, e, "CANCELLED")
        /\ UNCHANGED <<record, inbox, tracker, stats, canceller, orders, control>>
    BY <1>9 DEF TaskReportsCancel
  <2>2. /\ task' \in [Exec -> TaskRecord] /\ task'[e].pc = "finish"
        /\ \A x \in Exec \ {e} : task'[x] = task[x]
    BY <1>1, <2>1, TaskMoved DEF TaskPc
  <2>3. "CANCELLED" \in Final /\ "CANCELLED" \in UpdateKind
    BY DEF Final, UpdateKind
  <2>4. /\ update' \in [Actor -> UpdateRecord]
        /\ update'[e].pc = "read" /\ update'[e].exec = e
        /\ update'[e].kind = "CANCELLED"
        /\ \A b \in Actor \ {e} : update'[b] = update[b]
    BY <1>1, <2>1, <2>3, Begun, Zenon DEF LedgerTypeOK
  <2>5. UpdatesOwned' /\ NotStarted'
    BY <1>1, <2>1, <2>2, <2>3, <2>4, OwnedBegun, StartedKept
  <2>6. trail' \in Trail
    BY <1>1, <1>9, ReportsTrail
  <2>7. LedgerTypeOK'
    BY <1>1, <2>1, <2>2, <2>4, <2>6, Zenon DEF LedgerTypeOK
  <2> QED
    BY <2>5, <2>7 DEF LedgerOK
<1>10. CASE TaskEnds(e)
  <2>1. /\ task[e].pc = "finish" /\ update[e].pc = "idle" /\ TaskGoto(e, "ended")
        /\ tracker' = tracker \ {e}
        /\ UNCHANGED <<record, inbox, update, stats, canceller, orders, control, trail>>
    BY <1>10 DEF TaskEnds, Ready
  <2>2. task' \in [Exec -> TaskRecord] /\ \A x \in Exec \ {e} : task'[x] = task[x]
    BY <1>1, <2>1, TaskMoved DEF TaskPc
  <2>3. UpdatesOwned' /\ NotStarted'
    BY <1>1, <2>1, <2>2, OwnedIdle, StartedKept
  <2>4. tracker' \subseteq Exec
    BY <1>1, <2>1
  <2>5. LedgerTypeOK'
    BY <1>1, <2>1, <2>2, <2>4, Zenon DEF LedgerTypeOK
  <2> QED
    BY <2>3, <2>5 DEF LedgerOK
<1>11. CASE TaskKilled(e)
  <2>1. /\ task[e].pc \in {"start", "finish"} /\ tracker' = tracker \ {e}
        /\ UNCHANGED <<record, inbox, stats, canceller, orders, control>>
    BY <1>11 DEF TaskKilled
  <2>2. /\ task' \in [Exec -> TaskRecord] /\ \A x \in Exec \ {e} : task'[x] = task[x]
        /\ update' \in [Actor -> UpdateRecord] /\ update'[e] = NoUpdate
        /\ \A b \in Actor \ {e} : update'[b] = update[b]
    BY <1>1, <1>11, KilledEffect
  <2>3. UpdateOwned(e)'
    BY <2>2, NoUpdateTyped DEF UpdateOwned, Holding
  <2>4. UpdatesOwned' /\ NotStarted'
    BY <1>1, <2>1, <2>2, <2>3, OwnedMoved, StartedKept
  <2>5. trail' \in Trail
    BY <1>1, <1>11, KilledTrail
  <2>6. tracker' \subseteq Exec
    BY <1>1, <2>1
  <2>7. LedgerTypeOK'
    BY <1>1, <2>1, <2>2, <2>5, <2>6, Zenon DEF LedgerTypeOK
  <2> QED
    BY <2>4, <2>7 DEF LedgerOK
<1> QED
  BY <1>3, <1>4, <1>5, <1>6, <1>7, <1>8, <1>9, <1>10, <1>11 DEF TaskStep
-----------------------------------------------------------------------------
(* What the steps of a cancellation do.                                    *)

\* The canceller at its next node.
LEMMA CancelFlagsTyped ==
    ASSUME NEW r \in CancelRecord, NEW S \in SUBSET Exec, NEW v,
           v = [r EXCEPT !.flags = S]
    PROVE  /\ v \in CancelRecord /\ v.pc = r.pc /\ v.mode = r.mode
           /\ v.flags = S /\ v.marks = r.marks /\ v.node = r.node
BY SMT DEF CancelRecord

LEMMA CancelMarksTyped ==
    ASSUME NEW r \in CancelRecord, NEW S \in SUBSET Exec, NEW v,
           v = [r EXCEPT !.marks = S]
    PROVE  /\ v \in CancelRecord /\ v.pc = r.pc /\ v.mode = r.mode
           /\ v.flags = r.flags /\ v.marks = S /\ v.node = r.node
BY SMT DEF CancelRecord

LEMMA CancelNodeTyped ==
    ASSUME NEW r \in CancelRecord, NEW n \in Exec \cup {NoExec}, NEW v,
           v = [r EXCEPT !.node = n]
    PROVE  /\ v \in CancelRecord /\ v.pc = r.pc /\ v.mode = r.mode
           /\ v.flags = r.flags /\ v.marks = r.marks /\ v.node = n
BY SMT DEF CancelRecord

LEMMA CancelPcTyped ==
    ASSUME NEW r \in CancelRecord, NEW pc \in {"idle", "flags", "order"}, NEW v,
           v = [r EXCEPT !.pc = pc]
    PROVE  /\ v \in CancelRecord /\ v.pc = pc /\ v.mode = r.mode
           /\ v.flags = r.flags /\ v.marks = r.marks /\ v.node = r.node
BY SMT DEF CancelRecord

\* A cancellation begins: it goes by the records it has read.
LEMMA CancelsEffect ==
    ASSUME LedgerTypeOK, NEW mode \in {"task", "session"}, NEW nodes,
           Cancels(mode, nodes)
    PROVE  /\ canceller.pc = "idle"
           /\ canceller' \in CancelRecord
           /\ canceller'.pc = "flags" /\ canceller'.mode = mode
           /\ \A e \in canceller'.flags : record[e].status \in Final
           /\ canceller'.node = NoExec
           /\ UNCHANGED <<record, inbox, task, tracker, update, stats, orders,
                          control, trail>>
<1> DEFINE F == {e \in Exec \cap nodes : record[e].status \in Final}
           M == {e \in Exec \cap nodes : record[e].status \notin Final}
           K == {e \in Exec \cap nodes : record[e].worker}
<1>1. F \subseteq Exec /\ M \subseteq Exec /\ K \subseteq Exec
  OBVIOUS
<1>2. \A e \in F : record[e].status \in Final
  OBVIOUS
<1>3. canceller' = [pc |-> "flags", mode |-> mode, flags |-> F, marks |-> M,
                    known |-> K, node |-> NoExec]
  BY Zenon DEF Cancels
<1> HIDE DEF F, M, K
<1>4. /\ canceller' \in CancelRecord
      /\ canceller'.pc = "flags" /\ canceller'.mode = mode
      /\ canceller'.flags = F /\ canceller'.node = NoExec
  BY <1>1, <1>3, SMT DEF CancelRecord
<1> QED
  BY <1>2, <1>4, Zenon DEF Cancels

\* The flag of a finished node.
LEMMA FlagsEffect ==
    ASSUME LedgerTypeOK, NEW e \in Exec, CancelFlags(e)
    PROVE  /\ canceller' \in CancelRecord
           /\ canceller'.pc = canceller.pc /\ canceller'.mode = canceller.mode
           /\ canceller'.flags = canceller.flags \ {e}
           /\ canceller'.marks = canceller.marks /\ canceller'.node = canceller.node
           /\ update' \in [Actor -> UpdateRecord]
           /\ update'[Client].pc = "read" /\ update'[Client].exec = e
           /\ update'[Client].kind = "REQUESTED"
           /\ \A b \in Actor \ {Client} : update'[b] = update[b]
<1> DEFINE S == canceller.flags \ {e}
<1>1. canceller' = [canceller EXCEPT !.flags = S] /\ Begin(Client, e, "REQUESTED")
  BY DEF CancelFlags
<1>2. canceller \in CancelRecord /\ S \in SUBSET Exec
  BY DEF LedgerTypeOK, CancelRecord
<1> HIDE DEF S
<1>3. /\ canceller' \in CancelRecord
      /\ canceller'.pc = canceller.pc /\ canceller'.mode = canceller.mode
      /\ canceller'.flags = S
      /\ canceller'.marks = canceller.marks /\ canceller'.node = canceller.node
  BY <1>1, <1>2, CancelFlagsTyped
<1>4. Client \in Actor /\ "REQUESTED" \in UpdateKind
  BY DEF Actor, UpdateKind
<1>5. /\ update' \in [Actor -> UpdateRecord]
      /\ update'[Client].pc = "read" /\ update'[Client].exec = e
      /\ update'[Client].kind = "REQUESTED"
      /\ \A b \in Actor \ {Client} : update'[b] = update[b]
  BY <1>1, <1>4, Begun, Zenon DEF LedgerTypeOK
<1> QED
  BY <1>3, <1>5, Zenon DEF S

\* The mark of the next node.
LEMMA MarksEffect ==
    ASSUME LedgerTypeOK, NEW e \in Exec, CancelMarks(e)
    PROVE  /\ canceller' \in CancelRecord
           /\ canceller'.pc = "order" /\ canceller'.mode = canceller.mode
           /\ canceller'.flags = canceller.flags
           /\ canceller'.marks = canceller.marks \ {e} /\ canceller'.node = e
           /\ update' \in [Actor -> UpdateRecord]
           /\ update'[Client].pc = "read" /\ update'[Client].exec = e
           /\ update'[Client].kind = "CANCELLING"
           /\ \A b \in Actor \ {Client} : update'[b] = update[b]
<1> DEFINE S == canceller.marks \ {e}
           q == [canceller EXCEPT !.pc = "order"]
           r == [q EXCEPT !.marks = S]
<1>1. canceller' = [r EXCEPT !.node = e] /\ Begin(Client, e, "CANCELLING")
  BY Zenon DEF CancelMarks
<1>2. canceller \in CancelRecord /\ S \in SUBSET Exec
  BY DEF LedgerTypeOK, CancelRecord
<1> HIDE DEF S
<1>3. /\ q \in CancelRecord /\ q.pc = "order" /\ q.mode = canceller.mode
      /\ q.flags = canceller.flags
  BY <1>2, CancelPcTyped
<1> HIDE DEF q
<1>4. /\ r \in CancelRecord /\ r.pc = "order" /\ r.mode = canceller.mode
      /\ r.flags = canceller.flags /\ r.marks = S
  BY <1>2, <1>3, CancelMarksTyped
<1> HIDE DEF r
<1>5. /\ canceller' \in CancelRecord
      /\ canceller'.pc = "order" /\ canceller'.mode = canceller.mode
      /\ canceller'.flags = canceller.flags
      /\ canceller'.marks = S /\ canceller'.node = e
  BY <1>1, <1>4, CancelNodeTyped
<1>6. Client \in Actor /\ "CANCELLING" \in UpdateKind
  BY DEF Actor, UpdateKind
<1>7. /\ update' \in [Actor -> UpdateRecord]
      /\ update'[Client].pc = "read" /\ update'[Client].exec = e
      /\ update'[Client].kind = "CANCELLING"
      /\ \A b \in Actor \ {Client} : update'[b] = update[b]
  BY <1>1, <1>6, Begun, Zenon DEF LedgerTypeOK
<1> QED
  BY <1>5, <1>7, Zenon DEF S

\* The command to a node whose worker is known.
LEMMA OrdersEffect ==
    ASSUME LedgerTypeOK, CancelOrders
    PROVE  /\ canceller' \in CancelRecord
           /\ canceller.pc = "order"
           /\ canceller'.pc = "flags" /\ canceller'.mode = canceller.mode
           /\ canceller'.flags = canceller.flags
           /\ canceller'.marks = canceller.marks /\ canceller'.node = NoExec
           /\ orders' \subseteq Exec
           /\ orders' \subseteq orders \cup {canceller.node}
<1> DEFINE q == [canceller EXCEPT !.pc = "flags"]
<1>1. canceller' = [q EXCEPT !.node = NoExec] /\ canceller.pc = "order"
  BY Zenon DEF CancelOrders
<1>2. canceller \in CancelRecord
  BY DEF LedgerTypeOK
<1>3. /\ q \in CancelRecord /\ q.pc = "flags" /\ q.mode = canceller.mode
      /\ q.flags = canceller.flags /\ q.marks = canceller.marks
  BY <1>2, CancelPcTyped
<1> HIDE DEF q
<1>4. /\ canceller' \in CancelRecord
      /\ canceller'.pc = "flags" /\ canceller'.mode = canceller.mode
      /\ canceller'.flags = canceller.flags
      /\ canceller'.marks = canceller.marks /\ canceller'.node = NoExec
  BY <1>1, <1>3, CancelNodeTyped
<1>5. orders' \subseteq Exec /\ orders' \subseteq orders \cup {canceller.node}
  BY <1>2 DEF CancelOrders, LedgerTypeOK, CancelRecord
<1> QED
  BY <1>1, <1>4, <1>5, Zenon

\* The control loop takes a command and marks the record.
LEMMA ControlMarksEffect ==
    ASSUME LedgerTypeOK, NEW e \in Exec, ControlMarks(e)
    PROVE  /\ orders' \subseteq orders /\ e \in orders
           /\ control' \in [exec: Exec \cup {NoExec}, running: BOOLEAN]
           /\ control'.exec = e
           /\ update' \in [Actor -> UpdateRecord]
           /\ update'[Control].pc = "read" /\ update'[Control].exec = e
           /\ update'[Control].kind = "CANCELLING"
           /\ \A b \in Actor \ {Control} : update'[b] = update[b]
<1>1. Control \in Actor /\ "CANCELLING" \in UpdateKind
  BY DEF Actor, UpdateKind
<1>2. /\ update' \in [Actor -> UpdateRecord]
      /\ update'[Control].pc = "read" /\ update'[Control].exec = e
      /\ update'[Control].kind = "CANCELLING"
      /\ \A b \in Actor \ {Control} : update'[b] = update[b]
  BY <1>1, Begun, Zenon DEF LedgerTypeOK, ControlMarks
<1>3. /\ control' \in [exec: Exec \cup {NoExec}, running: BOOLEAN]
      /\ control'.exec = e /\ orders' \subseteq orders /\ e \in orders
  BY DEF ControlMarks
<1> QED
  BY <1>2, <1>3, Zenon

\* It cancels the task it has found: the task stays where it is.
LEMMA ControlCancelsEffect ==
    ASSUME LedgerTypeOK, ControlCancels
    PROVE  /\ control.exec \in Exec
           /\ task' \in [Exec -> TaskRecord]
           /\ task'[control.exec].pc = task[control.exec].pc
           /\ \A x \in Exec \ {control.exec} : task'[x] = task[x]
           /\ control' \in [exec: Exec \cup {NoExec}, running: BOOLEAN]
           /\ control'.exec = NoExec
<1> DEFINE e == control.exec
           o == task[e]
           q == [o EXCEPT !.cancelled = TRUE]
           r == [q EXCEPT !.event = TRUE]
<1>1. \/ task' = [task EXCEPT ![e] = r]
      \/ task' = task
  BY Zenon DEF ControlCancels
<1>2. e \in Exec /\ task[e] \in TaskRecord
  BY DEF LedgerTypeOK, ControlCancels
<1>3. /\ control' \in [exec: Exec \cup {NoExec}, running: BOOLEAN]
      /\ control'.exec = NoExec
  BY DEF ControlCancels
<1> HIDE DEF o
<1>4. q \in TaskRecord /\ q.pc = o.pc
  <2>1. o \in TaskRecord
    BY <1>2, Zenon DEF o
  <2> QED
    BY <2>1, TaskCancelled
<1> HIDE DEF e, q
<1>5. r \in TaskRecord /\ r.pc = task[e].pc
  BY <1>4, TaskTold DEF o
<1> HIDE DEF r
<1>6. task \in [Exec -> TaskRecord]
  BY DEF LedgerTypeOK
<1>7. /\ task' \in [Exec -> TaskRecord] /\ task'[e].pc = task[e].pc
      /\ \A x \in Exec \ {e} : task'[x] = task[x]
  <2>1. CASE task' = task
    BY <1>6, <2>1
  <2>2. CASE task' = [task EXCEPT ![e] = r]
    BY <1>2, <1>5, <1>6, <2>2, TaskReplaced
  <2> QED
    BY <1>1, <2>1, <2>2
<1> QED
  BY <1>2, <1>3, <1>7, Zenon DEF e

\* An update begun by the canceller or by the control loop.
LEMMA OwnedOrdered ==
    ASSUME UpdatesOwned, task' = task, NEW a \in {Client, Control}, NEW e \in Exec,
           update'[a].pc = "read", update'[a].exec = e,
           update'[a].kind \in {"CANCELLING", "REQUESTED"},
           \A b \in Actor \ {a} : update'[b] = update[b]
    PROVE  UpdatesOwned'
<1>1. a \in Actor /\ a \notin Exec
  BY ActorAssumption DEF Actor
<1>2. UpdateOwned(a)'
  BY <1>1 DEF UpdateOwned, Holding
<1> QED
  BY <1>1, <1>2, OwnedOthers

\* The steps of a cancellation.
LEMMA CancelStepOK ==
    ASSUME LedgerOK,
           \/ CancelStep
           \/ \E mode \in {"task", "session"} : \E nodes : Cancels(mode, nodes)
    PROVE  LedgerOK'
<1>1. LedgerTypeOK /\ UpdatesOwned /\ NotStarted
  BY DEF LedgerOK
<1>2. ASSUME NEW mode \in {"task", "session"}, NEW nodes, Cancels(mode, nodes)
      PROVE  LedgerOK'
  <2>1. /\ canceller' \in CancelRecord
        /\ UNCHANGED <<record, inbox, task, tracker, update, stats, orders,
                       control, trail>>
    BY <1>1, <1>2, CancelsEffect
  <2> QED
    BY <1>1, <2>1, Zenon
       DEF LedgerOK, LedgerTypeOK, UpdatesOwned, UpdateOwned, NotStarted
<1>3. ASSUME NEW e \in Exec, CancelFlags(e) PROVE LedgerOK'
  <2>1. UNCHANGED <<record, inbox, task, tracker, stats, orders, control, trail>>
    BY <1>3 DEF CancelFlags
  <2>2. /\ canceller' \in CancelRecord
        /\ update' \in [Actor -> UpdateRecord]
        /\ update'[Client].pc = "read" /\ update'[Client].exec = e
        /\ update'[Client].kind = "REQUESTED"
        /\ \A b \in Actor \ {Client} : update'[b] = update[b]
    BY <1>1, <1>3, FlagsEffect
  <2>3. UpdatesOwned'
    BY <1>1, <2>1, <2>2, OwnedOrdered
  <2> QED
    BY <1>1, <2>1, <2>2, <2>3, Zenon DEF LedgerOK, LedgerTypeOK, NotStarted
<1>4. ASSUME NEW e \in Exec, CancelMarks(e) PROVE LedgerOK'
  <2>1. UNCHANGED <<record, inbox, task, tracker, stats, orders, control, trail>>
    BY <1>4 DEF CancelMarks
  <2>2. /\ canceller' \in CancelRecord
        /\ update' \in [Actor -> UpdateRecord]
        /\ update'[Client].pc = "read" /\ update'[Client].exec = e
        /\ update'[Client].kind = "CANCELLING"
        /\ \A b \in Actor \ {Client} : update'[b] = update[b]
    BY <1>1, <1>4, MarksEffect
  <2>3. UpdatesOwned'
    BY <1>1, <2>1, <2>2, OwnedOrdered
  <2> QED
    BY <1>1, <2>1, <2>2, <2>3, Zenon DEF LedgerOK, LedgerTypeOK, NotStarted
<1>5. CASE CancelOrders
  <2>1. UNCHANGED <<record, inbox, task, tracker, update, stats, control, trail>>
    BY <1>5 DEF CancelOrders
  <2>2. canceller' \in CancelRecord /\ orders' \subseteq Exec
    BY <1>1, <1>5, OrdersEffect
  <2> QED
    BY <1>1, <2>1, <2>2, Zenon
       DEF LedgerOK, LedgerTypeOK, UpdatesOwned, UpdateOwned, NotStarted
<1>6. ASSUME NEW e \in Exec, ControlMarks(e) PROVE LedgerOK'
  <2>1. UNCHANGED <<record, inbox, task, tracker, stats, canceller, trail>>
    BY <1>6 DEF ControlMarks
  <2>2. /\ orders' \subseteq orders
        /\ control' \in [exec: Exec \cup {NoExec}, running: BOOLEAN]
        /\ update' \in [Actor -> UpdateRecord]
        /\ update'[Control].pc = "read" /\ update'[Control].exec = e
        /\ update'[Control].kind = "CANCELLING"
        /\ \A b \in Actor \ {Control} : update'[b] = update[b]
    BY <1>1, <1>6, ControlMarksEffect
  <2>3. UpdatesOwned'
    BY <1>1, <2>1, <2>2, OwnedOrdered
  <2>4. orders' \subseteq Exec
    BY <1>1, <2>2 DEF LedgerTypeOK
  <2> QED
    BY <1>1, <2>1, <2>2, <2>3, <2>4, Zenon DEF LedgerOK, LedgerTypeOK, NotStarted
<1>7. CASE ControlCancels
  <2> DEFINE e == control.exec
  <2>1. UNCHANGED <<record, inbox, tracker, update, stats, canceller, orders, trail>>
    BY <1>7 DEF ControlCancels
  <2>2. /\ e \in Exec /\ task' \in [Exec -> TaskRecord]
        /\ task'[e].pc = task[e].pc
        /\ \A x \in Exec \ {e} : task'[x] = task[x]
        /\ control' \in [exec: Exec \cup {NoExec}, running: BOOLEAN]
    BY <1>1, <1>7, ControlCancelsEffect, Zenon
  <2> HIDE DEF e
  <2>3. \A x \in Exec : task'[x].pc = task[x].pc
    BY <2>2
  <2>4. UpdatesOwned'
    BY <1>1, <2>1, <2>3, Zenon DEF UpdatesOwned, UpdateOwned
  <2>5. NotStarted'
    BY <1>1, <2>1, <2>3, Zenon DEF NotStarted
  <2>6. LedgerTypeOK'
    BY <1>1, <2>1, <2>2, Zenon DEF LedgerTypeOK
  <2> QED
    BY <2>4, <2>5, <2>6 DEF LedgerOK
<1> QED
  BY <1>2, <1>3, <1>4, <1>5, <1>6, <1>7 DEF CancelStep

\* A cancellation is the one thing a client begins.
LEMMA CancelBegins ==
    ASSUME CancelSession \/ \E e \in Exec : CancelTask(e)
    PROVE  \E mode \in {"task", "session"} : \E nodes : Cancels(mode, nodes)
BY Zenon DEF CancelSession, CancelTask

\* The initial state.
LEMMA LedgerInitOK == LedgerInit => LedgerOK
<1> SUFFICES ASSUME LedgerInit PROVE LedgerOK
  OBVIOUS
<1>1. record \in [Exec -> Record] /\ \A e \in inbox : record[e].status = "QUEUED"
  <2> DEFINE r == [NoRecord EXCEPT !.status = "QUEUED"]
  <2>1. r \in Record /\ r.status = "QUEUED"
    BY NoRecordTyped DEF Record, RecordStatus
  <2>2. /\ record = [e \in Exec |-> IF Parent[e] = NoExec THEN r ELSE NoRecord]
        /\ inbox = {e \in Exec : Parent[e] = NoExec}
    BY Zenon DEF LedgerInit
  <2> HIDE DEF r
  <2> QED
    BY <2>1, <2>2, NoRecordTyped
<1>2. task \in [Exec -> TaskRecord] /\ \A e \in Exec : task[e].pc = "none"
  BY DEF LedgerInit, NoTask, TaskRecord, Final
<1>3. /\ update \in [Actor -> UpdateRecord] /\ \A a \in Actor : update[a] = NoUpdate
  BY NoUpdateTyped, Zenon DEF LedgerInit
<1>4. /\ inbox \subseteq Exec /\ tracker \subseteq Exec /\ orders \subseteq Exec
      /\ stats \in [active: Int, index: SUBSET Exec]
      /\ control \in [exec: Exec \cup {NoExec}, running: BOOLEAN]
  BY DEF LedgerInit
<1>5. canceller \in CancelRecord /\ trail \in Trail
  BY DEF LedgerInit, CancelRecord, Trail
<1>6. UpdatesOwned
  BY <1>3, IdleOwned DEF UpdatesOwned
<1>7. NotStarted
  BY <1>1, <1>2 DEF NotStarted
<1> QED
  BY <1>1, <1>2, <1>3, <1>4, <1>5, <1>6, <1>7, Zenon DEF LedgerOK, LedgerTypeOK

\* Every step.
LEMMA LedgerStepOK == LedgerOK /\ [LedgerNext]_ledgerVars => LedgerOK'
<1> SUFFICES ASSUME LedgerOK, [LedgerNext]_ledgerVars PROVE LedgerOK'
  OBVIOUS
<1>1. CASE UNCHANGED ledgerVars
  BY <1>1, Zenon
     DEF ledgerVars, LedgerOK, LedgerTypeOK, UpdatesOwned, UpdateOwned, NotStarted
<1> QED
  BY <1>1, UpdateStepOK, TaskStepOK, CancelStepOK, CancelBegins DEF LedgerNext

\* Every reachable state of the records, tasks, updates and cancellations of a
\* session is well typed, and an update belongs to who may make it
\* (registry.py, runner.py, _control_handling.py, client.py).
THEOREM LedgerTypeCorrect == LedgerSpec => []LedgerTypeOK
<1>1. LedgerOK => LedgerTypeOK
  BY DEF LedgerOK
<1> QED
  BY <1>1, LedgerInitOK, LedgerStepOK, PTL DEF LedgerSpec

LEMMA AlwaysOK == LedgerSpec => []LedgerOK
BY LedgerInitOK, LedgerStepOK, PTL DEF LedgerSpec
-----------------------------------------------------------------------------
(* The tracker.                                                            *)

\* A task is in the tracker from before its RUNNING is written to its end.
Tracked ==
    \A e \in Exec : task[e].pc \in {"start", "run", "unwind", "finish"} => e \in tracker

\* A step of one task, as far as the tracker goes.
LEMMA TrackedStep ==
    ASSUME LedgerOK, Tracked, NEW e \in Exec, TaskStep(e)
    PROVE  Tracked'
<1>1. LedgerTypeOK /\ task \in [Exec -> TaskRecord]
  BY DEF LedgerOK, LedgerTypeOK
<1>2. ASSUME NEW pc \in {"load", "ended"}, TaskGoto(e, pc),
             tracker \ {e} \subseteq tracker'
      PROVE  Tracked'
  BY <1>1, <1>2, TaskMoved DEF Tracked, TaskPc
<1>3. ASSUME NEW pc \in {"run", "finish"}, TaskGoto(e, pc), tracker' = tracker,
             task[e].pc \in {"start", "unwind"}
      PROVE  Tracked'
  BY <1>1, <1>3, TaskMoved DEF Tracked, TaskPc
<1>4. CASE TaskTracks(e) /\ record[e].status \notin Final
  <2>1. tracker' = tracker \cup {e}
    BY <1>4 DEF TaskTracks
  <2>2. \A x \in Exec \ {e} : task'[x] = task[x]
    BY <1>1, <1>4, TracksEffect
  <2> QED
    BY <2>1, <2>2 DEF Tracked
<1>5. CASE TaskTracks(e) /\ record[e].status \in Final
  BY <1>2, <1>5 DEF TaskTracks
<1>6. CASE TaskReads(e)
  BY <1>2, <1>6 DEF TaskReads
<1>7. CASE TaskRuns(e)
  BY <1>3, <1>7 DEF TaskRuns
<1>8. CASE TaskReturns(e)
  <2>1. tracker' = tracker /\ task[e].pc = "run"
    BY <1>8 DEF TaskReturns
  <2>2. \A x \in Exec \ {e} : task'[x] = task[x]
    BY <1>1, <1>8, ReturnsEffect
  <2> QED
    BY <2>1, <2>2 DEF Tracked
<1>9. CASE TaskUnwinds(e)
  <2>1. tracker' = tracker /\ task[e].pc = "run"
    BY <1>9 DEF TaskUnwinds
  <2>2. \A x \in Exec \ {e} : task'[x] = task[x]
    BY <1>1, <1>9, UnwindsEffect
  <2> QED
    BY <2>1, <2>2 DEF Tracked
<1>10. CASE TaskReportsCancel(e)
  BY <1>3, <1>10 DEF TaskReportsCancel
<1>11. CASE TaskEnds(e)
  BY <1>2, <1>11 DEF TaskEnds
<1>12. CASE TaskKilled(e)
  <2>1. tracker' = tracker \ {e}
    BY <1>12 DEF TaskKilled
  <2>2. /\ task'[e].pc = "ended"
        /\ \A x \in Exec \ {e} : task'[x] = task[x]
    BY <1>1, <1>12, KilledEffect
  <2> QED
    BY <2>1, <2>2 DEF Tracked
<1>13. ASSUME NEW child \in Exec, TaskDispatches(e, child) PROVE Tracked'
  BY <1>13 DEF TaskDispatches, Tracked
<1> QED
  BY <1>4, <1>5, <1>6, <1>7, <1>8, <1>9, <1>10, <1>11, <1>12, <1>13 DEF TaskStep

\* What a step of an update or of a cancellation leaves alone.
LEMMA TaskStays ==
    ASSUME LedgerOK,
           \/ \E a \in Actor : UpdateStep(a)
           \/ CancelSession \/ \E e \in Exec : CancelTask(e)
           \/ CancelStep
           \/ UNCHANGED ledgerVars
    PROVE  /\ tracker' = tracker /\ \A e \in Exec : task'[e].pc = task[e].pc
           /\ inbox' = inbox
<1>1. CASE ControlCancels
  <2>1. /\ tracker' = tracker /\ inbox' = inbox /\ task'[control.exec].pc = task[control.exec].pc
        /\ \A x \in Exec \ {control.exec} : task'[x] = task[x]
    BY <1>1, ControlCancelsEffect DEF LedgerOK, ControlCancels
  <2> QED
    BY <2>1
<1>2. CASE ~ControlCancels
  <2>1. UNCHANGED <<tracker, task, inbox>>
    BY <1>2, Zenon
       DEF UpdateStep, UpdateReads, UpdateWrites, UpdateCounts, UpdateCleans,
           CancelSession, CancelTask, Cancels, CancelStep, CancelOrders,
           CancelFlags, CancelMarks, ControlMarks, ledgerVars
  <2> QED
    BY <2>1
<1> QED
  BY <1>1, <1>2

\* A cancel command goes to the worker that the record names, and finds the
\* task there, for every interleaving with its start and its end
\* (_control_handling.py, handle_cancel_task).
THEOREM CancelAlwaysFindsTask == LedgerSpec => []CancelFindsTask
<1>1. LedgerInit => Tracked
  BY DEF LedgerInit, NoTask, Tracked
<1>2. LedgerOK /\ Tracked /\ [LedgerNext]_ledgerVars => Tracked'
  <2> SUFFICES ASSUME LedgerOK, Tracked, [LedgerNext]_ledgerVars PROVE Tracked'
    OBVIOUS
  <2>1. CASE \E e \in Exec : TaskStep(e)
    BY <2>1, TrackedStep
  <2>2. CASE ~\E e \in Exec : TaskStep(e)
    <3>1. tracker' = tracker /\ \A e \in Exec : task'[e].pc = task[e].pc
      BY <2>2, TaskStays DEF LedgerNext
    <3> QED
      BY <3>1 DEF Tracked
  <2> QED
    BY <2>1, <2>2
<1>3. Tracked => CancelFindsTask
  BY DEF Tracked, CancelFindsTask
<1> QED
  BY <1>1, <1>2, <1>3, AlwaysOK, PTL DEF LedgerSpec
-----------------------------------------------------------------------------
(* Updates that do not overlap.                                            *)

\* One update at a time holds a record.
Exclusive ==
    \A a, b \in Actor :
        a # b /\ update[a].pc \in Holding /\ update[b].pc \in Holding
            => update[a].exec # update[b].exec

\* What an update holds is what is stored.
Current ==
    \A a \in Actor :
        /\ update[a].pc = "write" => update[a].old = record[update[a].exec]
        /\ update[a].pc \in {"stats", "clean"} =>
               update[a].new = record[update[a].exec]

\* A record is finished by the end of its task.
Finished ==
    \A e \in Exec :
        /\ record[e].status = "NONE" => record[e] = NoRecord
        /\ record[e].status \in Final => task[e].pc \in Over

NoLostUpdate == Exclusive /\ Current /\ Finished

\* A step that is no step of an update lets every version stand, and tasks that
\* are over stay over; it may make an absent record.
Quiet ==
    /\ \A b \in Actor : \/ update'[b] = update[b]
                        \/ update[b].pc \notin Holding /\ update'[b].pc \notin Holding
    /\ \A e \in Exec : task[e].pc \in Over => task'[e].pc \in Over
    /\ stats' = stats /\ trail.overlapped = trail'.overlapped
    /\ \/ record' = record
       \/ \E child \in Exec :
             /\ record[child].status = "NONE"
             /\ record'[child] = [NoRecord EXCEPT !.status = "QUEUED"]
             /\ \A e \in Exec \ {child} : record'[e] = record[e]

LEMMA TaskQuiet ==
    ASSUME LedgerOK, NEW e \in Exec, TaskStep(e), ~trail'.overlapped
    PROVE  Quiet
<1>1. /\ LedgerTypeOK /\ task \in [Exec -> TaskRecord] /\ trail \in Trail
      /\ UpdateOwned(e) /\ e \in Actor /\ NotStarted
  BY DEF LedgerOK, LedgerTypeOK, UpdatesOwned, Actor
<1>2. task[e].pc \notin {"start", "finish"} => update[e].pc \notin Holding
  BY <1>1 DEF UpdateOwned, Holding
<1>3. ASSUME NEW pc \in TaskPc, TaskGoto(e, pc), task[e].pc \in Over => pc \in Over,
             UNCHANGED <<update, stats, record, trail>>
      PROVE  Quiet
  <2>1. task'[e].pc = pc /\ \A x \in Exec \ {e} : task'[x] = task[x]
    BY <1>1, <1>3, TaskMoved
  <2> QED
    BY <1>3, <2>1 DEF Quiet
<1>4. ASSUME \A x \in Exec \ {e} : task'[x] = task[x],
             task[e].pc \in Over => task'[e].pc \in Over,
             \A b \in Actor \ {e} : update'[b] = update[b],
             update[e].pc \notin Holding, update'[e].pc \notin Holding,
             trail.overlapped = trail'.overlapped,
             UNCHANGED <<stats, record>>
      PROVE  Quiet
  BY <1>4 DEF Quiet
<1>5. CASE TaskReads(e)
  BY <1>1, <1>3, <1>5 DEF TaskReads, NotStarted, TaskPc, Over
<1>6. CASE TaskTracks(e) /\ record[e].status \in Final
  BY <1>3, <1>6 DEF TaskTracks, TaskPc, Over
<1>7. CASE TaskTracks(e) /\ record[e].status \notin Final
  <2>1. /\ task'[e].pc = "start" /\ \A x \in Exec \ {e} : task'[x] = task[x]
        /\ update'[e].pc = "read"
        /\ \A b \in Actor \ {e} : update'[b] = update[b]
    BY <1>1, <1>7, TracksEffect
  <2>2. task[e].pc = "load" /\ UNCHANGED <<stats, record, trail>>
    BY <1>7 DEF TaskTracks
  <2> QED
    BY <1>2, <1>4, <2>1, <2>2 DEF Over, Holding
<1>8. CASE TaskRuns(e)
  BY <1>3, <1>8 DEF TaskRuns, TaskPc, Over
<1>9. ASSUME NEW child \in Exec, TaskDispatches(e, child) PROVE Quiet
  <2>1. /\ record[child].status = "NONE"
        /\ record' = [record EXCEPT ![child] = [NoRecord EXCEPT !.status = "QUEUED"]]
        /\ UNCHANGED <<task, update, stats, trail>>
    BY <1>9, Zenon DEF TaskDispatches
  <2>2. /\ record'[child] = [NoRecord EXCEPT !.status = "QUEUED"]
        /\ \A x \in Exec \ {child} : record'[x] = record[x]
    BY <1>1, <2>1, Zenon DEF LedgerTypeOK
  <2> QED
    BY <2>1, <2>2, Zenon DEF Quiet
<1>10. CASE TaskReturns(e)
  <2>1. /\ task'[e].pc = "finish" /\ \A x \in Exec \ {e} : task'[x] = task[x]
        /\ update'[e].pc = "read"
        /\ \A b \in Actor \ {e} : update'[b] = update[b]
    BY <1>1, <1>10, ReturnsEffect
  <2>2. task[e].pc = "run" /\ UNCHANGED <<stats, record, trail>>
    BY <1>10 DEF TaskReturns
  <2> QED
    BY <1>2, <1>4, <2>1, <2>2 DEF Over, Holding
<1>11. CASE TaskUnwinds(e)
  <2>1. task'[e].pc = "unwind" /\ \A x \in Exec \ {e} : task'[x] = task[x]
    BY <1>1, <1>11, UnwindsEffect
  <2>2. task[e].pc = "run" /\ UNCHANGED <<update, stats, record, trail>>
    BY <1>11 DEF TaskUnwinds
  <2> QED
    BY <1>2, <1>4, <2>1, <2>2 DEF Over, Holding
<1>12. CASE TaskReportsCancel(e)
  <2>1. /\ task[e].pc = "unwind" /\ TaskGoto(e, "finish")
        /\ Begin(e, e, "CANCELLED") /\ UNCHANGED <<stats, record>>
    BY <1>12 DEF TaskReportsCancel
  <2>2. task'[e].pc = "finish" /\ \A x \in Exec \ {e} : task'[x] = task[x]
    BY <1>1, <2>1, TaskMoved DEF TaskPc
  <2>3. /\ update'[e].pc = "read"
        /\ \A b \in Actor \ {e} : update'[b] = update[b]
    <3>1. "CANCELLED" \in UpdateKind
      BY DEF UpdateKind, Final
    <3> QED
      BY <1>1, <2>1, <3>1, Begun, Zenon DEF LedgerTypeOK
  <2>4. trail'.overlapped = trail.overlapped
    BY <1>1, <1>12, ReportsTrail
  <2> QED
    BY <1>2, <1>4, <2>1, <2>2, <2>3, <2>4 DEF Over, Holding
<1>13. CASE TaskEnds(e)
  BY <1>3, <1>13 DEF TaskEnds, TaskPc, Over
<1>14. CASE TaskKilled(e)
  <2>1. /\ task'[e].pc = "ended" /\ \A x \in Exec \ {e} : task'[x] = task[x]
        /\ update'[e] = NoUpdate
        /\ \A b \in Actor \ {e} : update'[b] = update[b]
    BY <1>1, <1>14, KilledEffect
  <2>2. trail'.overlapped = (trail.overlapped \/ ~Ready(e)) /\ UNCHANGED <<stats, record>>
    BY <1>1, <1>14, KilledTrail DEF TaskKilled
  <2>3. /\ update[e].pc = "idle" /\ ~trail.overlapped
        /\ trail.overlapped = trail'.overlapped
    BY <1>1, <2>2 DEF Ready, Trail
  <2> QED
    BY <1>4, <2>1, <2>2, <2>3, NoUpdateTyped DEF Over, Holding
<1> QED
  BY <1>5, <1>6, <1>7, <1>8, <1>9, <1>10, <1>11, <1>12, <1>13, <1>14 DEF TaskStep

LEMMA CancelQuiet ==
    ASSUME LedgerOK,
           \/ CancelSession \/ \E e \in Exec : CancelTask(e)
           \/ CancelStep
           \/ UNCHANGED ledgerVars
    PROVE  Quiet
<1>1. \A e \in Exec : task'[e].pc = task[e].pc
  BY TaskStays
<1>2. UNCHANGED <<stats, record, trail>>
  BY Zenon DEF CancelSession, CancelTask, Cancels, CancelStep, CancelOrders,
         CancelFlags, CancelMarks, ControlMarks, ControlCancels, ledgerVars
<1>3. \A b \in Actor : \/ update'[b] = update[b]
                       \/ update[b].pc \notin Holding /\ update'[b].pc \notin Holding
  <2>1. ASSUME NEW e \in Exec, CancelFlags(e) \/ CancelMarks(e) PROVE <1>3
    <3>1. update[Client].pc = "idle"
      BY <2>1 DEF CancelFlags, CancelMarks, Ready
    <3>2. update'[Client].pc = "read" /\ \A b \in Actor \ {Client} : update'[b] = update[b]
      BY <2>1, FlagsEffect, MarksEffect DEF LedgerOK
    <3> QED
      BY <3>1, <3>2 DEF Holding
  <2>2. ASSUME NEW e \in Exec, ControlMarks(e) PROVE <1>3
    <3>1. update[Control].pc = "idle"
      BY <2>2 DEF ControlMarks, Ready
    <3>2. update'[Control].pc = "read" /\ \A b \in Actor \ {Control} : update'[b] = update[b]
      BY <2>2, ControlMarksEffect DEF LedgerOK
    <3> QED
      BY <3>1, <3>2 DEF Holding
  <2>3. CASE ~\E e \in Exec : CancelFlags(e) \/ CancelMarks(e) \/ ControlMarks(e)
    <3>1. update' = update
      BY <2>3, Zenon DEF CancelSession, CancelTask, Cancels, CancelStep, CancelOrders,
         ControlCancels, ledgerVars
    <3> QED
      BY <3>1
  <2> QED
    BY <2>1, <2>2, <2>3
<1> QED
  BY <1>1, <1>2, <1>3 DEF Quiet

\* Quiet steps lose no update.
LEMMA QuietLosesNothing ==
    ASSUME LedgerOK, NoLostUpdate, Quiet
    PROVE  NoLostUpdate'
<1>1. \A e \in Exec, a \in Actor :
          record[e].status = "NONE" /\ update[a].pc \in Holding => update[a].exec # e
  <2> SUFFICES ASSUME NEW e \in Exec, NEW a \in Actor, record[e].status = "NONE",
                      update[a].pc \in Holding, update[a].exec = e
               PROVE  FALSE
    OBVIOUS
  <2>1. update[a].old.status # "NONE" /\ update[a].new.status # "NONE"
    BY VersionMade, Zenon DEF LedgerOK
  <2> QED
    BY <2>1 DEF NoLostUpdate, Current, Holding
<1>2. Exclusive'
  BY DEF NoLostUpdate, Exclusive, Quiet
<1>3. Current'
  <2> SUFFICES ASSUME NEW a \in Actor, update'[a].pc \in Holding
               PROVE  /\ update'[a] = update[a]
                      /\ record'[update[a].exec] = record[update[a].exec]
    <3>1. \A pc : pc = "write" \/ pc \in {"stats", "clean"} => pc \in Holding
      BY DEF Holding
    <3> QED
      BY <3>1, Zenon DEF Current, NoLostUpdate
  <2>1. update'[a] = update[a]
    BY DEF Quiet
  <2>2. update[a].exec \in Exec
    BY <2>1 DEF LedgerOK, UpdatesOwned, UpdateOwned, Holding
  <2> QED
    BY <1>1, <2>1, <2>2 DEF Quiet
<1>4. Finished'
  <2>1. [NoRecord EXCEPT !.status = "QUEUED"].status = "QUEUED" /\ "QUEUED" \notin Final
    BY DEF NoRecord, Final
  <2>2. \A e \in Exec : \/ record'[e] = record[e]
                         \/ record'[e] = [NoRecord EXCEPT !.status = "QUEUED"]
    BY DEF Quiet
  <2> SUFFICES ASSUME NEW e \in Exec
               PROVE  /\ record'[e].status = "NONE" => record'[e] = NoRecord
                      /\ record'[e].status \in Final => task'[e].pc \in Over
    BY Zenon DEF Finished
  <2>3. task[e].pc \in Over => task'[e].pc \in Over
    BY DEF Quiet
  <2>4. CASE record'[e] = record[e]
    BY <2>3, <2>4 DEF NoLostUpdate, Finished
  <2> QED
    BY <2>1, <2>2, <2>4
<1> QED
  BY <1>2, <1>3, <1>4 DEF NoLostUpdate

\* Nor do the steps of an update that overlaps no other.
LEMMA UpdateLosesNothing ==
    ASSUME LedgerOK, NoLostUpdate, NEW a \in Actor, UpdateStep(a),
           ~trail'.overlapped
    PROVE  NoLostUpdate'
<1> DEFINE u == update[a]
<1>1. /\ LedgerTypeOK /\ UpdatesOwned /\ UpdateOwned(a) /\ trail \in Trail
      /\ Exclusive /\ Current /\ Finished
  BY DEF LedgerOK, LedgerTypeOK, UpdatesOwned, NoLostUpdate
<1>2. task' = task
  BY DEF UpdateStep, UpdateReads, UpdateWrites, UpdateCounts, UpdateCleans
<1>3. \A pc : pc = "write" \/ pc \in {"stats", "clean"} <=> pc \in Holding
  BY DEF Holding
<1>4. NoUpdate.pc \notin Holding
  BY NoUpdateTyped DEF Holding
<1>5. CASE UpdateReads(a)
  <2>1. record' = record /\ u.pc = "read"
    BY <1>5 DEF UpdateReads
  <2>2. \A b \in Actor \ {a} : update[b].pc \in Holding => update[b].exec # u.exec
    BY <1>1, <1>5, ReadsTrail
  <2>3. \A b \in Actor \ {a} : update'[b] = update[b]
    BY <1>1, <1>5, ReadsEffect, Zenon
  <2>4. \/ update'[a] = NoUpdate
        \/ /\ update'[a].pc = "write" /\ update'[a].exec = u.exec
           /\ update'[a].old = record[u.exec]
    BY <1>1, <1>5, ReadsEffect, Zenon
  <2>5. Exclusive'
    BY <1>1, <1>4, <2>2, <2>3, <2>4 DEF Exclusive
  <2>6. Current'
    BY <1>1, <1>3, <1>4, <2>1, <2>3, <2>4 DEF Current
  <2> QED
    BY <1>1, <1>2, <2>1, <2>5, <2>6 DEF NoLostUpdate, Finished
<1>6. CASE UpdateWrites(a)
  <2>1. /\ u.pc = "write" /\ u.exec \in Exec
        /\ \A b \in Actor \ {a} : update'[b] = update[b]
        /\ update'[a].pc = "stats" /\ update'[a].exec = u.exec
        /\ update'[a].new = u.new
        /\ record'[u.exec] = u.new
        /\ \A e \in Exec \ {u.exec} : record'[e] = record[e]
    BY <1>1, <1>6, WritesEffect, Zenon
  <2>2. u.pc \in Holding /\ update'[a].pc \in Holding
    BY <2>1 DEF Holding
  <2>3. Exclusive'
    BY <1>1, <2>1, <2>2 DEF Exclusive
  <2>4. \A b \in Actor \ {a} : update[b].pc \in Holding =>
            update[b].exec \in Exec \ {u.exec}
    <3>1. \A b \in Actor : update[b].pc \in Holding => update[b].exec \in Exec
      BY <1>1 DEF UpdatesOwned, UpdateOwned, Holding
    <3> QED
      BY <1>1, <2>2, <3>1 DEF Exclusive
  <2>5. Current'
    <3> SUFFICES ASSUME NEW b \in Actor
                 PROVE  /\ update'[b].pc = "write" =>
                               update'[b].old = record'[update'[b].exec]
                        /\ update'[b].pc \in {"stats", "clean"} =>
                               update'[b].new = record'[update'[b].exec]
      BY Zenon DEF Current
    <3>1. CASE b = a
      BY <2>1, <3>1
    <3>2. CASE b # a
      BY <1>1, <1>3, <2>1, <2>4, <3>2 DEF Current
    <3> QED
      BY <3>1, <3>2
  <2>6. u.old = record[u.exec]
    BY <1>1, <2>1 DEF Current
  <2>7. u.new.status # "NONE" /\ (u.new.status \in Final => u.kind \in Final \/ u.old.status \in Final)
    BY <1>1, <2>2, VersionMade, Zenon
  <2>8. u.kind \in Final => task[u.exec].pc \in Over
    BY <1>1, <2>1 DEF UpdateOwned, Over, Final
  <2>9. Finished'
    BY <1>1, <1>2, <2>1, <2>6, <2>7, <2>8 DEF Finished
  <2> QED
    BY <2>3, <2>5, <2>9 DEF NoLostUpdate
<1>7. CASE UpdateCounts(a)
  <2>1. record' = record
    BY <1>7 DEF UpdateCounts
  <2>2. /\ u.pc = "stats"
        /\ \A b \in Actor \ {a} : update'[b] = update[b]
        /\ \/ update'[a] = NoUpdate
           \/ /\ update'[a].pc = "clean" /\ update'[a].exec = u.exec
              /\ update'[a].new = u.new
    BY <1>1, <1>7, CountsEffect, Zenon
  <2>3. u.pc \in Holding
    BY <2>2 DEF Holding
  <2>4. Exclusive'
    BY <1>1, <1>4, <2>2, <2>3 DEF Exclusive
  <2>5. Current'
    BY <1>1, <1>3, <1>4, <2>1, <2>2 DEF Current
  <2> QED
    BY <1>1, <1>2, <2>1, <2>4, <2>5 DEF NoLostUpdate, Finished
<1>8. CASE UpdateCleans(a)
  <2>1. /\ u.pc = "clean" /\ u.exec \in Exec
        /\ \A b \in Actor \ {a} : update'[b] = update[b]
        /\ update'[a] = NoUpdate
        /\ record'[u.exec] = u.new
        /\ \A e \in Exec \ {u.exec} : record'[e] = record[e]
    BY <1>1, <1>8, CleansEffect, Zenon
  <2>2. \A e \in Exec : record'[e] = record[e]
    BY <1>1, <2>1 DEF Current
  <2>3. Exclusive'
    BY <1>1, <1>4, <2>1 DEF Exclusive
  <2>4. \A b \in Actor : update[b].pc \in Holding => update[b].exec \in Exec
    BY <1>1 DEF UpdatesOwned, UpdateOwned, Holding
  <2>5. Current'
    BY <1>1, <1>3, <1>4, <2>1, <2>2, <2>4 DEF Current
  <2> QED
    BY <1>1, <1>2, <2>2, <2>3, <2>5 DEF NoLostUpdate, Finished
<1> QED
  BY <1>5, <1>6, <1>7, <1>8 DEF UpdateStep

\* Once two updates have overlapped, they have.
LEMMA OverlapStays ==
    ASSUME LedgerOK, [LedgerNext]_ledgerVars, trail.overlapped
    PROVE  trail'.overlapped
<1>1. trail \in Trail /\ LedgerTypeOK /\ UpdatesOwned
  BY DEF LedgerOK, LedgerTypeOK
<1>2. ASSUME NEW a \in Actor, UpdateReads(a) PROVE trail'.overlapped
  BY <1>1, <1>2, ReadsTrail, Zenon
<1>3. ASSUME NEW a \in Actor, UpdateWrites(a) PROVE trail'.overlapped
  BY <1>1, <1>3, WritesEffect, WritesTrail, Zenon
<1>4. ASSUME NEW e \in Exec, TaskReportsCancel(e) PROVE trail'.overlapped
  BY <1>1, <1>4, ReportsTrail, Zenon
<1>5. ASSUME NEW e \in Exec, TaskKilled(e) PROVE trail'.overlapped
  BY <1>1, <1>5, KilledTrail, Zenon
<1>6. CASE trail' = trail
  BY <1>6
<1> QED
  BY <1>2, <1>3, <1>4, <1>5, <1>6, Zenon
     DEF LedgerNext, UpdateStep, UpdateCounts, UpdateCleans, TaskStep, TaskReads,
         TaskTracks, TaskRuns, TaskDispatches, TaskReturns, TaskUnwinds, TaskEnds,
         CancelSession, CancelTask, Cancels, CancelStep, CancelOrders, CancelFlags,
         CancelMarks, ControlMarks, ControlCancels, ledgerVars

\* Every step is quiet or a step of an update.
LEMMA QuietOrUpdate ==
    ASSUME LedgerOK, [LedgerNext]_ledgerVars, ~trail'.overlapped
    PROVE  Quiet \/ \E a \in Actor : UpdateStep(a)
BY TaskQuiet, CancelQuiet DEF LedgerNext

Kept == ~trail.overlapped => NoLostUpdate

LEMMA AlwaysKept == LedgerSpec => []Kept
<1>1. LedgerInit => Kept
  <2> SUFFICES ASSUME LedgerInit PROVE NoLostUpdate
    BY DEF Kept
  <2>1. \A a \in Actor : update[a].pc = "idle"
    BY NoUpdateTyped DEF LedgerInit
  <2>2. \A e \in Exec : \/ record[e] = NoRecord
                        \/ record[e] = [NoRecord EXCEPT !.status = "QUEUED"]
    BY DEF LedgerInit
  <2>3. /\ [NoRecord EXCEPT !.status = "QUEUED"].status = "QUEUED"
        /\ NoRecord.status = "NONE" /\ {"QUEUED", "NONE"} \cap Final = {}
        /\ "QUEUED" # "NONE"
    BY DEF NoRecord, Final
  <2>4. Finished
    BY <2>2, <2>3 DEF Finished
  <2>5. Exclusive /\ Current
    BY <2>1 DEF Exclusive, Current, Holding
  <2> QED
    BY <2>4, <2>5 DEF NoLostUpdate
<1>2. LedgerOK /\ Kept /\ [LedgerNext]_ledgerVars => Kept'
  BY OverlapStays, QuietOrUpdate, QuietLosesNothing, UpdateLosesNothing DEF Kept
<1> QED
  BY <1>1, <1>2, AlwaysOK, PTL DEF LedgerSpec
-----------------------------------------------------------------------------
(* The counters.                                                           *)

\* The record an update has written and not yet counted.
StatsDue(a, e) == update[a].pc = "stats" /\ update[a].exec = e

\* Whether the counters take e for open: by the version that was counted last.
CountedOpen(e) ==
    IF \E a \in Actor : StatsDue(a, e)
    THEN \E a \in Actor : StatsDue(a, e) /\ Active(update[a].old)
    ELSE Active(record[e])

CountsExact ==
    /\ stats.index = {e \in Exec : CountedOpen(e)}
    /\ IsFiniteSet(stats.index) /\ stats.active = Cardinality(stats.index)

\* Nothing written and nothing counted: nothing changes for the counters.
LEMMA CountsKept ==
    ASSUME CountsExact, stats' = stats,
           \A a \in Actor : \/ update'[a] = update[a]
                            \/ update[a].pc # "stats" /\ update'[a].pc # "stats",
           \A e \in Exec : Active(record'[e]) <=> Active(record[e])
    PROVE  CountsExact'
<1>1. ASSUME NEW e \in Exec PROVE CountedOpen(e)' <=> CountedOpen(e)
  <2>1. \A a \in Actor : StatsDue(a, e)' <=> StatsDue(a, e)
    BY DEF StatsDue
  <2>2. \A a \in Actor : StatsDue(a, e) => update'[a].old = update[a].old
    BY DEF StatsDue
  <2>3. Active(record'[e]) <=> Active(record[e])
    OBVIOUS
  <2>4. \A a \in Actor : StatsDue(a, e) => (Active(update[a].old)' <=> Active(update[a].old))
    BY <2>2 DEF Active
  <2>5. Active(record[e])' <=> Active(record[e])
    BY <2>3 DEF Active
  <2> QED
    BY <2>1, <2>4, <2>5, Zenon DEF CountedOpen
<1>2. {e \in Exec : CountedOpen(e)}' = {e \in Exec : CountedOpen(e)}
  BY <1>1
<1> QED
  BY <1>2 DEF CountsExact

\* A write: the version that was counted is the one the update has read.
LEMMA WriteCountsNothing ==
    ASSUME LedgerOK, NoLostUpdate, CountsExact, NEW a \in Actor, UpdateWrites(a)
    PROVE  CountsExact'
<1> DEFINE u == update[a]
<1>0. PICK x \in Exec : x = u.exec
  BY DEF LedgerOK, UpdatesOwned, UpdateOwned, UpdateWrites
<1>1. LedgerTypeOK /\ UpdatesOwned /\ Exclusive /\ Current
  BY DEF LedgerOK, NoLostUpdate
<1>2. /\ u.pc = "write" /\ u.exec \in Exec
      /\ \A b \in Actor \ {a} : update'[b] = update[b]
      /\ update'[a].pc = "stats" /\ update'[a].exec = u.exec
      /\ update'[a].old = u.old
      /\ \A e \in Exec \ {u.exec} : record'[e] = record[e]
  BY <1>1, WritesEffect, Zenon
<1>3. stats' = stats
  BY DEF UpdateWrites
<1>4. u.old = record[u.exec]
  BY <1>1, <1>2 DEF Current
<1>5. \A b \in Actor : ~StatsDue(b, x)
  BY <1>0, <1>1, <1>2 DEF StatsDue, Exclusive, Holding
<1>6. CountedOpen(x) <=> Active(u.old)
  BY <1>0, <1>4, <1>5, Zenon DEF CountedOpen
<1>7. CountedOpen(x)' <=> Active(u.old)
  <2>1. \A b \in Actor : StatsDue(b, x)' <=> b = a
    BY <1>0, <1>2, <1>5 DEF StatsDue
  <2>2. \A b \in Actor : StatsDue(b, x)' => (Active(update'[b].old) <=> Active(u.old))
    BY <1>2, <2>1
  <2> QED
    BY <1>2, <2>1, <2>2 DEF CountedOpen, Active, StatsDue
<1>8. ASSUME NEW e \in Exec, e # x PROVE CountedOpen(e)' <=> CountedOpen(e)
  <2>1. \A b \in Actor : /\ StatsDue(b, e)' <=> StatsDue(b, e)
                         /\ StatsDue(b, e) => update'[b].old = update[b].old
    BY <1>0, <1>2, <1>8 DEF StatsDue
  <2>2. record'[e] = record[e]
    BY <1>0, <1>2, <1>8
  <2> QED
    BY <2>1, <2>2 DEF CountedOpen, Active
<1>9. \A e \in Exec : CountedOpen(e)' <=> CountedOpen(e)
  BY <1>6, <1>7, <1>8
<1>10. {e \in Exec : CountedOpen(e)}' = {e \in Exec : CountedOpen(e)}
  BY <1>9
<1> QED
  BY <1>3, <1>10 DEF CountsExact

\* The count moves the execution from one version to the other.
LEMMA CountCountsOnce ==
    ASSUME LedgerOK, NoLostUpdate, CountsExact, NEW a \in Actor, UpdateCounts(a)
    PROVE  CountsExact'
<1> DEFINE u == update[a]
<1>0. PICK e \in Exec : e = u.exec
  BY DEF LedgerOK, UpdatesOwned, UpdateOwned, UpdateCounts
<1>1. LedgerTypeOK /\ UpdatesOwned /\ Exclusive /\ Current
  BY DEF LedgerOK, NoLostUpdate
<1>2. /\ u.pc = "stats" /\ e \in Exec
      /\ \A b \in Actor \ {a} : update'[b] = update[b]
      /\ update'[a].pc # "stats"
  <2>1. /\ u.pc = "stats" /\ e \in Exec
        /\ \A b \in Actor \ {a} : update'[b] = update[b]
        /\ update'[a] = NoUpdate \/ update'[a].pc = "clean"
    BY <1>0, <1>1, CountsEffect, Zenon
  <2> QED
    BY <2>1, NoUpdateTyped
<1>3. record' = record /\ stats' = CountedStats(u)
  BY DEF UpdateCounts
<1>4. /\ u.new = record[e] /\ u.old \in Record /\ u.new \in Record
      /\ u.old.worker => u.new.worker
  <2>1. u.new = record[e] /\ u.pc \in Holding
    BY <1>0, <1>1, <1>2 DEF Current, Holding
  <2> QED
    BY <1>1, <2>1, VersionMade, Zenon
<1>5. \A b \in Actor : StatsDue(b, e) <=> b = a
  BY <1>0, <1>1, <1>2 DEF StatsDue, Exclusive, Holding
<1>6. CountedOpen(e) <=> Active(u.old)
  BY <1>5 DEF CountedOpen
<1>7. CountedOpen(e)' <=> Active(u.new)
  <2>1. \A b \in Actor : ~StatsDue(b, e)'
    BY <1>0, <1>2, <1>5 DEF StatsDue
  <2> QED
    BY <1>3, <1>4, <2>1 DEF CountedOpen, Active
<1>8. ASSUME NEW x \in Exec, x # e PROVE CountedOpen(x)' <=> CountedOpen(x)
  <2>1. \A b \in Actor : /\ StatsDue(b, x)' <=> StatsDue(b, x)
                         /\ StatsDue(b, x) => update'[b].old = update[b].old
    BY <1>0, <1>2, <1>8 DEF StatsDue
  <2> QED
    BY <1>3, <2>1 DEF CountedOpen, Active
<1> DEFINE S == {x \in Exec : CountedOpen(x)}
<1>9. /\ stats.index = S /\ IsFiniteSet(S) /\ stats.active = Cardinality(S)
      /\ Cardinality(S) \in Nat
      /\ e \in S <=> Active(u.old)
  BY <1>2, <1>6, FS_CardinalityType DEF CountsExact
<1>10. S' = IF Active(u.new) THEN S \cup {e} ELSE S \ {e}
  BY <1>2, <1>7, <1>8
<1>11. stats'.index = S' /\ IsFiniteSet(S') /\ stats'.active = Cardinality(S')
  <2> HIDE DEF S, u
  <2>1. CASE ~u.new.worker
    <3>1. ~Active(u.new) /\ ~Active(u.old) /\ stats' = stats
      BY <1>3, <1>4, <2>1, Zenon DEF Active, CountedStats, u
    <3>2. S' = S
      BY <1>9, <1>10, <3>1
    <3> QED
      BY <1>9, <3>1, <3>2
  <2>2. CASE u.new.worker
    <3>1. /\ stats'.active = stats.active + (IF Active(u.new) THEN 1 ELSE 0)
                                          - (IF Active(u.old) THEN 1 ELSE 0)
          /\ stats'.index = IF Active(u.new) THEN stats.index \cup {e}
                            ELSE stats.index \ {e}
      BY <1>0, <1>3, <2>2 DEF CountedStats, u
    <3>2. CASE Active(u.new)
      <4>1. /\ IsFiniteSet(S \cup {e})
            /\ Cardinality(S \cup {e}) =
                  IF e \in S THEN Cardinality(S) ELSE Cardinality(S) + 1
        BY <1>9, FS_AddElement
      <4> QED
        BY <1>9, <1>10, <3>1, <3>2, <4>1
    <3>3. CASE ~Active(u.new)
      <4>1. /\ IsFiniteSet(S \ {e})
            /\ Cardinality(S \ {e}) =
                  IF e \in S THEN Cardinality(S) - 1 ELSE Cardinality(S)
        BY <1>9, FS_RemoveElement
      <4> QED
        BY <1>9, <1>10, <3>1, <3>3, <4>1
    <3> QED
      BY <3>2, <3>3
  <2> QED
    BY <2>1, <2>2
<1> QED
  BY <1>11 DEF CountsExact

\* As long as updates do not overlap, the worker's counters and active index
\* agree with the records whenever no update is under way
\* (registry.py, _update_worker_execution_stats).
THEOREM CountersExact == LedgerSpec => []CountersMatchRecords
<1> DEFINE Counted == ~trail.overlapped => CountsExact
<1>1. LedgerInit => Counted
  <2> SUFFICES ASSUME LedgerInit PROVE CountsExact
    OBVIOUS
  <2>1. stats.index = {} /\ stats.active = 0
    BY DEF LedgerInit
  <2>2. \A a \in Actor, e \in Exec : ~StatsDue(a, e)
    BY NoUpdateTyped DEF LedgerInit, StatsDue
  <2>3. \A e \in Exec : ~Active(record[e])
    BY DEF LedgerInit, Active, NoRecord
  <2>4. {e \in Exec : CountedOpen(e)} = {}
    BY <2>2, <2>3 DEF CountedOpen
  <2> QED
    BY <2>1, <2>4, FS_EmptySet DEF CountsExact
<1>2. LedgerOK /\ Kept /\ Counted /\ [LedgerNext]_ledgerVars => Counted'
  <2> SUFFICES ASSUME LedgerOK, Kept, Counted, [LedgerNext]_ledgerVars,
                      ~trail'.overlapped
               PROVE  CountsExact'
    OBVIOUS
  <2>1. NoLostUpdate /\ CountsExact /\ LedgerTypeOK /\ UpdatesOwned
    BY OverlapStays DEF Kept, LedgerOK
  <2>2. CASE Quiet
    <3>1. \A a \in Actor : \/ update'[a] = update[a]
                           \/ update[a].pc # "stats" /\ update'[a].pc # "stats"
      BY <2>2 DEF Quiet, Holding
    <3>2. \A e \in Exec : Active(record'[e]) <=> Active(record[e])
      <4>1. ~Active(NoRecord) /\ ~Active([NoRecord EXCEPT !.status = "QUEUED"])
        BY DEF Active, NoRecord
      <4>2. \A e \in Exec : record[e].status = "NONE" => record[e] = NoRecord
        BY <2>1 DEF NoLostUpdate, Finished
      <4>3. \A e \in Exec : \/ record'[e] = record[e]
                            \/ /\ record[e].status = "NONE"
                               /\ record'[e] = [NoRecord EXCEPT !.status = "QUEUED"]
        BY <2>2 DEF Quiet
      <4> QED
        BY <4>1, <4>2, <4>3, Zenon
    <3>3. stats' = stats
      BY <2>2 DEF Quiet
    <3> QED
      BY <2>1, <3>1, <3>2, <3>3, CountsKept
  <2>3. ASSUME NEW a \in Actor, UpdateReads(a) PROVE CountsExact'
    <3>1. /\ update[a].pc = "read"
          /\ \A b \in Actor \ {a} : update'[b] = update[b]
          /\ update'[a] = NoUpdate \/ update'[a].pc = "write"
      BY <2>1, <2>3, ReadsEffect, Zenon
    <3>2. stats' = stats /\ record' = record
      BY <2>3 DEF UpdateReads
    <3> QED
      BY <2>1, <3>1, <3>2, CountsKept, NoUpdateTyped
  <2>4. ASSUME NEW a \in Actor, UpdateCleans(a) PROVE CountsExact'
    <3>1. /\ update[a].pc = "clean" /\ update[a].exec \in Exec
          /\ \A b \in Actor \ {a} : update'[b] = update[b]
          /\ update'[a] = NoUpdate
          /\ record'[update[a].exec] = update[a].new
          /\ \A e \in Exec \ {update[a].exec} : record'[e] = record[e]
      BY <2>1, <2>4, CleansEffect, Zenon
    <3>2. update[a].new = record[update[a].exec]
      BY <2>1, <3>1 DEF NoLostUpdate, Current
    <3>3. stats' = stats
      BY <2>4 DEF UpdateCleans
    <3> QED
      BY <2>1, <3>1, <3>2, <3>3, CountsKept, NoUpdateTyped
  <2> QED
    BY <2>1, <2>2, <2>3, <2>4, WriteCountsNothing, CountCountsOnce, QuietOrUpdate
       DEF UpdateStep
<1>3. Counted => CountersMatchRecords
  <2> SUFFICES ASSUME CountsExact, \A a \in Actor : Ready(a)
               PROVE  LET open == {e \in Exec : Active(record[e])} IN
                      stats.index = open /\ stats.active = Cardinality(open)
    BY DEF CountersMatchRecords
  <2>1. \A a \in Actor, e \in Exec : ~StatsDue(a, e)
    BY DEF Ready, StatsDue
  <2>2. \A e \in Exec : CountedOpen(e) <=> Active(record[e])
    BY <2>1 DEF CountedOpen
  <2> QED
    BY <2>2 DEF CountsExact
<1> QED
  BY <1>1, <1>2, <1>3, AlwaysOK, AlwaysKept, PTL DEF LedgerSpec
-----------------------------------------------------------------------------
(* The cascade of a cancellation.                                          *)

\* A task that knows of its cancellation, and an execution that a cancellation
\* has got to, anywhere on its way from the client to the task.
Told(e) == task[e].cancelled \/ task[e].event \/ task[e].pc = "unwind"
Signed(e) ==
    \/ record[e].cancel \/ Told(e)
    \/ e \in orders \/ control.exec = e \/ canceller.node = e
    \/ update[Client].exec = e \/ update[Control].exec = e

\* What the cancellation has still to flag, or is flagging.
ToReach == {e \in Exec : \/ e \in canceller.flags \cup canceller.marks
                         \/ update[Client].exec = e}

\* Before the cancellation nothing is cancelled.
NothingYet ==
    canceller.pc = "idle" =>
        /\ ToReach = {} /\ trail.reached = {} /\ trail.woken = {}
        /\ \A e \in Exec : ~Signed(e)

\* In cancel_task a node is cancelled only once its parent is flagged, if the
\* parent is to be flagged at all; and nobody to be flagged has been woken.
ParentsFirst ==
    /\ \A e \in canceller.flags : task[e].pc \in Over
    /\ \A e \in trail.reached : record[e].cancel
    /\ \A e \in Exec : Signed(e) /\ task[e].pc \notin Over =>
           Parent[e] \in trail.reached \/ Parent[e] \notin ToReach
    /\ trail.woken \cap (trail.reached \cup ToReach) = {}

Cascade == NothingYet /\ (canceller.mode = "task" => ParentsFirst)

\* A step that signs nobody and has nobody more to reach.
Steady ==
    /\ \A e \in Exec : task[e].pc \in Over => task'[e].pc \in Over
    /\ \A e \in Exec : Signed(e)' => Signed(e)
    /\ ToReach' \subseteq ToReach /\ canceller'.flags \subseteq canceller.flags
    /\ canceller'.pc = "idle" => canceller.pc = "idle"
    /\ canceller'.mode = canceller.mode
    /\ trail.reached \subseteq trail'.reached
    /\ trail'.reached \subseteq trail.reached \cup ToReach
    /\ \A e \in Exec : record[e].cancel \/ e \in trail'.reached \ trail.reached
           => record'[e].cancel
    /\ \/ trail'.woken = trail.woken
       \/ \E e \in Exec : /\ Signed(e) /\ task[e].pc \notin Over
                          /\ ~record[Parent[e]].cancel
                          /\ trail'.woken = trail.woken \cup {Parent[e]}

LEMMA SteadyCascade ==
    ASSUME LedgerOK, Cascade, Steady PROVE Cascade'
<1>1. trail \in Trail /\ trail.reached \subseteq Exec /\ trail.woken \subseteq Exec
  BY DEF LedgerOK, LedgerTypeOK, Trail
<1>2. ASSUME canceller'.pc = "idle"
      PROVE  /\ ToReach' = {} /\ trail'.reached = {} /\ trail'.woken = {}
             /\ \A e \in Exec : ~Signed(e)'
  <2>1. canceller.pc = "idle"
    BY <1>2 DEF Steady
  <2>2. /\ ToReach = {} /\ trail.reached = {} /\ trail.woken = {}
        /\ \A e \in Exec : ~Signed(e)
    BY <2>1 DEF Cascade, NothingYet
  <2> QED
    BY <2>2 DEF Steady
<1>3. ASSUME canceller'.mode = "task" PROVE ParentsFirst'
  <2>1. canceller.mode = "task" /\ ParentsFirst
    BY <1>3 DEF Cascade, Steady
  <2>2. \A e \in canceller'.flags : task'[e].pc \in Over
    <3>1. canceller.flags \subseteq Exec
      BY DEF LedgerOK, LedgerTypeOK, CancelRecord
    <3> QED
      BY <2>1, <3>1 DEF ParentsFirst, Steady
  <2>3. \A e \in trail'.reached : record'[e].cancel
    <3>1. trail'.reached \subseteq Exec
      BY <1>1 DEF Steady, ToReach
    <3> QED
      BY <2>1, <3>1 DEF ParentsFirst, Steady
  <2>4. \A e \in Exec : Signed(e)' /\ task'[e].pc \notin Over =>
            Parent[e] \in trail'.reached \/ Parent[e] \notin ToReach'
    BY <2>1 DEF ParentsFirst, Steady
  <2>5. trail'.woken \cap (trail'.reached \cup ToReach') = {}
    <3>1. trail'.reached \cup ToReach' \subseteq trail.reached \cup ToReach
      BY DEF Steady
    <3>2. trail.woken \cap (trail.reached \cup ToReach) = {}
      BY <2>1 DEF ParentsFirst
    <3>3. CASE trail'.woken = trail.woken
      BY <3>1, <3>2, <3>3
    <3>4. ASSUME NEW e \in Exec, Signed(e), task[e].pc \notin Over,
                 ~record[Parent[e]].cancel,
                 trail'.woken = trail.woken \cup {Parent[e]}
          PROVE  trail'.woken \cap (trail.reached \cup ToReach) = {}
      <4>1. Parent[e] \notin trail.reached /\ Parent[e] \notin ToReach
        BY <2>1, <3>4 DEF ParentsFirst
      <4> QED
        BY <3>2, <3>4, <4>1
    <3> QED
      BY <3>1, <3>3, <3>4 DEF Steady
  <2> QED
    BY <2>2, <2>3, <2>4, <2>5 DEF ParentsFirst
<1> QED
  BY <1>2, <1>3 DEF Cascade, NothingYet

\* What leaves the cancellation and its updates alone has nobody more to reach.
LEMMA ReachSame ==
    ASSUME canceller' = canceller,
           \/ update'[Client].exec = update[Client].exec
           \/ update'[Client].exec = NoExec
    PROVE  ToReach' \subseteq ToReach
BY ParentAssumption DEF ToReach

\* Nobody's flag changes in a quiet step.
LEMMA QuietFlags ==
    ASSUME LedgerOK, NoLostUpdate, Quiet, NEW e \in Exec
    PROVE  record'[e].cancel = record[e].cancel
<1>1. NoRecord.cancel = FALSE /\ [NoRecord EXCEPT !.status = "QUEUED"].cancel = FALSE
  BY DEF NoRecord
<1>2. record[e].status = "NONE" => record[e] = NoRecord
  BY DEF NoLostUpdate, Finished
<1>3. \/ record'[e] = record[e]
      \/ /\ record[e].status = "NONE"
         /\ record'[e] = [NoRecord EXCEPT !.status = "QUEUED"]
  BY DEF Quiet
<1> QED
  BY <1>1, <1>2, <1>3, Zenon

\* The steps of a task are steady.
LEMMA TaskSteady ==
    ASSUME LedgerOK, NoLostUpdate, NEW e \in Exec, TaskStep(e), ~trail'.overlapped
    PROVE  Steady
<1>1. /\ LedgerTypeOK /\ task \in [Exec -> TaskRecord] /\ trail \in Trail
      /\ Client \in Actor \ {e} /\ Control \in Actor \ {e}
  BY ActorAssumption DEF LedgerOK, LedgerTypeOK, Actor
<1>2. Quiet
  BY TaskQuiet
<1>3. /\ UNCHANGED <<canceller, orders, control>>
  BY Zenon DEF TaskStep, TaskReads, TaskTracks, TaskRuns, TaskReturns, TaskUnwinds,
         TaskReportsCancel, TaskEnds, TaskKilled, TaskDispatches
<1>4. \A b \in Actor \ {e} : update'[b] = update[b]
  <2>1. CASE TaskReportsCancel(e)
    <3>1. "CANCELLED" \in UpdateKind /\ e \in Actor
      BY DEF UpdateKind, Final, Actor
    <3> QED
      BY <1>1, <2>1, <3>1, Begun, Zenon DEF TaskReportsCancel, LedgerTypeOK
  <2>2. CASE update' = update
    BY <2>2
  <2> QED
    BY <1>1, <2>1, <2>2, TracksEffect, ReturnsEffect, KilledEffect, Zenon
       DEF TaskStep, TaskReads, TaskTracks, TaskRuns, TaskUnwinds, TaskEnds,
           TaskDispatches
<1>5. \A x \in Exec : Told(x)' => Told(x) \/ record[x].cancel
  <2>1. ASSUME NEW pc \in TaskPc, pc # "unwind", TaskGoto(e, pc) PROVE <1>5
    <3>1. /\ task'[e].pc = pc /\ task'[e].event = task[e].event
          /\ task'[e].cancelled = task[e].cancelled
          /\ \A x \in Exec \ {e} : task'[x] = task[x]
      BY <1>1, <2>1, TaskMoved
    <3> QED
      BY <2>1, <3>1 DEF Told
  <2>2. CASE TaskTracks(e) /\ record[e].status \notin Final
    <3>1. /\ task'[e].pc = "start" /\ task'[e].event = record[e].cancel
          /\ task'[e].cancelled = task[e].cancelled
          /\ \A x \in Exec \ {e} : task'[x] = task[x]
      BY <1>1, <2>2, TracksEffect
    <3> QED
      BY <3>1 DEF Told
  <2>3. CASE TaskReturns(e)
    <3>1. /\ task'[e].pc = "finish" /\ task'[e].event = task[e].event
          /\ task'[e].cancelled = task[e].cancelled
          /\ \A x \in Exec \ {e} : task'[x] = task[x]
      BY <1>1, <2>3, ReturnsEffect
    <3> QED
      BY <3>1 DEF Told
  <2>4. CASE TaskUnwinds(e)
    <3>1. \A x \in Exec \ {e} : task'[x] = task[x]
      BY <1>1, <2>4, UnwindsEffect
    <3> QED
      BY <2>4, <3>1 DEF Told, TaskUnwinds
  <2>5. CASE TaskKilled(e)
    <3>1. /\ task'[e].pc = "ended" /\ task'[e].event = task[e].event
          /\ ~task'[e].cancelled
          /\ \A x \in Exec \ {e} : task'[x] = task[x]
      BY <1>1, <2>5, KilledEffect
    <3> QED
      BY <3>1 DEF Told
  <2>6. ASSUME NEW child \in Exec, TaskDispatches(e, child) PROVE <1>5
    BY <2>6 DEF TaskDispatches, Told
  <2> QED
    BY <2>1, <2>2, <2>3, <2>4, <2>5, <2>6
       DEF TaskStep, TaskReads, TaskTracks, TaskRuns, TaskReportsCancel, TaskEnds,
           TaskPc
<1>6. \A x \in Exec : record'[x].cancel = record[x].cancel
  BY <1>2, QuietFlags
<1>7. \A x \in Exec : Signed(x)' => Signed(x)
  BY <1>1, <1>3, <1>4, <1>5, <1>6 DEF Signed
<1>8. /\ trail'.reached = trail.reached
      /\ \/ trail'.woken = trail.woken
         \/ /\ Signed(e) /\ task[e].pc \notin Over
            /\ ~record[Parent[e]].cancel
            /\ trail'.woken = trail.woken \cup {Parent[e]}
  <2>1. CASE TaskReportsCancel(e)
    <3>1. Signed(e) /\ task[e].pc \notin Over
      BY <2>1 DEF TaskReportsCancel, Signed, Told, Over
    <3> QED
      BY <1>1, <2>1, <3>1, ReportsTrail
  <2>2. CASE TaskKilled(e)
    BY <1>1, <2>2, KilledTrail
  <2>3. CASE trail' = trail
    BY <2>3
  <2> QED
    BY <2>1, <2>2, <2>3, Zenon
       DEF TaskStep, TaskReads, TaskTracks, TaskRuns, TaskReturns, TaskUnwinds,
           TaskEnds, TaskDispatches
<1>9. ToReach' \subseteq ToReach
  BY <1>1, <1>3, <1>4, ReachSame
<1>10. \A x \in Exec : task[x].pc \in Over => task'[x].pc \in Over
  BY <1>2 DEF Quiet
<1> QED
  BY <1>3, <1>6, <1>7, <1>8, <1>9, <1>10 DEF Steady

\* So are the steps of an update: the canceller and the control loop write
\* flags, on executions signed before.
LEMMA UpdateSteady ==
    ASSUME LedgerOK, NoLostUpdate, NEW a \in Actor, UpdateStep(a)
    PROVE  Steady
<1> DEFINE u == update[a]
<1>1. /\ LedgerTypeOK /\ UpdatesOwned /\ UpdateOwned(a) /\ trail \in Trail /\ Current
      /\ Client \in Actor /\ Control \in Actor /\ u.exec \in Exec
  BY DEF LedgerOK, LedgerTypeOK, UpdatesOwned, UpdateOwned, Actor, NoLostUpdate,
         UpdateStep, UpdateReads, UpdateWrites, UpdateCounts, UpdateCleans
<1>2. UNCHANGED <<task, canceller, orders, control>>
  BY DEF UpdateStep, UpdateReads, UpdateWrites, UpdateCounts, UpdateCleans
<1>3. /\ \A b \in Actor \ {a} : update'[b] = update[b]
      /\ update'[a].exec = u.exec \/ update'[a].exec = NoExec
  BY <1>1, ReadsEffect, WritesEffect, CountsEffect, CleansEffect, NoUpdateTyped, Zenon
     DEF UpdateStep
<1>4. \A e \in Exec : \/ record'[e].cancel = record[e].cancel
                      \/ e = u.exec /\ a \in {Client, Control} /\ record'[e].cancel
  <2>1. CASE UpdateWrites(a)
    <3>1. /\ u.pc = "write" /\ record'[u.exec] = u.new
          /\ \A e \in Exec \ {u.exec} : record'[e] = record[e]
      BY <1>1, <2>1, WritesEffect, Zenon
    <3>2. u.old = record[u.exec] /\ u.pc \in Holding
      BY <1>1, <3>1 DEF Current, Holding
    <3>3. /\ u.kind \in UpdateKind /\ u.old \in Record /\ u.new \in Record
          /\ u.new.cancel <=> u.old.cancel \/ u.kind \in {"CANCELLING", "REQUESTED"}
      BY <1>1, <3>2, VersionMade, Zenon
    <3>4. u.kind \in {"CANCELLING", "REQUESTED"} => a \in {Client, Control}
      BY <1>1, <3>1 DEF UpdateOwned, Actor, Final
    <3>5. u.new.cancel \in BOOLEAN /\ u.old.cancel \in BOOLEAN
      BY <3>3 DEF Record
    <3> QED
      BY <1>1, <3>1, <3>2, <3>3, <3>4, <3>5
  <2>2. CASE UpdateCleans(a)
    <3>1. /\ u.pc = "clean" /\ record'[u.exec] = u.new
          /\ \A e \in Exec \ {u.exec} : record'[e] = record[e]
      BY <1>1, <2>2, CleansEffect, Zenon
    <3>2. u.new = record[u.exec]
      BY <1>1, <3>1 DEF Current
    <3> QED
      BY <3>1, <3>2
  <2>3. CASE record' = record
    BY <2>3
  <2> QED
    BY <2>1, <2>2, <2>3 DEF UpdateStep, UpdateReads, UpdateCounts
<1>5. \A e \in Exec : Told(e)' <=> Told(e)
  BY <1>2 DEF Told
<1>6. \A e \in Exec : Signed(e)' => Signed(e)
  <2>1. \A e \in Exec : record'[e].cancel => Signed(e)
    BY <1>4 DEF Signed
  <2>2. \A e \in Exec : \/ update'[Client].exec = e => update[Client].exec = e
                        \/ e = NoExec
    BY <1>1, <1>3
  <2>3. \A e \in Exec : \/ update'[Control].exec = e => update[Control].exec = e
                        \/ e = NoExec
    BY <1>1, <1>3
  <2> QED
    BY <1>2, <1>5, <2>1, <2>2, <2>3, ParentAssumption DEF Signed
<1>7. ToReach' \subseteq ToReach
  BY <1>1, <1>2, <1>3, ReachSame
<1>8. /\ trail'.woken = trail.woken
      /\ \/ trail'.reached = trail.reached
         \/ /\ a = Client /\ trail'.reached = trail.reached \cup {u.exec}
            /\ record'[u.exec].cancel
  <2>1. CASE UpdateWrites(a)
    <3>1. /\ u.pc = "write" /\ record'[u.exec] = u.new
      BY <1>1, <2>1, WritesEffect, Zenon
    <3>2. u.pc \in Holding
      BY <3>1 DEF Holding
    <3>3. u.new.cancel <=> u.old.cancel \/ u.kind \in {"CANCELLING", "REQUESTED"}
      BY <1>1, <3>2, VersionMade, Zenon
    <3>4. a = Client => u.kind \in {"CANCELLING", "REQUESTED"}
      BY <1>1, <3>1, ActorAssumption DEF UpdateOwned
    <3>5. /\ trail'.woken = trail.woken
          /\ trail'.reached = IF a = Client THEN trail.reached \cup {u.exec}
                              ELSE trail.reached
      BY <1>1, <2>1, WritesTrail
    <3> QED
      BY <3>1, <3>3, <3>4, <3>5
  <2>2. CASE UpdateReads(a)
    BY <1>1, <2>2, ReadsTrail
  <2>3. CASE trail' = trail
    BY <2>3
  <2> QED
    BY <2>1, <2>2, <2>3 DEF UpdateStep, UpdateCounts, UpdateCleans
<1>9. a = Client => u.exec \in ToReach
  BY <1>1 DEF ToReach
<1>10. /\ trail.reached \subseteq trail'.reached
       /\ trail'.reached \subseteq trail.reached \cup ToReach
       /\ \A e \in Exec : record[e].cancel \/ e \in trail'.reached \ trail.reached
            => record'[e].cancel
  BY <1>4, <1>8, <1>9
<1> QED
  BY <1>2, <1>6, <1>7, <1>8, <1>10 DEF Steady

\* And so is what the worker does of a command, and the client once a node is
\* marked.
LEMMA CancelSteady ==
    ASSUME LedgerOK,
           \/ CancelOrders \/ ControlCancels \/ UNCHANGED ledgerVars
           \/ \E e \in Exec : ControlMarks(e)
    PROVE  Steady
<1>1. LedgerTypeOK /\ canceller \in CancelRecord /\ control.exec \in Exec \cup {NoExec}
      /\ Client \in Actor \ {Control} /\ Control \in Actor
  BY ActorAssumption DEF LedgerOK, LedgerTypeOK, Actor
<1>2. UNCHANGED <<record, trail>>
  BY DEF CancelOrders, ControlCancels, ControlMarks, ledgerVars
<1>3. CASE CancelOrders
  <2>1. /\ canceller.pc = "order" /\ canceller'.pc = "flags"
        /\ canceller'.mode = canceller.mode
        /\ canceller'.flags = canceller.flags /\ canceller'.marks = canceller.marks
        /\ canceller'.node = NoExec /\ orders' \subseteq orders \cup {canceller.node}
    BY <1>1, <1>3, OrdersEffect
  <2>2. UNCHANGED <<task, update, control>>
    BY <1>3 DEF CancelOrders
  <2>3. \A e \in Exec : Signed(e)' => Signed(e)
    BY <1>2, <2>1, <2>2, ParentAssumption DEF Signed, Told
  <2>4. ToReach' = ToReach
    BY <2>1, <2>2 DEF ToReach
  <2> QED
    BY <1>2, <2>1, <2>2, <2>3, <2>4 DEF Steady
<1>4. CASE ControlCancels
  <2>1. /\ control.exec \in Exec /\ control'.exec = NoExec
        /\ task'[control.exec].pc = task[control.exec].pc
        /\ \A x \in Exec \ {control.exec} : task'[x] = task[x]
    BY <1>1, <1>4, ControlCancelsEffect
  <2>2. UNCHANGED <<update, canceller, orders>>
    BY <1>4 DEF ControlCancels
  <2>3. \A e \in Exec : Signed(e)' => Signed(e)
    BY <1>2, <2>1, <2>2, ParentAssumption DEF Signed, Told
  <2>4. ToReach' = ToReach
    BY <2>2 DEF ToReach
  <2> QED
    BY <1>2, <2>1, <2>2, <2>3, <2>4 DEF Steady
<1>5. ASSUME NEW e \in Exec, ControlMarks(e) PROVE Steady
  <2>1. /\ orders' \subseteq orders /\ e \in orders /\ control'.exec = e
        /\ update'[Control].exec = e
        /\ \A b \in Actor \ {Control} : update'[b] = update[b]
    BY <1>1, <1>5, ControlMarksEffect
  <2>2. UNCHANGED <<task, canceller>>
    BY <1>5 DEF ControlMarks
  <2>3. \A x \in Exec : Signed(x)' => Signed(x)
    BY <1>1, <1>2, <2>1, <2>2 DEF Signed, Told
  <2>4. ToReach' = ToReach
    BY <1>1, <2>1, <2>2 DEF ToReach
  <2> QED
    BY <1>2, <2>2, <2>3, <2>4 DEF Steady
<1>6. CASE UNCHANGED ledgerVars
  <2>1. \A e \in Exec : Signed(e)' <=> Signed(e)
    BY <1>6 DEF ledgerVars, Signed, Told
  <2>2. ToReach' = ToReach
    BY <1>6 DEF ledgerVars, ToReach
  <2> QED
    BY <1>6, <2>1, <2>2 DEF Steady, ledgerVars
<1> QED
  BY <1>3, <1>4, <1>5, <1>6

\* The cancellation starts: nobody is signed yet, and the finished are over.
LEMMA CancelsCascade ==
    ASSUME LedgerOK, NoLostUpdate, Cascade,
           NEW mode \in {"task", "session"}, NEW nodes, Cancels(mode, nodes)
    PROVE  Cascade'
<1>1. /\ canceller.pc = "idle" /\ canceller'.pc = "flags"
      /\ canceller' \in CancelRecord
      /\ \A e \in canceller'.flags : record[e].status \in Final
      /\ canceller'.node = NoExec
      /\ UNCHANGED <<record, inbox, task, tracker, update, stats, orders, control, trail>>
  BY CancelsEffect DEF LedgerOK
<1>2. /\ trail.reached = {} /\ trail.woken = {} /\ \A e \in Exec : ~Signed(e)
  BY <1>1 DEF Cascade, NothingYet
<1>3. \A e \in Exec : ~Signed(e)'
  BY <1>1, <1>2, ParentAssumption DEF Signed, Told
<1>4. \A e \in canceller'.flags : task'[e].pc \in Over
  BY <1>1 DEF NoLostUpdate, Finished, CancelRecord
<1>5. ParentsFirst'
  BY <1>1, <1>2, <1>3, <1>4 DEF ParentsFirst
<1> QED
  BY <1>1, <1>5 DEF Cascade, NothingYet

\* The next node to flag, or to mark once the finished ones are flagged and no
\* parent of it waits.
LEMMA NextNodeCascade ==
    ASSUME LedgerOK, NoLostUpdate, Cascade, NEW e \in Exec,
           CancelFlags(e) \/ CancelMarks(e)
    PROVE  Cascade'
<1>1. /\ LedgerTypeOK /\ UpdatesOwned /\ canceller \in CancelRecord
      /\ Client \in Actor /\ Control \in Actor \ {Client}
  BY ActorAssumption DEF LedgerOK, LedgerTypeOK, Actor
<1>2. update[Client].exec = NoExec
  BY <1>1 DEF CancelFlags, CancelMarks, Ready, UpdatesOwned, UpdateOwned
<1>3. UNCHANGED <<record, task, orders, control, trail>>
  BY DEF CancelFlags, CancelMarks
<1>4. /\ canceller'.pc # "idle" /\ canceller'.mode = canceller.mode
      /\ update'[Client].exec = e
      /\ \A b \in Actor \ {Client} : update'[b] = update[b]
      /\ \/ /\ canceller'.flags = canceller.flags \ {e}
            /\ canceller'.marks = canceller.marks
            /\ canceller'.node = canceller.node
            /\ e \in canceller.flags
         \/ /\ canceller'.flags = {} /\ canceller.flags = {}
            /\ canceller'.marks = canceller.marks \ {e}
            /\ canceller'.node = e /\ e \in canceller.marks
            /\ canceller.mode = "task" => Parent[e] \notin canceller.marks
  <2>1. CASE CancelFlags(e)
    <3>1. canceller.pc = "flags" /\ e \in canceller.flags
      BY <2>1 DEF CancelFlags
    <3> QED
      BY <1>1, <2>1, <3>1, FlagsEffect
  <2>2. CASE CancelMarks(e)
    <3>1. /\ canceller.flags = {} /\ e \in canceller.marks
          /\ canceller.mode = "task" => Parent[e] \notin canceller.marks
      BY <2>2 DEF CancelMarks
    <3> QED
      BY <1>1, <2>2, <3>1, MarksEffect
  <2> QED
    BY <2>1, <2>2
<1>5. ToReach' = ToReach
  BY <1>1, <1>2, <1>4, ParentAssumption DEF ToReach
<1>6. \A x \in Exec \ {e} : Signed(x)' => Signed(x)
  BY <1>1, <1>3, <1>4 DEF Signed, Told
<1>7. ASSUME canceller'.mode = "task" PROVE ParentsFirst'
  <2>1. canceller.mode = "task" /\ ParentsFirst
    BY <1>4, <1>7 DEF Cascade
  <2>2. task[e].pc \in Over \/ Parent[e] \notin ToReach'
    <3>1. CASE e \in canceller.flags
      BY <2>1, <3>1 DEF ParentsFirst
    <3>2. CASE e \notin canceller.flags
      <4>1. /\ canceller'.flags = {} /\ canceller'.marks = canceller.marks \ {e}
            /\ e \in canceller.marks /\ Parent[e] \notin canceller.marks
        BY <1>4, <2>1, <3>2
      <4> QED
        BY <1>4, <4>1 DEF ToReach
    <3> QED
      BY <3>1, <3>2
  <2>3. \A x \in canceller'.flags : task'[x].pc \in Over
    BY <1>3, <1>4, <2>1 DEF ParentsFirst
  <2>4. \A x \in Exec : Signed(x)' /\ task'[x].pc \notin Over =>
            Parent[x] \in trail'.reached \/ Parent[x] \notin ToReach'
    BY <1>3, <1>5, <1>6, <2>1, <2>2 DEF ParentsFirst
  <2> QED
    BY <1>3, <1>5, <2>1, <2>3, <2>4 DEF ParentsFirst
<1> QED
  BY <1>4, <1>7 DEF Cascade, NothingYet

\* A child that cancel_task takes down does not wake a parent that it takes
\* down as well, unless an overlapping update has wiped out a flag
\* (client.py, the order of the cascade; worker.py, the check before the reply).
THEOREM CascadeSilent == LedgerSpec => []CascadeIsSilent
<1> DEFINE Silent == ~trail.overlapped => Cascade
<1>1. LedgerInit => Silent
  <2> SUFFICES ASSUME LedgerInit PROVE Cascade
    OBVIOUS
  <2>1. \A a \in Actor : update[a].exec = NoExec
    BY NoUpdateTyped DEF LedgerInit
  <2>2. \A e \in Exec : ~record[e].cancel /\ ~Told(e)
    BY DEF LedgerInit, NoRecord, NoTask, Told
  <2>3. \A e \in Exec : ~Signed(e)
    BY <2>1, <2>2, ParentAssumption DEF LedgerInit, Signed, Actor
  <2>4. /\ ToReach = {} /\ trail.reached = {} /\ trail.woken = {}
        /\ canceller.flags = {}
    BY <2>1, ParentAssumption DEF LedgerInit, ToReach, Actor
  <2> QED
    BY <2>3, <2>4 DEF Cascade, NothingYet, ParentsFirst
<1>2. LedgerOK /\ Kept /\ Silent /\ [LedgerNext]_ledgerVars => Silent'
  <2> SUFFICES ASSUME LedgerOK, Kept, Silent, [LedgerNext]_ledgerVars,
                      ~trail'.overlapped
               PROVE  Cascade'
    OBVIOUS
  <2>1. NoLostUpdate /\ Cascade
    BY OverlapStays DEF Kept
  <2>2. ASSUME NEW e \in Exec, CancelFlags(e) \/ CancelMarks(e) PROVE Cascade'
    BY <2>1, <2>2, NextNodeCascade
  <2>3. CASE CancelSession \/ \E e \in Exec : CancelTask(e)
    BY <2>1, <2>3, CancelBegins, CancelsCascade
  <2>4. CASE Steady
    BY <2>1, <2>4, SteadyCascade
  <2> QED
    BY <2>1, <2>2, <2>3, <2>4, TaskSteady, UpdateSteady, CancelSteady, Zenon
       DEF LedgerNext, CancelStep
<1>3. Silent => CascadeIsSilent
  BY DEF Cascade, ParentsFirst, CascadeIsSilent
<1> QED
  BY <1>1, <1>2, <1>3, AlwaysOK, AlwaysKept, PTL DEF LedgerSpec
=============================================================================
