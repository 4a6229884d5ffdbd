-------------------------- MODULE TaskGroup_proofs --------------------------
(***************************************************************************)
(* The Group Join, for every number of members and of runner tasks: the    *)
(* aggregate is whole and goes out once as long as the gate admits each    *)
(* member's reply once.                                                    *)
(***************************************************************************)
EXTENDS TaskGroup, FiniteSetTheorems, TLAPS

\* An activation that has not counted its reply yet.
PreCount == {"resume", "total", "aborted", "store", "count"}

\* The handler of this activation has the aggregate.
Joined(t) == task[t].pc = "handler" /\ task[t].joined

-----------------------------------------------------------------------------
(* Types.                                                                  *)

\* The initial state is well typed.
LEMMA TypeInit == Init => TypeOK
BY NoMemberAssumption, GroupBoundsAssumption
   DEF Init, TypeOK, GroupHash, Kind, MemberPos, CallerRecord, Status, Terminal,
       JoinRecord, JoinPc, IdleTask, SweepRecord, IdleSweep, History

TaskOK ==
    /\ task \in [Task -> JoinRecord]
    /\ \A t \in Task : task[t].pc = "idle" <=> task[t].member = NoMember
    /\ \A t \in Task : task[t].pc # "idle" => task[t].kind \in Kind

SweepOK ==
    /\ sweep \in SweepRecord
    /\ sweep.pc = "idle" <=> sweep.member = NoMember

\* A busy activation works on a member.
LEMMA BusyMember ==
    ASSUME TaskOK, NEW t \in Task, task[t].pc # "idle"
    PROVE  task[t].member \in Member /\ task[t].kind \in Kind
BY NoMemberAssumption DEF TaskOK, JoinRecord

\* Moving an activation on changes nothing but where it is.
LEMMA JGotoType ==
    ASSUME TaskOK, NEW t \in Task, task[t].pc # "idle",
           NEW pc \in JoinPc \ {"idle"}, JGoto(t, pc)
    PROVE  /\ TaskOK'
           /\ task'[t].pc = pc
           /\ task'[t].member = task[t].member
           /\ task'[t].joined = task[t].joined
           /\ task'[t].payload = task[t].payload
           /\ \A u \in Task : u # t => task'[u] = task[u]
BY DEF TaskOK, JGoto, JoinRecord

\* Replacing the record of a busy activation by another of the same reply.
LEMMA ReplaceType ==
    ASSUME TaskOK, NEW t \in Task, task[t].pc # "idle", NEW r \in JoinRecord,
           r.pc # "idle", r.member = task[t].member, r.kind = task[t].kind,
           task' = [task EXCEPT ![t] = r]
    PROVE  /\ TaskOK'
           /\ task'[t] = r
           /\ \A u \in Task : u # t => task'[u] = task[u]
<1>1. task'[t] = r /\ \A u \in Task : u # t => task'[u] = task[u]
  BY DEF TaskOK
<1>2. task' \in [Task -> JoinRecord]
  BY DEF TaskOK
<1> QED
  BY <1>1, <1>2 DEF TaskOK

\* Ending one keeps it well typed.
LEMMA JEndsType ==
    ASSUME TaskOK, NEW t \in Task, task[t].pc # "idle",
           NEW outcome \in Status, JEnds(t, outcome)
    PROVE  /\ TaskOK'
           /\ task'[t].pc = "mark"
           /\ \A u \in Task : u # t => task'[u] = task[u]
<1> DEFINE r == [task[t] EXCEPT !.pc = "mark", !.outcome = outcome]
<1>1. task' = [task EXCEPT ![t] = r]
  BY DEF JEnds, TaskOK
<1>2. task[t] \in JoinRecord
  BY DEF TaskOK
<1>3. /\ r \in JoinRecord
      /\ r.pc = "mark"
      /\ r.member = task[t].member
      /\ r.kind = task[t].kind
  BY <1>2 DEF JoinRecord, JoinPc
<1> HIDE DEF r
<1> QED
  BY <1>1, <1>3, ReplaceType

\* So does freeing its task.
LEMMA JIdleType ==
    ASSUME TaskOK, NEW t \in Task, task' = [task EXCEPT ![t] = IdleTask]
    PROVE  /\ TaskOK'
           /\ task'[t].pc = "idle"
           /\ \A u \in Task : u # t => task'[u] = task[u]
BY DEF TaskOK, IdleTask, JoinRecord, JoinPc, Status

\* One more reply copy keeps the stream well typed.
LEMMA DeliverType ==
    ASSUME copies \in [Member -> [Kind -> Nat]], NEW m \in Member, NEW k \in Kind,
           Deliver(m, k)
    PROVE  copies' \in [Member -> [Kind -> Nat]]
BY DEF Deliver

\* One more fault stays within the bound.
LEMMA FaultType ==
    ASSUME faults \in 0..MaxFaults, NEW kind, Fault(kind)
    PROVE  faults' \in 0..MaxFaults
BY GroupBoundsAssumption DEF Fault

\* The steps of the dispatching activation keep the types.
LEMMA TypeCaller == TypeOK /\ CallerNext => TypeOK'
<1> SUFFICES ASSUME TypeOK, CallerNext PROVE TypeOK'
  OBVIOUS
<1>1. CASE CallAgents
  BY <1>1 DEF CallAgents, TypeOK, GroupHash, CallerRecord
<1>2. CASE GroupAborts
  BY <1>2 DEF GroupAborts, TypeOK, GroupHash, CallerRecord
<1>3. CASE AllDispatched
  BY <1>3 DEF AllDispatched, TypeOK, CallerRecord
<1>4. CASE CallerUnwinds
  BY <1>4 DEF CallerUnwinds, TypeOK, CallerRecord, Status, Terminal
<1>5. ASSUME NEW m \in Member, Dispatch(m) PROVE TypeOK'
  <2>1. member' \in [Member -> MemberPos]
    BY <1>5 DEF Dispatch, TypeOK, MemberPos
  <2>2. caller' \in CallerRecord
    BY <1>5 DEF Dispatch, TypeOK, CallerRecord
  <2>3. faults' \in 0..MaxFaults
    BY <1>5, FaultType DEF Dispatch, TypeOK
  <2> QED
    BY <1>5, <2>1, <2>2, <2>3 DEF Dispatch, TypeOK
<1>6. ASSUME NEW m \in Member, FlushStandIn(m) PROVE TypeOK'
  <2>1. copies' \in [Member -> [Kind -> Nat]]
    BY <1>6, DeliverType DEF FlushStandIn, TypeOK, Kind
  <2>2. caller' \in CallerRecord
    BY <1>6 DEF FlushStandIn, TypeOK, CallerRecord
  <2>3. faults' \in 0..MaxFaults
    BY <1>6, FaultType DEF FlushStandIn, TypeOK
  <2> QED
    BY <1>6, <2>1, <2>2, <2>3 DEF FlushStandIn, TypeOK
<1> QED
  BY <1>1, <1>2, <1>3, <1>4, <1>5, <1>6 DEF CallerNext

\* The steps of a member keep the types.
LEMMA TypeMember ==
    ASSUME TypeOK, NEW m \in Member, MemberReplies(m) \/ MemberOverdue(m)
    PROVE  TypeOK'
<1>1. CASE MemberReplies(m)
  <2>1. copies' \in [Member -> [Kind -> Nat]]
    BY <1>1, DeliverType DEF MemberReplies, TypeOK, Kind
  <2>2. faults' \in 0..MaxFaults
    BY <1>1, FaultType DEF MemberReplies, TypeOK
  <2> QED
    BY <1>1, <2>1, <2>2 DEF MemberReplies, TypeOK, MemberPos
<1>2. CASE MemberOverdue(m)
  BY <1>2 DEF MemberOverdue, TypeOK, MemberPos
<1> QED
  BY <1>1, <1>2

\* The expiry of the group keeps the types.
LEMMA TypeExpires == TypeOK /\ GroupExpires => TypeOK'
BY DEF GroupExpires, TypeOK, GroupHash

\* What the gate does to the record of its task and to the history.
LEMMA AdmitFacts ==
    ASSUME TypeOK, NEW t \in Task, NEW m \in Member, NEW k \in Kind,
           GateAdmits(t, m, k)
    PROVE  /\ TaskOK'
           /\ task[t].pc = "idle"
           /\ task'[t].pc = "resume"
           /\ task'[t].member = m
           /\ task'[t].joined = FALSE
           /\ \A u \in Task : u # t => task'[u] = task[u]
           /\ hist' \in History
           /\ hist'.passed = [hist.passed EXCEPT ![m] = @ + 1]
           /\ hist'.counted = hist.counted
           /\ hist'.again = hist.again
           /\ hist'.joins = hist.joins
<1>1. /\ TaskOK'
      /\ task[t].pc = "idle"
      /\ task'[t].pc = "resume"
      /\ task'[t].member = m
      /\ task'[t].joined = FALSE
      /\ \A u \in Task : u # t => task'[u] = task[u]
  <2>1. [IdleTask EXCEPT !.pc = "resume", !.member = m, !.kind = k] \in JoinRecord
    BY DEF IdleTask, JoinRecord, JoinPc, Status
  <2>2. task' = [task EXCEPT ![t] = [IdleTask EXCEPT !.pc = "resume",
                                                !.member = m, !.kind = k]]
    BY DEF GateAdmits
  <2> QED
    BY <2>1, <2>2, NoMemberAssumption DEF GateAdmits, TypeOK, TaskOK, IdleTask
<1>2. hist \in History /\ hist.passed[m] \in Nat /\ hist.extra \in Nat
  BY DEF TypeOK, History
<1> DEFINE p == [hist.passed EXCEPT ![m] = @ + 1]
<1>3. p \in [Member -> Nat]
  BY <1>2 DEF TypeOK, History
<1>4. \/ hist' = [hist EXCEPT !.passed = p]
      \/ \E n \in Nat : hist' = [hist EXCEPT !.passed = p, !.extra = n]
  <2>1. CASE hist' = [hist EXCEPT !.passed[m] = @ + 1]
    BY <2>1, <1>2
  <2>2. CASE hist' = [hist EXCEPT !.passed[m] = @ + 1,
                                  !.extra = IF m \in marker THEN @ + 1 ELSE @]
    <3>1. (IF m \in marker THEN hist.extra + 1 ELSE hist.extra) \in Nat
      BY <1>2
    <3> QED
      BY <2>2, <3>1, <1>2
  <2> QED
    BY <2>1, <2>2 DEF GateAdmits
<1> HIDE DEF p
<1>5. /\ hist' \in History
      /\ hist'.passed = p
      /\ hist'.counted = hist.counted
      /\ hist'.again = hist.again
      /\ hist'.joins = hist.joins
  <2>1. CASE hist' = [hist EXCEPT !.passed = p]
    BY <2>1, <1>2, <1>3 DEF History
  <2>2. ASSUME NEW n \in Nat, hist' = [hist EXCEPT !.passed = p, !.extra = n]
        PROVE  /\ hist' \in History
               /\ hist'.passed = p
               /\ hist'.counted = hist.counted
               /\ hist'.again = hist.again
               /\ hist'.joins = hist.joins
    BY <2>2, <1>2, <1>3 DEF History
  <2> QED
    BY <2>1, <2>2, <1>4
<1> QED
  BY <1>1, <1>5 DEF p

\* What counting does to the record of its task and to the history.
LEMMA CountFacts ==
    ASSUME TypeOK, NEW t \in Task, JoinCount(t)
    PROVE  /\ TaskOK'
           /\ task[t].pc = "count"
           /\ task[t].member \in Member
           /\ task'[t].pc \in {"mark", "aggregate"}
           /\ task'[t].pc = "aggregate" => group.completed + 1 >= Total
           /\ \A u \in Task : u # t => task'[u] = task[u]
           /\ group' \in GroupHash
           /\ group.completed \in Nat
           /\ group'.completed = group.completed + 1
           /\ hist' \in History
           /\ hist'.passed = hist.passed
           /\ hist'.counted = hist.counted \cup {task[t].member}
           /\ hist'.again = (hist.again \/ task[t].member \in hist.counted)
           /\ hist'.joins = hist.joins
<1>1. TaskOK /\ task[t].pc = "count" /\ task[t].member \in Member
  BY BusyMember DEF JoinCount, TypeOK, TaskOK
<1>2. /\ group' \in GroupHash
      /\ group.completed \in Nat
      /\ group'.completed = group.completed + 1
  BY DEF JoinCount, TypeOK, GroupHash
<1>3. /\ hist' \in History
      /\ hist'.passed = hist.passed
      /\ hist'.counted = hist.counted \cup {task[t].member}
      /\ hist'.again = (hist.again \/ task[t].member \in hist.counted)
      /\ hist'.joins = hist.joins
  BY <1>1 DEF JoinCount, Counts, TypeOK, History
<1>4. Total \in Nat
  BY MemberAssumption, FS_CardinalityType DEF Total
<1>5. CASE group.completed + 1 < Total
  <2>1. JEnds(t, "WAITING_AGENT")
    BY <1>5 DEF JoinCount
  <2> QED
    BY <2>1, <1>1, <1>2, <1>3, JEndsType DEF Status
<1>6. CASE ~(group.completed + 1 < Total)
  <2>1. JGoto(t, "aggregate")
    BY <1>6 DEF JoinCount
  <2>2. /\ TaskOK'
        /\ task'[t].pc = "aggregate"
        /\ \A u \in Task : u # t => task'[u] = task[u]
    BY <2>1, <1>1, JGotoType DEF JoinPc
  <2>3. group.completed + 1 >= Total
    BY <1>2, <1>4, <1>6
  <2> QED
    BY <2>2, <2>3, <1>1, <1>2, <1>3
<1> QED
  BY <1>5, <1>6

\* What handing over the aggregate does.
LEMMA AggregateFacts ==
    ASSUME TypeOK, NEW t \in Task, JoinAggregate(t)
    PROVE  /\ TaskOK'
           /\ task[t].pc = "aggregate"
           /\ task'[t].pc = "handler"
           /\ task'[t].payload = {m \in Member : results[m] # "none"}
           /\ \A u \in Task : u # t => task'[u] = task[u]
           /\ hist' \in History
           /\ hist'.passed = hist.passed
           /\ hist'.counted = hist.counted
           /\ hist'.again = hist.again
           /\ hist.joins \in Nat
           /\ hist'.joins = hist.joins + 1
<1> DEFINE r == [task[t] EXCEPT !.pc = "handler", !.joined = TRUE,
                                !.payload = {m \in Member : results[m] # "none"}]
<1>1. task' = [task EXCEPT ![t] = r]
  BY DEF JoinAggregate, TypeOK
<1>2. /\ task[t].pc = "aggregate"
      /\ task[t] \in JoinRecord
  BY DEF JoinAggregate, TypeOK
<1>3. /\ r \in JoinRecord
      /\ r.pc = "handler"
      /\ r.payload = {m \in Member : results[m] # "none"}
      /\ r.member = task[t].member
      /\ r.kind = task[t].kind
  BY <1>2 DEF JoinRecord, JoinPc
<1>4. /\ hist' \in History
      /\ hist'.passed = hist.passed
      /\ hist'.counted = hist.counted
      /\ hist'.again = hist.again
      /\ hist.joins \in Nat
      /\ hist'.joins = hist.joins + 1
  <2>1. hist \in History /\ hist.joins \in Nat
    BY DEF TypeOK, History
  <2>2. hist' = [hist EXCEPT !.joins = hist.joins + 1]
    BY DEF JoinAggregate
  <2> QED
    BY <2>1, <2>2 DEF History
<1> HIDE DEF r
<1>5. TaskOK
  BY DEF TypeOK, TaskOK
<1> QED
  BY <1>1, <1>2, <1>3, <1>4, <1>5, ReplaceType

\* What a reply without a group does.
LEMMA LoneFacts ==
    ASSUME TypeOK, NEW t \in Task, task[t].pc = "total",
           task' = [task EXCEPT ![t].pc = "handler",
                                ![t].payload = {task[t].member}]
    PROVE  /\ TaskOK'
           /\ task'[t].pc = "handler"
           /\ task'[t].joined = task[t].joined
           /\ \A u \in Task : u # t => task'[u] = task[u]
<1> DEFINE r == [task[t] EXCEPT !.pc = "handler", !.payload = {task[t].member}]
<1>1. task' = [task EXCEPT ![t] = r]
  BY DEF TypeOK
<1>2. task[t] \in JoinRecord /\ task[t].member \in Member
  BY BusyMember DEF TypeOK, TaskOK
<1>3. /\ r \in JoinRecord
      /\ r.pc = "handler"
      /\ r.joined = task[t].joined
      /\ r.member = task[t].member
      /\ r.kind = task[t].kind
  BY <1>2 DEF JoinRecord, JoinPc
<1> HIDE DEF r
<1>4. TaskOK
  BY DEF TypeOK, TaskOK
<1> QED
  BY <1>1, <1>2, <1>3, <1>4, ReplaceType

\* The steps of the join keep the types.
LEMMA TypeJoin ==
    ASSUME TypeOK, NEW t \in Task, JoinNext(t) \/ JoinCrash(t)
    PROVE  TypeOK'
<1> TaskOK
  BY DEF TypeOK, TaskOK
<1>1. ASSUME NEW m \in Member, NEW k \in Kind, GateAdmits(t, m, k) PROVE TypeOK'
  <2>1. copies' \in [Member -> [Kind -> Nat]]
    BY <1>1 DEF GateAdmits, TypeOK
  <2> QED
    BY <1>1, <2>1, AdmitFacts DEF GateAdmits, TypeOK, TaskOK
<1>2. ASSUME NEW m \in Member, NEW k \in Kind, GateDrops(t, m, k) PROVE TypeOK'
  <2>1. copies' \in [Member -> [Kind -> Nat]]
    BY <1>2 DEF GateDrops, TypeOK
  <2> QED
    BY <1>2, <2>1 DEF GateDrops, TypeOK
<1>3. CASE JoinResume(t)
  <2>1. TaskOK'
    BY <1>3, JGotoType DEF JoinResume, JoinPc
  <2> QED
    BY <1>3, <2>1 DEF JoinResume, TypeOK, TaskOK, Status
<1>4. CASE JoinTotal(t)
  <2>1. TaskOK'
    BY <1>4, JGotoType, LoneFacts DEF JoinTotal, JoinPc
  <2> QED
    BY <1>4, <2>1 DEF JoinTotal, TypeOK, TaskOK
<1>5. CASE JoinAborted(t)
  <2>1. TaskOK'
    BY <1>5, JGotoType, JEndsType DEF JoinAborted, JoinPc, Status, Terminal
  <2> QED
    BY <1>5, <2>1 DEF JoinAborted, TypeOK, TaskOK
<1>6. CASE JoinStore(t)
  <2>1. TaskOK' /\ task[t].kind \in Kind
    BY <1>6, JGotoType, BusyMember DEF JoinStore, JoinPc
  <2> QED
    BY <1>6, <2>1 DEF JoinStore, TypeOK, TaskOK
<1>7. CASE JoinCount(t)
  BY <1>7, CountFacts DEF JoinCount, TypeOK, TaskOK
<1>8. CASE JoinAggregate(t)
  BY <1>8, AggregateFacts DEF JoinAggregate, TypeOK, TaskOK
<1>9. CASE JoinHandler(t)
  <2>1. TaskOK'
    BY <1>9, JEndsType DEF JoinHandler, Status, Terminal
  <2> QED
    BY <1>9, <2>1 DEF JoinHandler, TypeOK, TaskOK
<1>10. CASE JoinMark(t)
  <2>1. TaskOK'
    BY <1>10, JIdleType DEF JoinMark
  <2>2. status' \in Status
    BY <1>10 DEF JoinMark, TypeOK, JoinRecord
  <2> QED
    BY <1>10, <2>1, <2>2 DEF JoinMark, TypeOK, TaskOK
<1>11. CASE JoinCrash(t)
  <2>1. TaskOK'
    BY <1>11, JIdleType DEF JoinCrash
  <2>2. faults' \in 0..MaxFaults
    BY <1>11, FaultType DEF JoinCrash, TypeOK
  <2> QED
    BY <1>11, <2>1, <2>2 DEF JoinCrash, TypeOK, TaskOK
<1> QED
  BY <1>1, <1>2, <1>3, <1>4, <1>5, <1>6, <1>7, <1>8, <1>9, <1>10, <1>11
     DEF JoinNext

\* The steps of the sweep keep the types.
LEMMA TypeSweep == TypeOK /\ SweepNext => TypeOK'
<1> SUFFICES ASSUME TypeOK, SweepNext PROVE TypeOK'
  OBVIOUS
<1>1. ASSUME NEW m \in Member, SweepTakes(m) PROVE TypeOK'
  <2>1. SweepOK'
    BY <1>1, NoMemberAssumption DEF SweepTakes, SweepOK, SweepRecord
  <2> QED
    BY <1>1, <2>1 DEF SweepTakes, TypeOK, SweepOK
<1>2. ASSUME NEW pc \in {"aborted", "recorded", "child", "emit", "extend", "drop"},
             sweep.pc # "idle", WGoto(pc)
      PROVE  SweepOK'
  BY <1>2 DEF WGoto, TypeOK, SweepOK, SweepRecord
<1>3. CASE SweepBlocked
  <2>1. SweepOK'
    BY <1>2, <1>3 DEF SweepBlocked
  <2> QED
    BY <1>3, <2>1 DEF SweepBlocked, TypeOK, SweepOK
<1>4. CASE SweepChild
  <2>1. SweepOK'
    BY <1>2, <1>4 DEF SweepChild
  <2> QED
    BY <1>4, <2>1 DEF SweepChild, TypeOK, SweepOK
<1>5. CASE SweepEmit
  <2>1. SweepOK' /\ sweep.member \in Member
    BY <1>2, <1>5 DEF SweepEmit, TypeOK, SweepRecord
  <2>2. copies' \in [Member -> [Kind -> Nat]]
    BY <1>5, <2>1, DeliverType DEF SweepEmit, TypeOK, Kind
  <2>3. hist' \in History
    <3>1. hist.standIns[sweep.member] + 1 \in Nat
      BY <2>1 DEF TypeOK, History
    <3>2. hist' = [hist EXCEPT !.standIns =
                      [@ EXCEPT ![sweep.member] = hist.standIns[sweep.member] + 1]]
      BY <1>5 DEF SweepEmit
    <3> QED
      BY <3>1, <3>2 DEF TypeOK, History
  <2> QED
    BY <1>5, <2>1, <2>2, <2>3 DEF SweepEmit, TypeOK, SweepOK
<1>6. CASE SweepEnds
  <2>1. SweepOK'
    BY <1>6 DEF SweepEnds, IdleSweep, SweepOK, SweepRecord
  <2>2. entry' \in SUBSET Member
    BY <1>6 DEF SweepEnds, TypeOK, SweepRecord
  <2> QED
    BY <1>6, <2>1, <2>2 DEF SweepEnds, TypeOK, SweepOK
<1> QED
  BY <1>1, <1>3, <1>4, <1>5, <1>6 DEF SweepNext

\* Every step keeps the types.
LEMMA TypeNext == TypeOK /\ [Next]_vars => TypeOK'
<1>1. TypeOK /\ UNCHANGED vars => TypeOK'
  BY DEF TypeOK, vars
<1> QED
  BY <1>1, TypeCaller, TypeMember, TypeExpires, TypeJoin, TypeSweep DEF Next
-----------------------------------------------------------------------------
(* The inductive invariant.                                                *)

Waiting(t) == task[t].pc \in PreCount

\* A counted member, and one about to be counted, has its result stored.
Stored ==
    /\ \A m \in hist.counted : results[m] # "none"
    /\ \A t \in Task : task[t].pc = "count" => results[task[t].member] # "none"

\* An activation that has not counted yet has no aggregate.
Unjoined == \A t \in Task : Waiting(t) => ~task[t].joined

\* The gate admitted as many replies of a member as have come this far.
Admitted ==
    /\ \A t \in Task : Waiting(t) => hist.passed[task[t].member] >= 1
    /\ \A t, u \in Task :
          t # u /\ Waiting(t) /\ Waiting(u) /\ task[t].member = task[u].member =>
              hist.passed[task[t].member] >= 2
    /\ \A m \in hist.counted : hist.passed[m] >= 1
    /\ \A t \in Task : Waiting(t) /\ task[t].member \in hist.counted =>
                           hist.passed[task[t].member] >= 2
    /\ hist.again => \E m \in Member : hist.passed[m] >= 2

\* While no member is counted twice, only the count of the last one makes an
\* aggregate, and it makes one.
CountedOnce ==
    /\ group.completed <= Cardinality(hist.counted)
    /\ \A t \in Task : task[t].pc = "aggregate" \/ Joined(t) =>
                           hist.counted = Member
    /\ \A t \in Task : Joined(t) => task[t].payload = Member
    /\ \A t, u \in Task :
          task[t].pc = "aggregate" /\ task[u].pc = "aggregate" => t = u
    /\ hist.joins = 0 \/ hist.joins = 1
    /\ hist.joins = 1 => /\ hist.counted = Member
                         /\ \A t \in Task : task[t].pc # "aggregate"

JoinInv == Stored /\ Unjoined /\ Admitted /\ (~hist.again => CountedOnce)

\* The invariant holds initially.
LEMMA JoinInit == Init => JoinInv
<1>1. Init => Cardinality({}) = 0
  BY FS_EmptySet
<1> QED
  BY <1>1 DEF Init, JoinInv, Stored, Unjoined, Admitted, CountedOnce, Waiting,
              PreCount, Joined, IdleTask

\* What most steps do to an activation: nothing, move it on before it counts,
\* end it, or hand it a lone reply.
Moves(t) ==
    \/ task'[t] = task[t]
    \/ /\ Waiting(t)
       /\ task'[t].pc \in {"total", "aborted", "store"}
       /\ task'[t].member = task[t].member
       /\ task'[t].joined = task[t].joined
    \/ task'[t].pc \in {"idle", "mark"}
    \/ task'[t].pc = "handler" /\ ~task'[t].joined

\* A step that stores, counts and admits nothing keeps the invariant.
LEMMA Quiet ==
    ASSUME TypeOK, JoinInv,
           \A t \in Task : Moves(t),
           results' = results,
           hist'.passed = hist.passed, hist'.counted = hist.counted,
           hist'.again = hist.again, hist'.joins = hist.joins,
           group'.completed = group.completed \/ group'.completed = 0
    PROVE  JoinInv'
<1>1. Stored'
  BY DEF JoinInv, Stored, Moves
<1>2. \A t \in Task : Waiting(t)' => Waiting(t) /\ task'[t].member = task[t].member
                                                /\ task'[t].joined = task[t].joined
  BY DEF Moves, Waiting, PreCount
<1>3. Unjoined'
  BY <1>2 DEF JoinInv, Unjoined
<1>4. Admitted'
  BY <1>2 DEF JoinInv, Admitted
<1>5. \A t \in Task :
         /\ task'[t].pc = "aggregate" => task[t].pc = "aggregate"
         /\ Joined(t)' => Joined(t) /\ task'[t].payload = task[t].payload
  BY DEF Moves, Joined
<1>6. ASSUME ~hist'.again PROVE CountedOnce'
  <2>1. CountedOnce
    BY <1>6 DEF JoinInv
  <2>2. IsFiniteSet(hist.counted)
    BY MemberAssumption, FS_Subset DEF TypeOK, History
  <2>3. Cardinality(hist.counted) \in Nat
    BY <2>2, FS_CardinalityType
  <2>4. group'.completed <= Cardinality(hist'.counted)
    BY <2>1, <2>3 DEF CountedOnce
  <2> QED
    BY <2>1, <2>4, <1>5 DEF CountedOnce
<1> QED
  BY <1>1, <1>3, <1>4, <1>6 DEF JoinInv

\* A reply admitted behind another of its member is the second.
LEMMA AdmitInv ==
    ASSUME TypeOK, JoinInv, NEW t \in Task, NEW m \in Member, NEW k \in Kind,
           GateAdmits(t, m, k)
    PROVE  JoinInv'
<1>1. /\ task'[t].pc = "resume"
      /\ task'[t].member = m
      /\ task'[t].joined = FALSE
      /\ \A u \in Task : u # t => task'[u] = task[u]
      /\ hist'.passed = [hist.passed EXCEPT ![m] = @ + 1]
      /\ hist'.counted = hist.counted
      /\ hist'.again = hist.again
      /\ hist'.joins = hist.joins
  BY AdmitFacts
<1>2. results' = results /\ group' = group
  BY DEF GateAdmits
<1>3. hist.passed \in [Member -> Nat] /\ hist.counted \subseteq Member
  BY DEF TypeOK, History
<1>4. \A n \in Member : /\ hist'.passed[n] \in Nat
                        /\ hist'.passed[n] >= hist.passed[n]
  BY <1>1, <1>3
<1>5. hist'.passed[m] = hist.passed[m] + 1
  BY <1>1, <1>3
<1>6. \A u \in Task : u # t => /\ Waiting(u)' <=> Waiting(u)
                               /\ Joined(u)' <=> Joined(u)
  BY <1>1 DEF Waiting, Joined
<1>7. \A u \in Task : Waiting(u) => task[u].member \in Member
  BY BusyMember DEF Waiting, PreCount, TypeOK, TaskOK
<1>8. Stored'
  BY <1>1, <1>2 DEF JoinInv, Stored
<1>9. Unjoined'
  BY <1>1, <1>6 DEF JoinInv, Unjoined
<1>10. Admitted'
  <2>1. \A u \in Task : Waiting(u)' => hist'.passed[task'[u].member] >= 1
    BY <1>1, <1>3, <1>4, <1>5, <1>6, <1>7 DEF JoinInv, Admitted
  <2>2. ASSUME NEW u \in Task, NEW v \in Task, u # v, Waiting(u)', Waiting(v)',
               task'[u].member = task'[v].member
        PROVE  hist'.passed[task'[u].member] >= 2
    BY <2>2, <1>1, <1>3, <1>4, <1>5, <1>6, <1>7 DEF JoinInv, Admitted
  <2>3. \A n \in hist'.counted : hist'.passed[n] >= 1
    BY <1>1, <1>3, <1>4 DEF JoinInv, Admitted
  <2>4. ASSUME NEW u \in Task, Waiting(u)', task'[u].member \in hist'.counted
        PROVE  hist'.passed[task'[u].member] >= 2
    BY <2>4, <1>1, <1>3, <1>4, <1>5, <1>6, <1>7 DEF JoinInv, Admitted
  <2>5. hist'.again => \E n \in Member : hist'.passed[n] >= 2
    BY <1>1, <1>3, <1>4 DEF JoinInv, Admitted
  <2> QED
    BY <2>1, <2>2, <2>3, <2>4, <2>5 DEF Admitted
<1>11. ASSUME ~hist'.again PROVE CountedOnce'
  <2>1. ~Joined(t)'
    BY <1>1 DEF Joined
  <2> QED
    BY <2>1, <1>1, <1>2, <1>6, <1>11 DEF JoinInv, CountedOnce
<1> QED
  BY <1>8, <1>9, <1>10, <1>11 DEF JoinInv

\* A result is stored before it is counted.
LEMMA StoreInv ==
    ASSUME TypeOK, JoinInv, NEW t \in Task, JoinStore(t)
    PROVE  JoinInv'
<1>1. /\ task[t].pc = "store"
      /\ task[t].member \in Member
      /\ task[t].kind \in Kind
      /\ task'[t].pc = "count"
      /\ task'[t].member = task[t].member
      /\ task'[t].joined = task[t].joined
      /\ \A u \in Task : u # t => task'[u] = task[u]
  BY JGotoType, BusyMember DEF JoinStore, TypeOK, TaskOK, JoinPc
<1>2. results' = [results EXCEPT ![task[t].member] = task[t].kind]
  BY DEF JoinStore
<1>3. hist' = hist /\ group' = group
  BY DEF JoinStore
<1>4. \A m \in Member : results'[m] # "none" <=>
                          m = task[t].member \/ results[m] # "none"
  BY <1>1, <1>2 DEF TypeOK, Kind
<1>5. /\ \A u \in Task : Waiting(u)' <=> Waiting(u)
      /\ \A u \in Task : Joined(u)' <=> Joined(u)
      /\ \A u \in Task : task'[u].member = task[u].member
      /\ \A u \in Task : task'[u].joined = task[u].joined
  BY <1>1 DEF Waiting, PreCount, Joined
<1>6. Stored'
  <2>1. hist.counted \subseteq Member
    BY DEF TypeOK, History
  <2>2. \A u \in Task : task[u].pc = "count" => task[u].member \in Member
    BY BusyMember DEF TypeOK, TaskOK
  <2> QED
    BY <2>1, <2>2, <1>1, <1>3, <1>4 DEF JoinInv, Stored
<1>7. Unjoined'
  BY <1>5 DEF JoinInv, Unjoined
<1>8. Admitted'
  BY <1>3, <1>5 DEF JoinInv, Admitted
<1>9. ASSUME ~hist'.again PROVE CountedOnce'
  <2>1. ~Joined(t)
    BY <1>1 DEF Joined
  <2> QED
    BY <2>1, <1>1, <1>3, <1>5, <1>9 DEF JoinInv, CountedOnce
<1> QED
  BY <1>6, <1>7, <1>8, <1>9 DEF JoinInv

\* The count that reaches the total is that of the last member.
LEMMA CountInv ==
    ASSUME TypeOK, JoinInv, NEW t \in Task, JoinCount(t)
    PROVE  JoinInv'
<1> DEFINE m == task[t].member
<1>1. /\ task[t].pc = "count"
      /\ m \in Member
      /\ task'[t].pc \in {"mark", "aggregate"}
      /\ task'[t].pc = "aggregate" => group.completed + 1 >= Total
      /\ \A u \in Task : u # t => task'[u] = task[u]
      /\ group.completed \in Nat
      /\ group'.completed = group.completed + 1
      /\ hist'.passed = hist.passed
      /\ hist'.counted = hist.counted \cup {m}
      /\ hist'.again = (hist.again \/ m \in hist.counted)
      /\ hist'.joins = hist.joins
  BY CountFacts
<1>2. results' = results
  BY DEF JoinCount
<1>3. Waiting(t) /\ ~Waiting(t)' /\ ~Joined(t)'
  BY <1>1 DEF Waiting, PreCount, Joined
<1>4. \A u \in Task : Waiting(u)' => u # t /\ Waiting(u) /\ task'[u] = task[u]
  BY <1>1, <1>3 DEF Waiting
<1> HIDE DEF m
<1>5. Stored'
  BY <1>1, <1>2 DEF JoinInv, Stored, m
<1>6. Unjoined'
  BY <1>4 DEF JoinInv, Unjoined
<1>7. Admitted'
  <2>1. hist.passed[m] >= 1
    BY <1>3 DEF JoinInv, Admitted, m
  <2>2. m \in hist.counted => hist.passed[m] >= 2
    BY <1>3 DEF JoinInv, Admitted, m
  <2>3. \A u \in Task : Waiting(u)' /\ task'[u].member = m =>
                           hist.passed[m] >= 2
    BY <1>3, <1>4 DEF JoinInv, Admitted, m
  <2>4. \A u \in Task : Waiting(u)' /\ task'[u].member \in hist'.counted =>
                           hist'.passed[task'[u].member] >= 2
    BY <2>3, <1>1, <1>4 DEF JoinInv, Admitted
  <2>5. \A n \in hist'.counted : hist'.passed[n] >= 1
    BY <2>1, <1>1 DEF JoinInv, Admitted
  <2>6. hist'.again => \E n \in Member : hist'.passed[n] >= 2
    BY <2>2, <1>1 DEF JoinInv, Admitted
  <2> QED
    BY <2>4, <2>5, <2>6, <1>1, <1>4 DEF JoinInv, Admitted
<1>8. ASSUME ~hist'.again PROVE CountedOnce'
  <2>1. CountedOnce /\ m \notin hist.counted /\ hist.counted # Member
    BY <1>1, <1>8 DEF JoinInv
  <2>2. /\ IsFiniteSet(hist.counted)
        /\ IsFiniteSet(hist'.counted)
        /\ hist'.counted \subseteq Member
    BY <1>1, MemberAssumption, FS_Subset DEF TypeOK, History
  <2>3. /\ Cardinality(hist.counted) \in Nat
        /\ Cardinality(hist'.counted) = Cardinality(hist.counted) + 1
    BY <2>1, <2>2, <1>1, FS_AddElement, FS_CardinalityType
  <2>4. group'.completed <= Cardinality(hist'.counted)
    BY <2>1, <2>3, <1>1 DEF CountedOnce
  <2>5. task'[t].pc = "aggregate" => hist'.counted = Member
    <3>1. SUFFICES ASSUME task'[t].pc = "aggregate" PROVE hist'.counted = Member
      OBVIOUS
    <3>2. Cardinality(hist'.counted) >= Cardinality(Member)
      BY <3>1, <2>1, <2>3, <1>1, MemberAssumption, FS_CardinalityType
         DEF CountedOnce, Total
    <3> QED
      BY <3>2, <2>2, MemberAssumption, FS_Subset, FS_CardinalityType
  <2>6. /\ hist'.joins = 0
        /\ \A u \in Task : u # t => task'[u].pc # "aggregate" /\ ~Joined(u)'
    BY <2>1, <1>1 DEF CountedOnce, Joined
  <2> QED
    BY <2>4, <2>5, <2>6, <1>3 DEF CountedOnce
<1> QED
  BY <1>5, <1>6, <1>7, <1>8 DEF JoinInv

\* The aggregate is read when every member is counted, so it is whole.
LEMMA AggregateInv ==
    ASSUME TypeOK, JoinInv, NEW t \in Task, JoinAggregate(t)
    PROVE  JoinInv'
<1>1. /\ task[t].pc = "aggregate"
      /\ task'[t].pc = "handler"
      /\ task'[t].payload = {m \in Member : results[m] # "none"}
      /\ \A u \in Task : u # t => task'[u] = task[u]
      /\ hist'.passed = hist.passed
      /\ hist'.counted = hist.counted
      /\ hist'.again = hist.again
      /\ hist'.joins = hist.joins + 1
  BY AggregateFacts
<1>2. results' = results /\ group' = group
  BY DEF JoinAggregate
<1>3. \A u \in Task : Waiting(u)' => Waiting(u) /\ task'[u] = task[u]
  BY <1>1 DEF Waiting, PreCount
<1>4. Stored'
  BY <1>1, <1>2 DEF JoinInv, Stored
<1>5. Unjoined'
  BY <1>3 DEF JoinInv, Unjoined
<1>6. Admitted'
  BY <1>1, <1>3 DEF JoinInv, Admitted
<1>7. ASSUME ~hist'.again PROVE CountedOnce'
  <2>1. CountedOnce /\ hist.counted = Member /\ hist.joins = 0
    BY <1>1, <1>7 DEF JoinInv, CountedOnce
  <2>2. task'[t].payload = Member
    BY <2>1, <1>1 DEF JoinInv, Stored
  <2>3. \A u \in Task : task'[u].pc # "aggregate"
    BY <2>1, <1>1 DEF CountedOnce
  <2>4. \A u \in Task : Joined(u)' => task'[u].payload = Member
    BY <2>1, <2>2, <1>1 DEF CountedOnce, Joined
  <2> QED
    BY <2>1, <2>3, <2>4, <1>1, <1>2 DEF CountedOnce
<1> QED
  BY <1>4, <1>5, <1>6, <1>7 DEF JoinInv

\* A step that touches no activation, no result and nothing of the history but
\* the count of stand-ins.
LEMMA Elsewhere ==
    ASSUME TypeOK, JoinInv,
           CallerNext \/ GroupExpires \/ SweepNext
              \/ \E m \in Member : MemberReplies(m) \/ MemberOverdue(m)
    PROVE  JoinInv'
<1>1. task' = task /\ results' = results
  <2>1. CASE CallerNext
    BY <2>1 DEF CallerNext, CallAgents, GroupAborts, AllDispatched,
                CallerUnwinds, Dispatch, FlushStandIn
  <2>2. CASE SweepNext
    BY <2>2 DEF SweepNext, SweepTakes, SweepBlocked, SweepChild, SweepEmit,
                SweepEnds
  <2> QED
    BY <2>1, <2>2 DEF GroupExpires, MemberReplies, MemberOverdue
<1>2. group'.completed = group.completed \/ group'.completed = 0
  <2>1. CASE CallerNext
    BY <2>1 DEF CallerNext, CallAgents, GroupAborts, AllDispatched,
                CallerUnwinds, Dispatch, FlushStandIn, TypeOK, GroupHash
  <2>2. CASE SweepNext
    BY <2>2 DEF SweepNext, SweepTakes, SweepBlocked, SweepChild, SweepEmit,
                SweepEnds
  <2> QED
    BY <2>1, <2>2 DEF GroupExpires, MemberReplies, MemberOverdue
<1>3. hist' = hist \/ SweepEmit
  <2>1. CASE CallerNext
    BY <2>1 DEF CallerNext, CallAgents, GroupAborts, AllDispatched,
                CallerUnwinds, Dispatch, FlushStandIn
  <2>2. CASE SweepNext
    BY <2>2 DEF SweepNext, SweepTakes, SweepBlocked, SweepChild, SweepEnds
  <2> QED
    BY <2>1, <2>2 DEF GroupExpires, MemberReplies, MemberOverdue
<1>4. /\ hist'.passed = hist.passed
      /\ hist'.counted = hist.counted
      /\ hist'.again = hist.again
      /\ hist'.joins = hist.joins
  BY <1>3 DEF SweepEmit, TypeOK, History
<1>5. \A t \in Task : Moves(t)
  BY <1>1 DEF Moves
<1> QED
  BY <1>1, <1>2, <1>4, <1>5, Quiet

\* The steps of an activation keep the invariant.
LEMMA JoinStep ==
    ASSUME TypeOK, JoinInv, NEW t \in Task, JoinNext(t) \/ JoinCrash(t)
    PROVE  JoinInv'
<1> TaskOK
  BY DEF TypeOK, TaskOK
<1> DEFINE Same == /\ results' = results
                   /\ hist' = hist
                   /\ group' = group
<1>1. ASSUME Same, Moves(t), \A u \in Task : u # t => task'[u] = task[u]
      PROVE  JoinInv'
  <2>1. \A u \in Task : Moves(u)
    BY <1>1 DEF Moves
  <2> QED
    BY <1>1, <2>1, Quiet
<1>2. ASSUME NEW m \in Member, NEW k \in Kind, GateDrops(t, m, k) PROVE JoinInv'
  BY <1>1, <1>2 DEF GateDrops, Moves
<1>3. CASE JoinResume(t)
  <2>1. Moves(t) /\ \A u \in Task : u # t => task'[u] = task[u]
    BY <1>3, JGotoType DEF JoinResume, JoinPc, Moves, Waiting, PreCount
  <2> QED
    BY <2>1, <1>1, <1>3 DEF JoinResume
<1>4. CASE JoinTotal(t)
  <2>1. Moves(t) /\ \A u \in Task : u # t => task'[u] = task[u]
    <3>1. CASE JGoto(t, "aborted")
      BY <3>1, <1>4, JGotoType DEF JoinTotal, JoinPc, Moves, Waiting, PreCount
    <3>2. CASE task' = [task EXCEPT ![t].pc = "handler",
                                   ![t].payload = {task[t].member}]
      <4>1. ~task[t].joined
        BY <1>4 DEF JoinTotal, JoinInv, Unjoined, Waiting, PreCount
      <4> QED
        BY <3>2, <4>1, <1>4, LoneFacts DEF JoinTotal, Moves
    <3> QED
      BY <3>1, <3>2, <1>4 DEF JoinTotal
  <2> QED
    BY <2>1, <1>1, <1>4 DEF JoinTotal
<1>5. CASE JoinAborted(t)
  <2>1. Moves(t) /\ \A u \in Task : u # t => task'[u] = task[u]
    <3>1. CASE JGoto(t, "store")
      BY <3>1, <1>5, JGotoType DEF JoinAborted, JoinPc, Moves, Waiting, PreCount
    <3>2. CASE JEnds(t, "CANCELLED")
      BY <3>2, <1>5, JEndsType DEF JoinAborted, Moves, Status, Terminal
    <3> QED
      BY <3>1, <3>2, <1>5 DEF JoinAborted
  <2> QED
    BY <2>1, <1>1, <1>5 DEF JoinAborted
<1>6. CASE JoinHandler(t)
  <2>1. Moves(t) /\ \A u \in Task : u # t => task'[u] = task[u]
    BY <1>6, JEndsType DEF JoinHandler, Moves, Status, Terminal
  <2> QED
    BY <2>1, <1>1, <1>6 DEF JoinHandler
<1>7. CASE JoinMark(t) \/ JoinCrash(t)
  <2>1. Moves(t) /\ \A u \in Task : u # t => task'[u] = task[u]
    BY <1>7, JIdleType DEF JoinMark, JoinCrash, Moves
  <2> QED
    BY <2>1, <1>1, <1>7 DEF JoinMark, JoinCrash
<1> QED
  BY <1>2, <1>3, <1>4, <1>5, <1>6, <1>7, AdmitInv, StoreInv, CountInv,
     AggregateInv DEF JoinNext

\* Every step keeps the invariant.
LEMMA JoinNextInv == TypeOK /\ JoinInv /\ [Next]_vars => JoinInv'
<1>1. TypeOK /\ JoinInv /\ UNCHANGED vars => JoinInv'
  BY DEF vars, JoinInv, Stored, Unjoined, Admitted, CountedOnce, Waiting, Joined
<1> QED
  BY <1>1, Elsewhere, JoinStep DEF Next
-----------------------------------------------------------------------------
(* What the join promises.                                                 *)

\* Every variable keeps its type (worker.py and context.py, the Task Group).
THEOREM GroupTypeCorrect == Spec => []TypeOK
BY TypeInit, TypeNext, PTL DEF Spec

\* The invariant and the types hold in every state.
LEMMA JoinInvariant == Spec => [](TypeOK /\ JoinInv)
<1>1. Init => TypeOK /\ JoinInv
  BY TypeInit, JoinInit
<1>2. TypeOK /\ JoinInv /\ [Next]_vars => (TypeOK /\ JoinInv)'
  BY TypeNext, JoinNextInv
<1> QED
  BY <1>1, <1>2, PTL DEF Spec

\* A gate that admitted each member once has counted none twice.
LEMMA NoneAgain == TypeOK /\ JoinInv /\ NoDoubleWake => CountedOnce
<1> SUFFICES ASSUME TypeOK, JoinInv, NoDoubleWake PROVE CountedOnce
  OBVIOUS
<1>1. \A m \in Member : hist.passed[m] \in Nat /\ ~(hist.passed[m] >= 2)
  BY DEF NoDoubleWake, TypeOK, History
<1> QED
  BY <1>1 DEF JoinInv, Admitted

\* For every number of members, of runner tasks and of faults: the handler gets
\* the result of every member when the gate admits each once (worker.py, the
\* Group Join: HSET of the result before HINCRBY of the counter).
THEOREM AggregateWhole == Spec => []AggregateIsWhole
<1>1. TypeOK /\ JoinInv => AggregateIsWhole
  BY NoneAgain DEF AggregateIsWhole, CountedOnce, Joined
<1> QED
  BY <1>1, JoinInvariant, PTL

\* And it gets it once (worker.py, the answer of HINCRBY compared with total),
\* also when the group key expires and is counted up anew.
THEOREM JoinedOnce == Spec => []JoinsOnce
<1>1. TypeOK /\ JoinInv => JoinsOnce
  BY NoneAgain DEF JoinsOnce, CountedOnce
<1> QED
  BY <1>1, JoinInvariant, PTL
=============================================================================
