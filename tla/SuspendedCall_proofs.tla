----------------------- MODULE SuspendedCall_proofs -----------------------
(***************************************************************************)
(* Safety of SuspendedCall, for every set of callers, tasks and sweepers   *)
(* and every value of the bounds: its types, how often the gate lets a     *)
(* reply through, what stands behind a dropped one, and that an unanswered *)
(* call keeps its entry.                                                   *)
(***************************************************************************)
EXTENDS SuspendedCall, TLAPS

-----------------------------------------------------------------------------
(* Type correctness. *)

GatePc == {"zrem", "mark", "check", "resume"}

\* The caller and the call number of a wait determine it.
LEMMA WaitFacts ==
    /\ \A w \in Wait : w[1] \in Caller /\ w[2] \in 1..MaxCalls
                      /\ w = <<w[1], w[2]>>
    /\ \A c \in Caller, n \in 1..MaxCalls : <<c, n>> \in Wait
    /\ NoWait \notin Wait
BY NoValueAssumption, CallsAssumption DEF Wait, NoWait

\* The initial state is well typed.
LEMMA TypeInit == Init => TypeOK
BY NoValueAssumption, CallsAssumption, BoundsAssumption, WaitFacts
   DEF Init, TypeOK, TaskTypeOK, SweeperTypeOK, Score, ExecRecord, ExecStatus,
       Terminal, CalleeRecord, CalleePos, Kind, TaskRecord, TaskPc, IdleTask,
       SweeperRecord, SweeperPc, IdleSweeper, History, NoHistory

-----------------------------------------------------------------------------
(* What the updates of a task do.                                          *)

\* Moving a task on changes nothing but where it is.
LEMMA GotoFacts ==
    ASSUME TaskTypeOK, NEW t \in Task, NEW pc \in TaskPc, Goto(t, pc)
    PROVE  /\ task' \in [Task -> TaskRecord]
           /\ task'[t].pc = pc
           /\ task'[t].caller = task[t].caller
           /\ task'[t].call = task[t].call
           /\ task'[t].kind = task[t].kind
           /\ \A u \in Task : u # t => task'[u] = task[u]
BY DEF TaskTypeOK, TaskRecord, Goto

\* Moving a task on keeps it well typed.
LEMMA GotoType ==
    ASSUME TaskTypeOK, NEW t \in Task, NEW pc \in TaskPc \ {"idle"},
           Goto(t, pc), task[t].pc # "idle",
           pc \in GatePc => task[t].pc \in GatePc,
           pc \in {"sending", "unwind"} => WaitOf(t) \in Wait
    PROVE  TaskTypeOK'
<1>1. /\ task' \in [Task -> TaskRecord]
      /\ task'[t].pc = pc
      /\ task'[t].caller = task[t].caller
      /\ task'[t].call = task[t].call
      /\ task'[t].kind = task[t].kind
      /\ \A u \in Task : u # t => task'[u] = task[u]
  BY GotoFacts
<1> QED
  BY <1>1 DEF TaskTypeOK, WaitOf, GatePc

\* So does freeing it.
LEMMA IdleType ==
    ASSUME TaskTypeOK, NEW t \in Task,
           task' = [task EXCEPT ![t] = IdleTask]
    PROVE  TaskTypeOK'
BY NoValueAssumption, CallsAssumption
   DEF TaskTypeOK, WaitOf, TaskRecord, IdleTask, TaskPc

\* A task inside the gate works on a wait.
LEMMA GateTaskFacts ==
    ASSUME TaskTypeOK, NEW t \in Task, task[t].pc \in GatePc
    PROVE  WaitOf(t) \in Wait /\ task[t].kind \in Kind
           /\ task[t].caller \in Caller /\ WaitOf(t)[1] = task[t].caller
BY NoValueAssumption DEF TaskTypeOK, GatePc, TaskRecord, TaskPc, WaitOf

-----------------------------------------------------------------------------
(* Type correctness.                                                       *)

\* Writing one history keeps them all well typed.
LEMMA HistWrite ==
    ASSUME hist \in [Wait -> History], NEW w \in Wait, NEW r \in History,
           hist' = [hist EXCEPT ![w] = r]
    PROVE  hist' \in [Wait -> History]
OBVIOUS

\* A history stays one when a field gets a value of its type.
LEMMA HistoryWith ==
    ASSUME NEW r \in History, NEW n \in Nat, NEW b \in BOOLEAN,
           NEW a \in Kind \cup {"none"}
    PROVE  /\ [r EXCEPT !.allowed = n] \in History
           /\ [r EXCEPT !.reinserted = n] \in History
           /\ [r EXCEPT !.standIns = n] \in History
           /\ [r EXCEPT !.unmarked = b] \in History
           /\ [r EXCEPT !.denied = b] \in History
           /\ [r EXCEPT !.answer = a] \in History
BY DEF History

\* The types of the fields of a history.
LEMMA HistoryTypes ==
    ASSUME NEW r \in History
    PROVE  /\ r.allowed \in Nat /\ r.reinserted \in Nat /\ r.slipped \in Nat
           /\ r.failedOpen \in Nat /\ r.standIns \in Nat
           /\ r.unmarked \in BOOLEAN /\ r.lostClaim \in BOOLEAN
           /\ r.denied \in BOOLEAN /\ r.answer \in Kind \cup {"none"}
BY DEF History

\* Two fields at once: a copy that slipped through.
LEMMA TwoCounts ==
    ASSUME NEW r \in History, NEW x \in Nat, NEW y \in Nat
    PROVE  [r EXCEPT !.allowed = x, !.slipped = y] \in History
BY DEF History

\* Two fields at once: a claimant that died.
LEMMA TwoFlags ==
    ASSUME NEW r \in History, NEW b \in BOOLEAN
    PROVE  [r EXCEPT !.lostClaim = TRUE, !.unmarked = b] \in History
BY DEF History

\* Moving a callee changes nothing but where it is.
LEMMA CalleeMoves ==
    ASSUME callee \in [Wait -> CalleeRecord], NEW w \in Wait,
           NEW p \in CalleePos, callee' = [callee EXCEPT ![w].pos = p]
    PROVE  /\ callee' \in [Wait -> CalleeRecord]
           /\ callee'[w].pos = p
           /\ \A v \in Wait : v # w => callee'[v] = callee[v]
BY DEF CalleeRecord

\* The steps of the gate keep the types.
LEMMA TypeGate ==
    ASSUME TypeOK, NEW t \in Task, GateNext(t)
    PROVE  TypeOK'
<1> USE NoValueAssumption
<1>0. TaskTypeOK /\ \A pc \in GatePc : pc \in TaskPc \ {"idle"}
  BY DEF TypeOK, GatePc, TaskPc
<1>1. ASSUME NEW w \in Wait, NEW k \in Kind, GateTake(t, w, k)
      PROVE  TypeOK'
  <2>1. w[1] \in Caller /\ w[2] \in 1..MaxCalls /\ <<w[1], w[2]>> \in Wait
    BY WaitFacts
  <2>2. TaskTypeOK'
    BY <1>0, <1>1, <2>1 DEF GateTake, TaskTypeOK, TaskRecord, TaskPc, WaitOf
  <2>3. stream' \in [Wait -> [Kind -> Nat]]
    BY <1>1 DEF TypeOK, GateTake
  <2> QED
    BY <1>1, <2>2, <2>3 DEF TypeOK, GateTake, SweeperTypeOK
<1>2. CASE GateClaim(t)
  <2>1. WaitOf(t) \in Wait /\ TaskTypeOK'
    BY <1>0, <1>2, GateTaskFacts, GotoType DEF GateClaim, GatePc
  <2>2. hist' \in [Wait -> History]
    <3>0. hist[WaitOf(t)].allowed + 1 \in Nat
      BY <2>1, HistoryTypes DEF TypeOK
    <3>1. PICK n \in Nat : hist' = [hist EXCEPT ![WaitOf(t)].allowed = n]
      BY <3>0, <1>2 DEF GateClaim
    <3> DEFINE r == [hist[WaitOf(t)] EXCEPT !.allowed = n]
    <3>2. hist[WaitOf(t)] \in History /\ hist \in [Wait -> History]
      BY <2>1 DEF TypeOK
    <3>3. r \in History
      BY <3>2, HistoryWith, HistoryTypes
    <3>4. hist' = [hist EXCEPT ![WaitOf(t)] = r]
      BY <3>1
    <3> HIDE DEF r
    <3> QED
      BY <2>1, <3>2, <3>3, <3>4, HistWrite
  <2>3. index' \in [Wait -> Score]
    <3>1. index' = [index EXCEPT ![WaitOf(t)] = "absent"]
      BY <1>2 DEF GateClaim
    <3> QED
      BY <3>1, <2>1 DEF TypeOK, Score
  <2> QED
    BY <1>2, <2>1, <2>2, <2>3 DEF TypeOK, GateClaim, SweeperTypeOK
<1>3. CASE GateMiss(t)
  <2>1. TaskTypeOK'
    BY <1>0, <1>3, GotoType DEF GateMiss, GatePc
  <2> QED
    BY <1>3, <2>1 DEF TypeOK, GateMiss, SweeperTypeOK, redisVars
<1>4. CASE GateMark(t)
  <2>1. WaitOf(t) \in Wait /\ TaskTypeOK'
    BY <1>0, <1>4, GateTaskFacts, GotoType DEF GateMark, GatePc
  <2>2. hist' \in [Wait -> History]
    <3>1. CASE hist' = hist
      BY <3>1 DEF TypeOK
    <3>2. CASE hist' = [hist EXCEPT ![WaitOf(t)].unmarked = TRUE]
      <4> DEFINE r == [hist[WaitOf(t)] EXCEPT !.unmarked = TRUE]
      <4>1. hist[WaitOf(t)] \in History /\ hist \in [Wait -> History]
        BY <2>1 DEF TypeOK
      <4>2. r \in History
        BY <4>1, HistoryWith, HistoryTypes
      <4>3. hist' = [hist EXCEPT ![WaitOf(t)] = r]
        BY <3>2
      <4> HIDE DEF r
      <4> QED
        BY <2>1, <4>1, <4>2, <4>3, HistWrite
    <3> QED
      BY <1>4, <3>1, <3>2 DEF GateMark
  <2>3. faults' \in 0..MaxFaults /\ marker' \in SUBSET Wait
    BY <1>4, <2>1, BoundsAssumption DEF TypeOK, GateMark, Fault
  <2> QED
    BY <1>4, <2>1, <2>2, <2>3 DEF TypeOK, GateMark, SweeperTypeOK
<1>5. CASE GateDeny(t)
  <2>1. WaitOf(t) \in Wait /\ TaskTypeOK'
    BY <1>0, <1>5, GateTaskFacts, IdleType DEF GateDeny, GatePc
  <2>2. hist' \in [Wait -> History]
    <3> DEFINE r == [hist[WaitOf(t)] EXCEPT !.denied = TRUE]
    <3>1. hist[WaitOf(t)] \in History /\ hist \in [Wait -> History]
      BY <2>1 DEF TypeOK
    <3>2. r \in History
      BY <3>1, HistoryWith, HistoryTypes
    <3>3. hist' = [hist EXCEPT ![WaitOf(t)] = r]
      BY <1>5 DEF GateDeny
    <3> HIDE DEF r
    <3> QED
      BY <2>1, <3>1, <3>2, <3>3, HistWrite
  <2> QED
    BY <1>5, <2>1, <2>2 DEF TypeOK, GateDeny, SweeperTypeOK, redisVars
<1>6. CASE GateUnregistered(t)
  <2>1. WaitOf(t) \in Wait /\ TaskTypeOK'
    BY <1>0, <1>6, GateTaskFacts, GotoType DEF GateUnregistered, GatePc
  <2>2. hist' \in [Wait -> History]
    <3>1. PICK b \in {0, 1} :
             hist' = [hist EXCEPT ![WaitOf(t)].allowed = @ + 1,
                                  ![WaitOf(t)].slipped = @ + b]
      BY <1>6 DEF GateUnregistered
    <3>2. hist[WaitOf(t)] \in History
      BY <2>1 DEF TypeOK
    <3>3. hist[WaitOf(t)].allowed + 1 \in Nat /\ hist[WaitOf(t)].slipped + b \in Nat
      BY <3>2 DEF History
    <3>4. [hist[WaitOf(t)] EXCEPT !.allowed = @ + 1, !.slipped = @ + b] \in History
      BY <3>2, <3>3, TwoCounts
    <3> QED
      BY <3>1, <3>4, <2>1 DEF TypeOK
  <2> QED
    BY <1>6, <2>1, <2>2 DEF TypeOK, GateUnregistered, SweeperTypeOK, redisVars
<1>7. CASE GateError(t)
  <2>1. WaitOf(t) \in Wait /\ TaskTypeOK'
    BY <1>0, <1>7, GateTaskFacts, GotoType DEF GateError, GatePc
  <2>2. PICK executed \in BOOLEAN :
           LET removed == executed /\ task[t].pc = "zrem" IN
           /\ index' = [index EXCEPT
                           ![WaitOf(t)] = IF removed THEN "absent" ELSE @]
           /\ hist' = [hist EXCEPT ![WaitOf(t)].allowed = @ + 1,
                                   ![WaitOf(t)].failedOpen = @ + 1,
                                   ![WaitOf(t)].unmarked = @ \/ removed]
    BY <1>7 DEF GateError
  <2>3. hist' \in [Wait -> History]
    BY <2>1, <2>2 DEF TypeOK, History
  <2>4. index' \in [Wait -> Score]
    BY <2>1, <2>2 DEF TypeOK, Score
  <2>5. faults' \in 0..MaxFaults
    BY <1>7, BoundsAssumption DEF TypeOK, GateError, Fault
  <2> QED
    BY <1>7, <2>1, <2>3, <2>4, <2>5 DEF TypeOK, GateError, SweeperTypeOK
<1> QED
  BY <1>1, <1>2, <1>3, <1>4, <1>5, <1>6, <1>7 DEF GateNext

\* The steps of a caller keep the types.
LEMMA TypeCaller ==
    ASSUME TypeOK, NEW t \in Task, CallerNext(t) \/ TaskCrash(t)
    PROVE  TypeOK'
<1> USE NoValueAssumption
<1>0. TaskTypeOK /\ exec \in [Caller -> ExecRecord]
  BY DEF TypeOK
<1>1. ASSUME NEW c \in Caller, StartCaller(t, c)
      PROVE  TypeOK'
  <2>1. TaskTypeOK'
    BY <1>0, <1>1, CallsAssumption
       DEF StartCaller, TaskTypeOK, TaskRecord, TaskPc, WaitOf
  <2>2. exec' \in [Caller -> ExecRecord]
    BY <1>0, <1>1 DEF StartCaller, ExecRecord, ExecStatus
  <2> QED
    BY <1>1, <2>1, <2>2 DEF TypeOK, StartCaller, SweeperTypeOK, redisVars
<1>2. CASE Resume(t)
  <2>1. /\ WaitOf(t) \in Wait /\ WaitOf(t)[1] \in Caller
        /\ task[t].kind \in Kind
        /\ TaskTypeOK'
    BY <1>0, <1>2, GateTaskFacts, GotoType DEF Resume, GatePc, TaskPc
  <2>2. exec' \in [Caller -> ExecRecord]
    <3>1. exec' = [exec EXCEPT ![WaitOf(t)[1]].status = "RUNNING",
                               ![WaitOf(t)[1]].up = TRUE]
      BY <1>2 DEF Resume
    <3> QED
      BY <1>0, <2>1, <3>1 DEF ExecRecord, ExecStatus
  <2>3. hist' \in [Wait -> History]
    <3>1. PICK a \in Kind \cup {"none"} :
             hist' = [hist EXCEPT ![WaitOf(t)].answer = a]
      <4>1. hist[WaitOf(t)].answer \in Kind \cup {"none"}
        BY <2>1 DEF TypeOK, History
      <4> QED
        BY <1>2, <2>1, <4>1 DEF Resume
    <3> DEFINE r == [hist[WaitOf(t)] EXCEPT !.answer = a]
    <3>2. hist[WaitOf(t)] \in History /\ hist \in [Wait -> History]
      BY <2>1 DEF TypeOK
    <3>3. r \in History
      BY <3>2, HistoryWith, HistoryTypes
    <3>4. hist' = [hist EXCEPT ![WaitOf(t)] = r]
      BY <3>1
    <3> HIDE DEF r
    <3> QED
      BY <2>1, <3>2, <3>3, <3>4, HistWrite
  <2> QED
    BY <1>2, <2>1, <2>2, <2>3 DEF TypeOK, Resume, SweeperTypeOK, redisVars
<1>3. CASE HandlerCalls(t)
  <2> DEFINE c == task[t].caller
             w == <<c, exec[c].calls + 1>>
  <2>1. c \in Caller /\ task[t].pc = "handler"
    BY <1>0, <1>3 DEF HandlerCalls, TaskTypeOK, TaskRecord
  <2>2. exec[c].calls + 1 \in 1..MaxCalls /\ w \in Wait
    <3>1. exec[c].calls \in 0..MaxCalls
      BY <1>0, <2>1 DEF ExecRecord
    <3>2. exec[c].calls < MaxCalls
      BY <1>3 DEF HandlerCalls
    <3>3. exec[c].calls + 1 \in 1..MaxCalls
      BY <3>1, <3>2, CallsAssumption
    <3> QED
      BY <2>1, <3>3 DEF Wait
  <2>3. exec' \in [Caller -> ExecRecord]
    <3>1. exec' = [exec EXCEPT ![c].calls = @ + 1]
      BY <1>3 DEF HandlerCalls
    <3> QED
      BY <1>0, <2>1, <2>2, <3>1 DEF ExecRecord
  <2>4. callee' \in [Wait -> CalleeRecord]
    <3>1. callee' = [callee EXCEPT ![w].pos = "recorded"]
      BY <1>3 DEF HandlerCalls
    <3> HIDE DEF w
    <3> QED
      BY <2>2, <3>1, CalleeMoves DEF TypeOK, CalleePos
  <2>5. TaskTypeOK'
    <3> DEFINE n == w[2]
    <3>1. /\ task' = [task EXCEPT ![t].pc = "sending", ![t].call = n]
          /\ n \in 0..MaxCalls
      <4>1. task' = [task EXCEPT ![t].pc = "sending", ![t].call = n]
        BY <1>3 DEF HandlerCalls
      <4>2. n = exec[c].calls + 1
        OBVIOUS
      <4> HIDE DEF n
      <4>3. n \in 0..MaxCalls
        BY <4>2, <2>2, CallsAssumption
      <4> QED
        BY <4>1, <4>3
    <3> HIDE DEF n
    <3>2. /\ task' \in [Task -> TaskRecord]
          /\ task'[t].pc = "sending"
          /\ task'[t].caller = c
          /\ task'[t].call = n
          /\ \A u \in Task : u # t => task'[u] = task[u]
      <4> DEFINE r == [task[t] EXCEPT !.pc = "sending", !.call = n]
      <4>1. task[t] \in TaskRecord /\ task \in [Task -> TaskRecord]
        BY <1>0 DEF TaskTypeOK
      <4>2. /\ r \in TaskRecord
            /\ r.pc = "sending" /\ r.caller = c /\ r.call = n
        BY <4>1, <3>1 DEF TaskRecord, TaskPc
      <4>3. task' = [task EXCEPT ![t] = r]
        BY <3>1
      <4> HIDE DEF r
      <4> QED
        BY <4>1, <4>2, <4>3
    <3> QED
      BY <1>0, <2>1, <2>2, <3>2 DEF TaskTypeOK, WaitOf, n
  <2>6. index' \in [Wait -> Score]
    BY <1>3, <2>2 DEF HandlerCalls, TypeOK, Score
  <2>7. hist' \in [Wait -> History]
    <3>1. CASE hist' = hist
      BY <3>1 DEF TypeOK
    <3>2. CASE hist' = [hist EXCEPT ![w].unmarked = TRUE]
      <4> HIDE DEF w
      <4> DEFINE r == [hist[w] EXCEPT !.unmarked = TRUE]
      <4>1. hist[w] \in History /\ hist \in [Wait -> History]
        BY <2>2 DEF TypeOK
      <4>2. r \in History
        BY <4>1, HistoryWith, HistoryTypes
      <4>3. hist' = [hist EXCEPT ![w] = r]
        BY <3>2
      <4> HIDE DEF r
      <4> QED
        BY <2>2, <4>1, <4>2, <4>3, HistWrite
    <3> QED
      BY <1>3, <3>1, <3>2 DEF HandlerCalls
  <2>8. faults' \in 0..MaxFaults
    <3>1. faults' = faults \/ (faults < MaxFaults /\ faults' = faults + 1)
      BY <1>3 DEF HandlerCalls, Fault
    <3> QED
      BY <3>1, BoundsAssumption DEF TypeOK
  <2> QED
    BY <1>3, <2>3, <2>4, <2>5, <2>6, <2>7, <2>8
       DEF TypeOK, HandlerCalls, SweeperTypeOK
<1>4. CASE HandlerSends(t)
  <2>1. WaitOf(t) \in Wait /\ WaitOf(t)[1] \in Caller /\ task[t].pc = "sending"
    BY <1>0, <1>4, WaitFacts DEF HandlerSends, TaskTypeOK
  <2>2. TaskTypeOK'
    <3>1. CASE Goto(t, "unwind")
      BY <1>0, <2>1, <3>1, GotoType DEF GatePc, TaskPc
    <3>2. CASE task' = [task EXCEPT ![t] = IdleTask]
      BY <1>0, <3>2, IdleType
    <3> QED
      BY <1>4, <3>1, <3>2 DEF HandlerSends
  <2>3. exec' \in [Caller -> ExecRecord]
    <3>1. CASE exec' = [exec EXCEPT ![WaitOf(t)[1]].status = "FAILED"]
      BY <1>0, <2>1, <3>1 DEF ExecRecord, ExecStatus, Terminal
    <3> QED
      BY <1>0, <1>4, <3>1 DEF HandlerSends
  <2>4. callee' \in [Wait -> CalleeRecord]
    <3>1. CASE callee' = [callee EXCEPT ![WaitOf(t)].pos = "queued"]
      BY <2>1, <3>1, CalleeMoves DEF TypeOK, CalleePos
    <3> QED
      BY <1>4, <3>1 DEF HandlerSends, TypeOK
  <2>5. faults' \in 0..MaxFaults
    BY <1>4, BoundsAssumption DEF TypeOK, HandlerSends, Fault
  <2> QED
    BY <1>4, <2>2, <2>3, <2>4, <2>5
       DEF TypeOK, HandlerSends, SweeperTypeOK, redisVars
<1>5. CASE HandlerSuspends(t)
  <2>1. task[t].caller \in Caller /\ TaskTypeOK'
    BY <1>0, <1>5, IdleType DEF HandlerSuspends, TaskTypeOK, TaskRecord
  <2>2. exec' \in [Caller -> ExecRecord]
    BY <1>0, <1>5, <2>1 DEF HandlerSuspends, ExecRecord, ExecStatus
  <2> QED
    BY <1>5, <2>1, <2>2 DEF TypeOK, HandlerSuspends, SweeperTypeOK, redisVars
<1>6. CASE HandlerFinishes(t)
  <2>1. task[t].caller \in Caller /\ TaskTypeOK'
    BY <1>0, <1>6, IdleType DEF HandlerFinishes, TaskTypeOK, TaskRecord
  <2>2. exec' \in [Caller -> ExecRecord]
    BY <1>0, <1>6, <2>1 DEF HandlerFinishes, ExecRecord, ExecStatus, Terminal
  <2> QED
    BY <1>6, <2>1, <2>2 DEF TypeOK, HandlerFinishes, SweeperTypeOK, redisVars
<1>7. CASE TaskCrash(t)
  <2>1. task[t].caller \in Caller /\ WaitOf(t)[1] \in Caller /\ TaskTypeOK'
    BY <1>0, <1>7, IdleType DEF TaskCrash, TaskTypeOK, TaskRecord, WaitOf
  <2>2. exec' \in [Caller -> ExecRecord]
    <3>1. CASE exec' = [exec EXCEPT ![WaitOf(t)[1]].up = FALSE]
      BY <1>0, <2>1, <3>1 DEF ExecRecord
    <3> QED
      BY <1>0, <1>7, <3>1 DEF TaskCrash
  <2>3. hist' \in [Wait -> History]
    <3>1. CASE task[t].pc \in {"mark", "resume"}
      <4>1. PICK r \in BOOLEAN :
               hist' = [hist EXCEPT ![WaitOf(t)].lostClaim = TRUE,
                                    ![WaitOf(t)].unmarked = @ \/ r]
        BY <1>7, <3>1 DEF TaskCrash
      <4>2. WaitOf(t) \in Wait
        BY <1>0, <3>1, GateTaskFacts DEF GatePc
      <4>3. hist[WaitOf(t)] \in History
        BY <4>2 DEF TypeOK
      <4>4. (hist[WaitOf(t)].unmarked \/ r) \in BOOLEAN
        OBVIOUS
      <4>5. [hist[WaitOf(t)] EXCEPT !.lostClaim = TRUE, !.unmarked = @ \/ r]
               \in History
        BY <4>3, <4>4, TwoFlags
      <4> QED
        BY <4>1, <4>2, <4>5 DEF TypeOK
    <3>2. CASE task[t].pc \notin {"mark", "resume"}
      BY <1>7, <3>2 DEF TypeOK, TaskCrash
    <3> QED
      BY <3>1, <3>2
  <2>4. faults' \in 0..MaxFaults
    BY <1>7, BoundsAssumption DEF TypeOK, TaskCrash, Fault
  <2> QED
    BY <1>7, <2>1, <2>2, <2>3, <2>4
       DEF TypeOK, TaskCrash, SweeperTypeOK, redisVars
<1> QED
  BY <1>1, <1>2, <1>3, <1>4, <1>5, <1>6, <1>7 DEF CallerNext

Resting == {"idle", "fetch", "pick"}

\* Moving a sweeper on keeps it well typed.
LEMMA SGotoType ==
    ASSUME SweeperTypeOK, NEW s \in Sweeper, NEW pc \in SweeperPc \ {"emit"},
           SGoto(s, pc), pc \in Resting <=> sweeper[s].pc \in Resting
    PROVE  SweeperTypeOK'
<1>1. /\ sweeper' \in [Sweeper -> SweeperRecord]
      /\ sweeper'[s].pc = pc
      /\ sweeper'[s].wait = sweeper[s].wait
      /\ \A u \in Sweeper : u # s => sweeper'[u] = sweeper[u]
  BY DEF SweeperTypeOK, SweeperRecord, SGoto
<1> QED
  BY <1>1 DEF SweeperTypeOK, Resting

\* So does the decision to emit a stand-in.
LEMMA SweepEmitType ==
    ASSUME SweeperTypeOK, NEW s \in Sweeper, NEW k \in Kind,
           sweeper[s].pc \notin Resting, NEW b \in BOOLEAN,
           \/ sweeper' = [sweeper EXCEPT ![s].pc = "emit", ![s].kind = k]
           \/ sweeper' = [sweeper EXCEPT ![s].pc = "emit", ![s].kind = k,
                                         ![s].stop = b]
    PROVE  SweeperTypeOK'
<1>1. /\ sweeper' \in [Sweeper -> SweeperRecord]
      /\ sweeper'[s].pc = "emit"
      /\ sweeper'[s].kind = k
      /\ sweeper'[s].wait = sweeper[s].wait
      /\ \A u \in Sweeper : u # s => sweeper'[u] = sweeper[u]
  BY DEF SweeperTypeOK, SweeperRecord, SweeperPc
<1> QED
  BY <1>1 DEF SweeperTypeOK, Resting

\* So does going on to the next entry.
LEMMA SweepNextEntryType ==
    ASSUME SweeperTypeOK, NEW s \in Sweeper,
           NextEntry(s)
    PROVE  SweeperTypeOK'
<1> USE DEF NextEntry
<1>1. ASSUME NEW r \in SweeperRecord, NEW pc \in SweeperPc,
             NEW w \in Wait \cup {NoWait}, NEW k \in Kind \cup {"none"},
             NEW b \in BOOLEAN
      PROVE  [r EXCEPT !.pc = pc, !.wait = w, !.kind = k, !.stop = b]
                \in SweeperRecord
  BY DEF SweeperRecord
<1>2. sweeper' \in [Sweeper -> SweeperRecord]
  <2>1. sweeper[s] \in SweeperRecord /\ "pick" \in SweeperPc
    BY DEF SweeperTypeOK, SweeperPc
  <2>2. [sweeper[s] EXCEPT !.pc = "pick", !.wait = NoWait, !.kind = "none",
                           !.stop = FALSE] \in SweeperRecord
    BY <1>1, <2>1
  <2> QED
    BY <2>2 DEF SweeperTypeOK
<1>3. /\ sweeper'[s].pc = "pick"
      /\ sweeper'[s].wait = NoWait
      /\ \A u \in Sweeper : u # s => sweeper'[u] = sweeper[u]
  BY DEF SweeperTypeOK, SweeperRecord
<1> QED
  BY <1>2, <1>3 DEF SweeperTypeOK

\* A sweeper at work on an entry has a wait.
LEMMA TriageFacts ==
    ASSUME SweeperTypeOK, NEW s \in Sweeper, sweeper[s].pc \notin Resting
    PROVE  sweeper[s].wait \in Wait
BY DEF SweeperTypeOK, SweeperRecord, Resting

\* The steps of a sweeper keep the types.
LEMMA TypeSweep ==
    ASSUME TypeOK, NEW s \in Sweeper,
           SweepNext(s) \/ SweepError(s) \/ SweepCrash(s)
    PROVE  TypeOK'
<1> USE NoValueAssumption
<1>0. SweeperTypeOK
  BY DEF TypeOK
<1>1. CASE SweepLock(s)
  <2>1. SweeperTypeOK'
    BY <1>0, <1>1, SGotoType DEF SweepLock, Resting, SweeperPc
  <2> QED
    BY <1>1, <2>1 DEF TypeOK, SweepLock, TaskTypeOK, WaitOf, redisVars
<1>2. CASE SweepFetch(s)
  <2>1. PICK S \in SUBSET Wait :
           sweeper' = [sweeper EXCEPT ![s].pc = "pick", ![s].todo = S]
    BY <1>2 DEF SweepFetch
  <2>2. /\ sweeper' \in [Sweeper -> SweeperRecord]
        /\ sweeper'[s].pc = "pick"
        /\ sweeper'[s].wait = sweeper[s].wait
        /\ \A u \in Sweeper : u # s => sweeper'[u] = sweeper[u]
    <3>1. sweeper[s] \in SweeperRecord /\ "pick" \in SweeperPc
      BY <1>0 DEF SweeperTypeOK, SweeperPc
    <3>2. ASSUME NEW r \in SweeperRecord, NEW pc \in SweeperPc
          PROVE  /\ [r EXCEPT !.pc = pc, !.todo = S] \in SweeperRecord
                 /\ [r EXCEPT !.pc = pc, !.todo = S].pc = pc
                 /\ [r EXCEPT !.pc = pc, !.todo = S].wait = r.wait
      BY DEF SweeperRecord
    <3>3. sweeper' = [sweeper EXCEPT ![s] = [@ EXCEPT !.pc = "pick", !.todo = S]]
      BY <2>1
    <3>4. /\ sweeper'[s] = [sweeper[s] EXCEPT !.pc = "pick", !.todo = S]
          /\ \A u \in Sweeper : u # s => sweeper'[u] = sweeper[u]
          /\ sweeper' \in [Sweeper -> SweeperRecord]
      BY <1>0, <3>1, <3>2, <3>3 DEF SweeperTypeOK
    <3>5. /\ sweeper'[s].pc = "pick"
          /\ sweeper'[s].wait = sweeper[s].wait
      <4> DEFINE r == sweeper[s]
      <4>1. r \in SweeperRecord /\ sweeper'[s] = [r EXCEPT !.pc = "pick", !.todo = S]
        BY <3>1, <3>4
      <4> HIDE DEF r
      <4>2. sweeper'[s].pc = "pick" /\ sweeper'[s].wait = r.wait
        BY <4>1 DEF SweeperRecord
      <4> QED
        BY <4>2 DEF r
    <3> QED
      BY <3>4, <3>5
  <2>3. SweeperTypeOK'
    BY <1>0, <1>2, <2>2 DEF SweeperTypeOK, SweepFetch
  <2> QED
    BY <1>2, <2>3 DEF TypeOK, SweepFetch, TaskTypeOK, WaitOf, redisVars
<1>3. ASSUME NEW w \in Wait, SweepPick(s, w)
      PROVE  TypeOK'
  <2>1. /\ sweeper' \in [Sweeper -> SweeperRecord]
        /\ sweeper'[s].pc = "caller"
        /\ sweeper'[s].wait = w
        /\ \A u \in Sweeper : u # s => sweeper'[u] = sweeper[u]
    BY <1>0, <1>3 DEF SweepPick, SweeperTypeOK, SweeperRecord, SweeperPc
  <2>2. SweeperTypeOK'
    BY <1>0, <2>1, WaitFacts DEF SweeperTypeOK
  <2> QED
    BY <1>3, <2>2 DEF TypeOK, SweepPick, TaskTypeOK, WaitOf, redisVars
<1>4. CASE SweepRelease(s)
  <2>1. SweeperTypeOK'
    BY <1>0, <1>4
       DEF SweepRelease, IdleSweeper, SweeperTypeOK, SweeperRecord, SweeperPc
  <2> QED
    BY <1>4, <2>1 DEF TypeOK, SweepRelease, TaskTypeOK, WaitOf, redisVars
<1>5. CASE SweepReadCaller(s)
  <2>1. SweeperTypeOK'
    BY <1>0, <1>5, SGotoType DEF SweepReadCaller, Resting, SweeperPc
  <2> QED
    BY <1>5, <2>1 DEF TypeOK, SweepReadCaller, TaskTypeOK, WaitOf, redisVars
<1>6. CASE SweepReadOwner(s)
  <2>1. SweeperTypeOK'
    BY <1>0, <1>6, SGotoType DEF SweepReadOwner, Resting, SweeperPc
  <2> QED
    BY <1>6, <2>1 DEF TypeOK, SweepReadOwner, TaskTypeOK, WaitOf, redisVars
<1>7. CASE SweepReadChild(s)
  <2>1. SweeperTypeOK'
    BY <1>0, <1>7, SGotoType, SweepEmitType
       DEF SweepReadChild, Resting, SweeperPc, Kind
  <2> QED
    BY <1>7, <2>1 DEF TypeOK, SweepReadChild, TaskTypeOK, WaitOf, redisVars
<1>8. CASE SweepReadLease(s)
  <2>1. SweeperTypeOK'
    <3>1. CASE SGoto(s, "extend")
      BY <1>0, <1>8, <3>1, SGotoType DEF SweepReadLease, Resting, SweeperPc
    <3>2. CASE ~SGoto(s, "extend")
      <4>1. sweeper[s].wait \in Wait /\ sweeper[s].pc \notin Resting
        BY <1>0, <1>8, TriageFacts DEF SweepReadLease, Resting
      <4>2. callee[sweeper[s].wait].lease \in BOOLEAN
        BY <4>1 DEF TypeOK, CalleeRecord
      <4>3. sweeper' = [sweeper EXCEPT
                           ![s].pc = "emit", ![s].kind = "failure",
                           ![s].stop = callee[sweeper[s].wait].lease]
        BY <1>8, <3>2 DEF SweepReadLease
      <4> QED
        BY <1>0, <4>1, <4>2, <4>3, SweepEmitType DEF Kind
    <3> QED
      BY <3>1, <3>2
  <2> QED
    BY <1>8, <2>1 DEF TypeOK, SweepReadLease, TaskTypeOK, WaitOf, redisVars
<1>9. CASE SweepReadResult(s)
  <2>1. PICK k \in Kind :
           sweeper' = [sweeper EXCEPT ![s].pc = "emit", ![s].kind = k]
    BY <1>9 DEF SweepReadResult, Kind
  <2>2. SweeperTypeOK'
    BY <1>0, <1>9, <2>1, SweepEmitType DEF SweepReadResult, Resting
  <2> QED
    BY <1>9, <2>2 DEF TypeOK, SweepReadResult, TaskTypeOK, WaitOf, redisVars
<1>10. CASE SweepEmit(s)
  <2>1. /\ sweeper[s].wait \in Wait
        /\ sweeper[s].kind \in Kind
        /\ SweeperTypeOK'
    BY <1>0, <1>10, SGotoType, TriageFacts
       DEF SweepEmit, Resting, SweeperPc, SweeperTypeOK
  <2>2. hist' \in [Wait -> History]
    <3> DEFINE w == sweeper[s].wait
    <3>0. hist[w].standIns + 1 \in Nat
      BY <2>1, HistoryTypes DEF TypeOK
    <3>1. PICK n \in Nat : w \in Wait /\ hist' = [hist EXCEPT ![w].standIns = n]
      BY <3>0, <1>10, <2>1 DEF SweepEmit
    <3> HIDE DEF w
    <3> DEFINE r == [hist[w] EXCEPT !.standIns = n]
    <3>2. hist[w] \in History /\ hist \in [Wait -> History]
      BY <3>1 DEF TypeOK
    <3>3. r \in History
      BY <3>2, HistoryWith, HistoryTypes
    <3>4. hist' = [hist EXCEPT ![w] = r]
      BY <3>1
    <3> HIDE DEF r
    <3> QED
      BY <3>1, <3>2, <3>3, <3>4, HistWrite
  <2>3. stream' \in [Wait -> [Kind -> Nat]]
    <3>1. stream' = [stream EXCEPT ![sweeper[s].wait][sweeper[s].kind] = @ + 1]
      BY <1>10 DEF SweepEmit, Deliver
    <3> QED
      BY <2>1, <3>1 DEF TypeOK
  <2> QED
    BY <1>10, <2>1, <2>2, <2>3 DEF TypeOK, SweepEmit, TaskTypeOK, WaitOf
<1>11. CASE SweepExtend(s)
  <2>1. sweeper[s].wait \in Wait /\ SweeperTypeOK'
    <3>1. CASE SGoto(s, "cancel")
      BY <1>0, <1>11, <3>1, SGotoType, TriageFacts
         DEF SweepExtend, Resting, SweeperPc
    <3>2. CASE NextEntry(s)
      BY <1>0, <1>11, <3>2, SweepNextEntryType, TriageFacts DEF SweepExtend, Resting
    <3> QED
      BY <1>11, <3>1, <3>2 DEF SweepExtend
  <2>2. hist' \in [Wait -> History]
    <3> DEFINE w == sweeper[s].wait
    <3>0. w \in Wait
      BY <2>1
    <3>1. PICK a \in Nat : hist' = [hist EXCEPT ![w].reinserted = a]
      <4>1. hist[w].reinserted + 0 \in Nat /\ hist[w].reinserted + 1 \in Nat
        BY <2>1 DEF TypeOK, History
      <4> QED
        BY <1>11, <4>1 DEF SweepExtend
    <3> HIDE DEF w
    <3> DEFINE r == [hist[w] EXCEPT !.reinserted = a]
    <3>2. hist[w] \in History /\ hist \in [Wait -> History]
      BY <3>0 DEF TypeOK
    <3>3. r \in History
      BY <3>2, HistoryWith, HistoryTypes
    <3>4. hist' = [hist EXCEPT ![w] = r]
      BY <3>1
    <3> HIDE DEF r
    <3> QED
      BY <3>0, <3>2, <3>3, <3>4, HistWrite
  <2>3. index' \in [Wait -> Score]
    BY <1>11, <2>1 DEF SweepExtend, TypeOK, Score
  <2> QED
    BY <1>11, <2>1, <2>2, <2>3 DEF TypeOK, SweepExtend, TaskTypeOK, WaitOf
<1>12. CASE SweepDrop(s)
  <2>1. sweeper[s].wait \in Wait /\ SweeperTypeOK'
    BY <1>0, <1>12, SweepNextEntryType, TriageFacts DEF SweepDrop, Resting
  <2>2. hist' \in [Wait -> History]
    <3> DEFINE w == sweeper[s].wait
    <3>1. w \in Wait
      BY <2>1
    <3>2. PICK b \in BOOLEAN : hist' = [hist EXCEPT ![w].unmarked = b]
      BY <1>12 DEF SweepDrop
    <3> HIDE DEF w
    <3> DEFINE r == [hist[w] EXCEPT !.unmarked = b]
    <3>3. hist[w] \in History /\ hist \in [Wait -> History]
      BY <3>1 DEF TypeOK
    <3>4. r \in History
      BY <3>3, HistoryWith, HistoryTypes
    <3>5. hist' = [hist EXCEPT ![w] = r]
      BY <3>2
    <3> HIDE DEF r
    <3> QED
      BY <3>1, <3>3, <3>4, <3>5, HistWrite
  <2>3. index' \in [Wait -> Score]
    BY <1>12, <2>1 DEF SweepDrop, TypeOK, Score
  <2> QED
    BY <1>12, <2>1, <2>2, <2>3 DEF TypeOK, SweepDrop, TaskTypeOK, WaitOf
<1>13. CASE SweepCancel(s)
  <2>1. sweeper[s].wait \in Wait /\ SweeperTypeOK'
    BY <1>0, <1>13, SweepNextEntryType, TriageFacts DEF SweepCancel, Resting
  <2>2. callee' \in [Wait -> CalleeRecord]
    <3>1. PICK w \in Wait : w = sweeper[s].wait
      BY <2>1
    <3>2. CASE callee' = callee
      BY <3>2 DEF TypeOK
    <3>3. CASE callee' # callee
      <4>1. PICK p \in CalleePos :
               callee' = [callee EXCEPT ![w].cancel = "sent", ![w].pos = p]
        <5>1. callee[w].pos \in CalleePos
          BY <3>1 DEF TypeOK, CalleeRecord
        <5> QED
          BY <1>13, <3>1, <3>3, <5>1 DEF SweepCancel, CalleePos
      <4>2. ASSUME NEW r \in CalleeRecord, NEW q \in CalleePos
            PROVE  [r EXCEPT !.cancel = "sent", !.pos = q] \in CalleeRecord
        BY DEF CalleeRecord
      <4> QED
        BY <4>1, <4>2 DEF TypeOK
    <3> QED
      BY <3>2, <3>3
  <2> QED
    BY <1>13, <2>1, <2>2 DEF TypeOK, SweepCancel, TaskTypeOK, WaitOf, redisVars
<1>14. CASE SweepError(s)
  <2>1. SweeperTypeOK'
    BY <1>0, <1>14, SweepNextEntryType DEF SweepError
  <2>2. faults' \in 0..MaxFaults
    BY <1>14, BoundsAssumption DEF TypeOK, SweepError, Fault
  <2> QED
    BY <1>14, <2>1, <2>2 DEF TypeOK, SweepError, TaskTypeOK, WaitOf, redisVars
<1>15. CASE SweepCrash(s)
  <2>1. SweeperTypeOK'
    BY <1>0, <1>15
       DEF SweepCrash, IdleSweeper, SweeperTypeOK, SweeperRecord, SweeperPc
  <2>2. faults' \in 0..MaxFaults
    BY <1>15, BoundsAssumption DEF TypeOK, SweepCrash, Fault
  <2> QED
    BY <1>15, <2>1, <2>2 DEF TypeOK, SweepCrash, TaskTypeOK, WaitOf, redisVars
<1> QED
  BY <1>1, <1>2, <1>3, <1>4, <1>5, <1>6, <1>7, <1>8, <1>9, <1>10, <1>11, <1>12,
     <1>13, <1>14, <1>15
     DEF SweepNext

\* The steps of a callee keep the types.
LEMMA TypeCallee ==
    ASSUME TypeOK, NEW w \in Wait, CalleeNext(w)
    PROVE  TypeOK'
<1>0. /\ callee \in [Wait -> CalleeRecord]
      /\ callee[w] \in CalleeRecord
      /\ stream \in [Wait -> [Kind -> Nat]]
  BY DEF TypeOK
<1>1. CalleeUnchanged => (index' \in [Wait -> Score] /\ marker' \in SUBSET Wait
         /\ exec' \in [Caller -> ExecRecord] /\ TaskTypeOK'
         /\ SweeperTypeOK' /\ lock' \in Sweeper \cup {NoSweeper}
         /\ hist' \in [Wait -> History])
  BY DEF TypeOK, CalleeUnchanged, TaskTypeOK, SweeperTypeOK, WaitOf
<1>2. SUFFICES /\ callee' \in [Wait -> CalleeRecord]
               /\ stream' \in [Wait -> [Kind -> Nat]]
               /\ faults' \in 0..MaxFaults
               /\ CalleeUnchanged
  BY <1>1, <1>2 DEF TypeOK
<1>3. CASE CalleeRuns(w)
  <2>1. callee' \in [Wait -> CalleeRecord]
    <3>1. CASE callee' = [callee EXCEPT ![w].pos = "running", ![w].alive = TRUE,
                                        ![w].lease = TRUE]
      BY <1>0, <3>1 DEF CalleeRecord, CalleePos
    <3>2. CASE callee' = [callee EXCEPT ![w].pos = "failing", ![w].alive = TRUE,
                                        ![w].lease = TRUE,
                                        ![w].stored = "failure"]
      BY <1>0, <3>2 DEF CalleeRecord, CalleePos, Kind
    <3> QED
      BY <1>3, <3>1, <3>2 DEF CalleeRuns
  <2> QED
    BY <1>0, <1>3, <2>1 DEF CalleeRuns, TypeOK
<1>4. CASE CalleeSuspends(w)
  <2>1. callee[w].calls + 1 \in 0..MaxNested
    BY <1>0, <1>4, BoundsAssumption DEF CalleeSuspends, CalleeRecord
  <2>2. callee' \in [Wait -> CalleeRecord]
    BY <1>0, <1>4, <2>1 DEF CalleeSuspends, CalleeRecord, CalleePos
  <2> QED
    BY <1>0, <1>4, <2>2 DEF CalleeSuspends, TypeOK
<1>5. CASE CalleeStores(w)
  <2>1. callee' \in [Wait -> CalleeRecord]
    BY <1>0, <1>5 DEF CalleeStores, CalleeRecord, CalleePos, Kind
  <2> QED
    BY <1>0, <1>5, <2>1, BoundsAssumption DEF CalleeStores, TypeOK, Fault
<1>6. CASE CalleeReplies(w)
  <2>1. callee' \in [Wait -> CalleeRecord]
    <3>1. CASE callee' = [callee EXCEPT ![w].pos = "replied"]
      BY <1>0, <3>1, CalleeMoves DEF CalleePos
    <3>2. CASE callee' = [callee EXCEPT ![w].pos = "failing",
                                        ![w].stored = "failure"]
      BY <1>0, <3>2 DEF CalleeRecord, CalleePos, Kind
    <3> QED
      BY <1>6, <3>1, <3>2 DEF CalleeReplies
  <2>2. stream' \in [Wait -> [Kind -> Nat]]
    BY <1>0, <1>6 DEF CalleeReplies, Deliver, Kind
  <2>3. faults' \in 0..MaxFaults
    BY <1>6, BoundsAssumption DEF CalleeReplies, TypeOK, Fault
  <2> QED
    BY <1>6, <2>1, <2>2, <2>3 DEF CalleeReplies
<1>7. CASE CalleeFinishes(w)
  BY <1>0, <1>7 DEF CalleeFinishes, TypeOK, CalleeRecord, CalleePos
<1>8. CASE CalleeCrash(w)
  <2>1. callee' \in [Wait -> CalleeRecord]
    BY <1>0, <1>8 DEF CalleeCrash, CalleeRecord
  <2> QED
    BY <1>0, <1>8, <2>1, BoundsAssumption DEF CalleeCrash, TypeOK, Fault
<1>9. CASE LeaseLapses(w)
  BY <1>0, <1>9 DEF LeaseLapses, TypeOK, CalleeRecord
<1>10. CASE CeilingPasses(w)
  BY <1>0, <1>10 DEF CeilingPasses, TypeOK, CalleeRecord
<1>11. CASE CalleeCancelled(w)
  <2>1. callee' \in [Wait -> CalleeRecord]
    <3>1. CASE callee' = [callee EXCEPT ![w].pos = "failing",
                                        ![w].stored = "failure",
                                        ![w].cancel = "landed"]
      BY <1>0, <3>1 DEF CalleeRecord, CalleePos, Kind
    <3>2. CASE callee' = [callee EXCEPT ![w].alive = FALSE,
                                        ![w].cancel = "landed"]
      BY <1>0, <3>2 DEF CalleeRecord
    <3> QED
      BY <1>11, <3>1, <3>2 DEF CalleeCancelled
  <2> QED
    BY <1>0, <1>11, <2>1 DEF CalleeCancelled, TypeOK
<1>12. CASE LeaseReturns(w)
  BY <1>0, <1>12 DEF LeaseReturns, TypeOK, CalleeRecord
<1> QED
  BY <1>3, <1>4, <1>5, <1>6, <1>7, <1>8, <1>9, <1>10, <1>11, <1>12
     DEF CalleeNext

\* Every step keeps the types.
LEMMA TypeNext == TypeOK /\ [Next]_vars => TypeOK'
<1> SUFFICES ASSUME TypeOK, [Next]_vars PROVE TypeOK'
  OBVIOUS
<1>1. ASSUME NEW w \in Wait, DeadlinePasses(w)
      PROVE  TypeOK'
  BY <1>1 DEF TypeOK, DeadlinePasses, Score, TaskTypeOK, SweeperTypeOK, WaitOf
<1>2. CASE SweepLockExpires
  BY <1>2 DEF TypeOK, SweepLockExpires, TaskTypeOK, SweeperTypeOK, WaitOf,
              redisVars
<1>3. CASE UNCHANGED vars
  BY <1>3 DEF TypeOK, vars, TaskTypeOK, SweeperTypeOK, WaitOf
<1> QED
  BY <1>1, <1>2, <1>3, TypeGate, TypeCaller, TypeSweep, TypeCallee DEF Next

\* Every reachable state has its type: in particular a task inside the gate
\* always works on a wait, and a sweeper inside a triage does.
THEOREM TypeCorrect == Spec => []TypeOK
BY TypeInit, TypeNext, PTL DEF Spec

-----------------------------------------------------------------------------
\* The call has not been made.
Fresh(w) == w[2] > exec[w[1]].calls

\* Nothing refers to a wait before its call is made.
Untouched(w) ==
    /\ index[w] = "absent"
    /\ hist[w].allowed = 0
    /\ callee[w].pos = "none"
    /\ \A k \in Kind : stream[w][k] = 0
    /\ \A t \in Task : task[t].pc \in GatePc \cup {"sending"} => WaitOf(t) # w
    /\ \A s \in Sweeper : sweeper[s].wait # w /\ w \notin sweeper[s].todo

FreshIsUntouched == \A w \in Wait : Fresh(w) => Untouched(w)

\* Why an entry is missing: a marker is out, about to be, or never will be.
Explained(w) == w \in marker \/ InWindow(w) \/ hist[w].unmarked

MissIsExplained ==
    /\ \A w \in Wait : ~Fresh(w) /\ index[w] = "absent" => Explained(w)
    /\ \A t \in Task : task[t].pc = "check" => Explained(WaitOf(t))

\* Who stands behind a marker.
Held(w) == hist[w].answer # "none" \/ Claimed(w) \/ hist[w].lostClaim

MarkerIsHeld ==
    \A w \in Wait : /\ w \in marker => Held(w)
                    /\ hist[w].denied => w \in marker

Inv == TypeOK /\ WakeAccounting /\ FreshIsUntouched /\ MissIsExplained
              /\ MarkerIsHeld


-----------------------------------------------------------------------------
(* Steps that leave alone most of what the invariant is about.             *)

\* Only the wait w, whose call has been made, is touched.
LEMMA FreshKept ==
    ASSUME FreshIsUntouched, NEW w,
           \A v \in Wait : Fresh(v)' => Fresh(v) /\ v # w,
           \A v \in Wait : v # w => /\ index'[v] = index[v]
                                   /\ hist'[v].allowed = hist[v].allowed
                                   /\ callee'[v].pos = callee[v].pos
                                   /\ stream'[v] = stream[v],
           \A u \in Task : task'[u].pc \in GatePc \cup {"sending"} =>
               \/ task'[u] = task[u]
               \/ WaitOf(u)' = w,
           \A s \in Sweeper : /\ sweeper'[s].wait \in {sweeper[s].wait, w, NoWait}
                              /\ sweeper'[s].todo \subseteq sweeper[s].todo
    PROVE  FreshIsUntouched'
<1> SUFFICES ASSUME NEW v \in Wait, Fresh(v)'
             PROVE  Untouched(v)'
  BY DEF FreshIsUntouched
<1>1. Untouched(v) /\ v # w /\ v # NoWait
  BY WaitFacts DEF FreshIsUntouched
<1> QED
  BY <1>1 DEF Untouched, WaitOf

\* Entries, markers, tasks and histories are left alone.
LEMMA QuietStep ==
    ASSUME Inv, UNCHANGED <<index, marker, exec, task, hist>>
    PROVE  WakeAccounting' /\ MissIsExplained' /\ MarkerIsHeld'
BY DEF Inv, WakeAccounting, Present, MissIsExplained, Explained, InWindow,
       Fresh, MarkerIsHeld, Held, Claimed, WaitOf

\* One task that holds no claim does something else.
LEMMA QuietTask ==
    ASSUME Inv, NEW t \in Task, UNCHANGED <<index, marker, hist>>,
           \A c \in Caller : exec'[c].calls = exec[c].calls,
           task[t].pc \notin {"mark", "resume"}, task'[t].pc # "check",
           \A u \in Task : u # t => task'[u] = task[u]
    PROVE  WakeAccounting' /\ MissIsExplained' /\ MarkerIsHeld'
<1>1. WakeAccounting'
  BY DEF Inv, WakeAccounting, Present
<1>2. \A v \in Wait : /\ InWindow(v) => InWindow(v)'
                      /\ Claimed(v) => Claimed(v)'
                      /\ Fresh(v)' = Fresh(v)
  BY WaitFacts DEF InWindow, Claimed, WaitOf, Fresh
<1>3. MissIsExplained'
  BY <1>2, GateTaskFacts DEF Inv, TypeOK, MissIsExplained, Explained, WaitOf, GatePc
<1>4. MarkerIsHeld'
  BY <1>2 DEF Inv, MarkerIsHeld, Held
<1> QED
  BY <1>1, <1>3, <1>4

-----------------------------------------------------------------------------
(* The gate.                                                               *)

\* What a gate step does to the tasks: t, working on w, moves to pc.
LEMMA GateGoto ==
    ASSUME Inv, NEW t \in Task, task[t].pc \in GatePc,
           NEW pc \in TaskPc, Goto(t, pc)
    PROVE  /\ WaitOf(t) \in Wait
           /\ ~Fresh(WaitOf(t))
           /\ task'[t].pc = pc
           /\ WaitOf(t)' = WaitOf(t)
           /\ \A u \in Task : u # t => task'[u] = task[u] /\ WaitOf(u)' = WaitOf(u)
<1>1. TaskTypeOK
  BY DEF Inv, TypeOK
<1>2. WaitOf(t) \in Wait
  BY <1>1, GateTaskFacts
<1>3. ~Fresh(WaitOf(t))
  BY <1>2 DEF Inv, FreshIsUntouched, Untouched
<1> QED
  BY <1>1, <1>2, <1>3, GotoFacts DEF WaitOf

\* A copy taken from the stream.
LEMMA StepGateTake ==
    ASSUME Inv, NEW t \in Task, NEW w \in Wait, NEW k \in Kind, GateTake(t, w, k)
    PROVE  WakeAccounting' /\ FreshIsUntouched' /\ MissIsExplained' /\ MarkerIsHeld'
<1>1. /\ task'[t].pc = "zrem"
      /\ WaitOf(t)' = <<w[1], w[2]>>
      /\ \A u \in Task : u # t => task'[u] = task[u]
  BY DEF GateTake, Inv, TypeOK, TaskTypeOK, WaitOf
<1>2. ~Fresh(w)
  BY DEF GateTake, Inv, FreshIsUntouched, Untouched
<1>3. /\ WaitOf(t)' = w
      /\ \A v \in Wait : v # w => stream'[v] = stream[v]
  BY <1>1, WaitFacts DEF GateTake, Inv, TypeOK
<1>4. FreshIsUntouched'
  BY <1>1, <1>2, <1>3, FreshKept DEF GateTake, Inv, Fresh
<1> QED
  BY <1>1, <1>4, QuietTask DEF GateTake

\* The claim: one more copy allowed, one entry less.
LEMMA StepGateClaim ==
    ASSUME Inv, NEW t \in Task, GateClaim(t)
    PROVE  WakeAccounting' /\ FreshIsUntouched' /\ MissIsExplained' /\ MarkerIsHeld'
<1>0. PICK w \in Wait : w = WaitOf(t)
  BY GateGoto DEF GateClaim, GatePc, TaskPc
<1>1. /\ ~Fresh(w)
      /\ task[t].pc = "zrem" /\ task'[t].pc = "mark"
      /\ WaitOf(t)' = w
      /\ \A u \in Task : u # t => task'[u] = task[u] /\ WaitOf(u)' = WaitOf(u)
  BY <1>0, GateGoto DEF GateClaim, GatePc, TaskPc
<1>2. /\ index'[w] = "absent" /\ index[w] # "absent"
      /\ \A v \in Wait : v # w => index'[v] = index[v]
  BY <1>0 DEF GateClaim, Inv, TypeOK
<1>3. hist' = [hist EXCEPT ![w].allowed = @ + 1]
  BY <1>0 DEF GateClaim
<1>4. UNCHANGED <<marker, stream, exec, callee, sweeper>>
  BY DEF GateClaim
<1>5. /\ \A v \in Wait : v # w => hist'[v] = hist[v]
      /\ hist'[w].allowed = hist[w].allowed + 1
      /\ hist'[w].reinserted = hist[w].reinserted
      /\ hist'[w].slipped = hist[w].slipped
      /\ hist'[w].failedOpen = hist[w].failedOpen
      /\ hist'[w].unmarked = hist[w].unmarked
      /\ hist'[w].lostClaim = hist[w].lostClaim
      /\ hist'[w].denied = hist[w].denied
      /\ hist'[w].answer = hist[w].answer
  BY <1>1, <1>3 DEF Inv, TypeOK, History
<1>6. FreshIsUntouched'
  BY <1>1, <1>2, <1>4, <1>5, FreshKept DEF Inv, Fresh
<1>7. MissIsExplained'
  <2>1. InWindow(w)' /\ \A v \in Wait : Explained(v) => Explained(v)'
    BY <1>1, <1>4, <1>5 DEF Explained, InWindow
  <2>2. \A v \in Wait : Fresh(v)' = Fresh(v)
    BY <1>4 DEF Fresh
  <2>3. \A u \in Task : task[u].pc = "check" => WaitOf(u) \in Wait
    BY GateTaskFacts DEF Inv, TypeOK, GatePc
  <2> QED
    BY <1>1, <1>2, <2>1, <2>2, <2>3 DEF Inv, MissIsExplained, Explained
<1>8. MarkerIsHeld'
  BY <1>1, <1>4, <1>5 DEF Inv, MarkerIsHeld, Held, Claimed
<1>9. WakeAccounting'
  BY <1>1, <1>2, <1>5 DEF Inv, TypeOK, History, WakeAccounting, Present
<1> QED
  BY <1>6, <1>7, <1>8, <1>9

\* No entry: the absence is accounted for by whoever removed it.
LEMMA StepGateMiss ==
    ASSUME Inv, NEW t \in Task, GateMiss(t)
    PROVE  WakeAccounting' /\ FreshIsUntouched' /\ MissIsExplained' /\ MarkerIsHeld'
<1>0. PICK w \in Wait : w = WaitOf(t)
  BY GateGoto DEF GateMiss, GatePc, TaskPc
<1>1. /\ ~Fresh(w)
      /\ task[t].pc = "zrem" /\ task'[t].pc = "check"
      /\ WaitOf(t)' = w
      /\ \A u \in Task : u # t => task'[u] = task[u] /\ WaitOf(u)' = WaitOf(u)
      /\ index[w] = "absent"
  BY <1>0, GateGoto DEF GateMiss, GatePc, TaskPc
<1>2. UNCHANGED <<index, marker, stream, exec, callee, sweeper, hist>>
  BY DEF GateMiss, redisVars
<1>3. FreshIsUntouched'
  BY <1>1, <1>2, FreshKept DEF Inv, Fresh
<1>4. MissIsExplained'
  BY <1>1, <1>2 DEF Inv, MissIsExplained, Explained, Fresh, InWindow
<1>5. MarkerIsHeld'
  BY <1>1, <1>2 DEF Inv, MarkerIsHeld, Held, Claimed
<1>6. WakeAccounting'
  BY <1>2 DEF Inv, WakeAccounting, Present
<1> QED
  BY <1>3, <1>4, <1>5, <1>6

\* The claimant leaves the window with its marker out or lost.
LEMMA StepGateMark ==
    ASSUME Inv, NEW t \in Task, GateMark(t)
    PROVE  WakeAccounting' /\ FreshIsUntouched' /\ MissIsExplained' /\ MarkerIsHeld'
<1>0. PICK w \in Wait : w = WaitOf(t)
  BY GateGoto DEF GateMark, GatePc, TaskPc
<1>1. /\ ~Fresh(w)
      /\ task[t].pc = "mark" /\ task'[t].pc = "resume"
      /\ WaitOf(t)' = w
      /\ \A u \in Task : u # t => task'[u] = task[u] /\ WaitOf(u)' = WaitOf(u)
  BY <1>0, GateGoto DEF GateMark, GatePc, TaskPc
<1>2. UNCHANGED <<index, stream, exec, callee, sweeper>>
  BY DEF GateMark
<1>3. \/ marker' = marker \cup {w} /\ hist' = hist
      \/ marker' = marker /\ hist' = [hist EXCEPT ![w].unmarked = TRUE]
  BY <1>0 DEF GateMark
<1>4. /\ \A v \in Wait : v # w => hist'[v] = hist[v]
      /\ hist'[w].allowed = hist[w].allowed
      /\ hist'[w].reinserted = hist[w].reinserted
      /\ hist'[w].slipped = hist[w].slipped
      /\ hist'[w].failedOpen = hist[w].failedOpen
      /\ hist'[w].unmarked = hist[w].unmarked \/ hist'[w].unmarked
      /\ hist'[w].lostClaim = hist[w].lostClaim
      /\ hist'[w].denied = hist[w].denied
      /\ hist'[w].answer = hist[w].answer
      /\ w \in marker' \/ hist'[w].unmarked
  BY <1>1, <1>3 DEF Inv, TypeOK, History
<1>5. FreshIsUntouched'
  BY <1>1, <1>2, <1>4, FreshKept DEF Inv, Fresh
<1>6. MissIsExplained'
  <2>1. \A v \in Wait : Explained(v) => Explained(v)'
    <3>1. Explained(w)'
      BY <1>4 DEF Explained
    <3>2. ASSUME NEW v \in Wait, v # w, Explained(v)
          PROVE  Explained(v)'
      BY <1>0, <1>1, <1>3, <1>4, <3>2 DEF Explained, InWindow
    <3> QED
      BY <3>1, <3>2
  <2>2. \A v \in Wait : Fresh(v)' = Fresh(v)
    BY <1>2 DEF Fresh
  <2>3. \A u \in Task : task[u].pc = "check" => WaitOf(u) \in Wait
    BY GateTaskFacts DEF Inv, TypeOK, GatePc
  <2> QED
    BY <1>1, <1>2, <2>1, <2>2, <2>3 DEF Inv, MissIsExplained
<1>7. MarkerIsHeld'
  <2>1. Claimed(w)' /\ \A v \in Wait : Claimed(v) => Claimed(v)'
    BY <1>0, <1>1 DEF Claimed
  <2>2. \A v \in Wait : Held(v) => Held(v)'
    BY <1>4, <2>1 DEF Held
  <2>3. Held(w)'
    BY <2>1 DEF Held
  <2>4. \A v \in Wait : v \in marker' => v \in marker \/ v = w
    BY <1>3
  <2>5. \A v \in Wait : hist'[v].denied => hist[v].denied
    BY <1>4
  <2>6. \A v \in Wait : v \in marker => v \in marker'
    BY <1>3
  <2> QED
    BY <2>2, <2>3, <2>4, <2>5, <2>6 DEF Inv, MarkerIsHeld
<1>8. WakeAccounting'
  BY <1>2, <1>4 DEF Inv, WakeAccounting, Present
<1> QED
  BY <1>5, <1>6, <1>7, <1>8

\* A missed entry stays explained if explanations stay.
LEMMA MissKept ==
    ASSUME Inv,
           \A v \in Wait : Explained(v) => Explained(v)',
           \A v \in Wait : ~Fresh(v)' /\ index'[v] = "absent" =>
               (~Fresh(v) /\ index[v] = "absent") \/ Explained(v)',
           \A u \in Task : task'[u].pc = "check" =>
               task[u].pc = "check" /\ WaitOf(u)' = WaitOf(u)
    PROVE  MissIsExplained'
<1>1. \A u \in Task : task[u].pc = "check" => WaitOf(u) \in Wait
  BY GateTaskFacts DEF Inv, TypeOK, GatePc
<1> QED
  BY <1>1 DEF Inv, MissIsExplained

\* A marker stays held if the holders stay.
LEMMA HeldKept ==
    ASSUME Inv, UNCHANGED marker,
           \A v \in Wait : Held(v) => Held(v)',
           \A v \in Wait : hist'[v].denied => hist[v].denied \/ v \in marker
    PROVE  MarkerIsHeld'
BY DEF Inv, MarkerIsHeld

\* A duplicate dropped.
LEMMA StepGateDeny ==
    ASSUME Inv, NEW t \in Task, GateDeny(t)
    PROVE  WakeAccounting' /\ FreshIsUntouched' /\ MissIsExplained' /\ MarkerIsHeld'
<1>0. PICK w \in Wait : w = WaitOf(t)
  BY GateTaskFacts DEF GateDeny, GatePc, Inv, TypeOK
<1>1. /\ task[t].pc = "check" /\ task'[t].pc = "idle" /\ w \in marker
      /\ \A u \in Task : u # t => task'[u] = task[u] /\ WaitOf(u)' = WaitOf(u)
  BY <1>0 DEF GateDeny, Inv, TypeOK, TaskTypeOK, IdleTask, WaitOf
<1>2. UNCHANGED <<index, marker, stream, exec, callee, sweeper>>
  BY DEF GateDeny, redisVars
<1>3. hist' = [hist EXCEPT ![w].denied = TRUE]
  BY <1>0 DEF GateDeny
<1>4. /\ \A v \in Wait : v # w => hist'[v] = hist[v]
      /\ hist'[w].allowed = hist[w].allowed
      /\ hist'[w].reinserted = hist[w].reinserted
      /\ hist'[w].slipped = hist[w].slipped
      /\ hist'[w].failedOpen = hist[w].failedOpen
      /\ hist'[w].unmarked = hist[w].unmarked
      /\ hist'[w].lostClaim = hist[w].lostClaim
      /\ hist'[w].answer = hist[w].answer
  BY <1>3 DEF Inv, TypeOK, History
<1>5. FreshIsUntouched'
  <2>1. ~Fresh(w)
    BY <1>0, <1>1 DEF Inv, FreshIsUntouched, Untouched, GatePc
  <2> QED
    BY <1>1, <1>2, <1>4, <2>1, FreshKept DEF Inv, Fresh, GatePc
<1>6. \A v \in Wait : /\ Explained(v) => Explained(v)'
                      /\ Held(v) => Held(v)'
  <2>1. \A v \in Wait : /\ InWindow(v) => InWindow(v)'
                        /\ Claimed(v) => Claimed(v)'
    BY <1>1 DEF InWindow, Claimed
  <2> QED
    BY <1>2, <1>4, <2>1 DEF Explained, Held
<1>7. MissIsExplained'
  BY <1>1, <1>2, <1>6, MissKept DEF Fresh
<1>8. MarkerIsHeld'
  BY <1>1, <1>2, <1>4, <1>6, HeldKept
<1>9. WakeAccounting'
  BY <1>2, <1>4 DEF Inv, WakeAccounting, Present
<1> QED
  BY <1>5, <1>7, <1>8, <1>9

\* A copy allowed without an entry is charged to what explains it.
LEMMA StepGateUnregistered ==
    ASSUME Inv, NEW t \in Task, GateUnregistered(t)
    PROVE  WakeAccounting' /\ FreshIsUntouched' /\ MissIsExplained' /\ MarkerIsHeld'
<1>0. PICK w \in Wait : w = WaitOf(t)
  BY GateGoto DEF GateUnregistered, GatePc, TaskPc
<1>1. /\ ~Fresh(w)
      /\ task[t].pc = "check" /\ task'[t].pc = "resume"
      /\ WaitOf(t)' = w
      /\ \A u \in Task : u # t => task'[u] = task[u] /\ WaitOf(u)' = WaitOf(u)
  BY <1>0, GateGoto DEF GateUnregistered, GatePc, TaskPc
<1>2. UNCHANGED <<index, marker, stream, exec, callee, sweeper>>
  BY DEF GateUnregistered, redisVars
\* The reply was let through for want of a marker: it counts as slipped.
<1>3. hist' = [hist EXCEPT ![w].allowed = @ + 1, ![w].slipped = @ + 1]
  <2>1. Explained(w) /\ w \notin marker
    BY <1>0, <1>1 DEF Inv, MissIsExplained, GateUnregistered
  <2> QED
    BY <1>0, <2>1 DEF GateUnregistered, Explained
<1>4. /\ \A v \in Wait : v # w => hist'[v] = hist[v]
      /\ hist'[w].allowed = hist[w].allowed + 1
      /\ hist'[w].reinserted = hist[w].reinserted
      /\ hist'[w].slipped = hist[w].slipped + 1
      /\ hist'[w].failedOpen = hist[w].failedOpen
      /\ hist'[w].unmarked = hist[w].unmarked
      /\ hist'[w].lostClaim = hist[w].lostClaim
      /\ hist'[w].denied = hist[w].denied
      /\ hist'[w].answer = hist[w].answer
  BY <1>3 DEF Inv, TypeOK, History
<1>5. FreshIsUntouched'
  BY <1>1, <1>2, <1>4, FreshKept DEF Inv, Fresh
<1>6. \A v \in Wait : /\ Explained(v) => Explained(v)'
                      /\ Held(v) => Held(v)'
  <2>1. \A v \in Wait : /\ InWindow(v) => InWindow(v)'
                        /\ Claimed(v) => Claimed(v)'
    BY <1>1 DEF InWindow, Claimed
  <2> QED
    BY <1>2, <1>4, <2>1 DEF Explained, Held
<1>7. MissIsExplained'
  BY <1>1, <1>2, <1>6, MissKept DEF Fresh
<1>8. MarkerIsHeld'
  BY <1>2, <1>4, <1>6, HeldKept
<1>9. WakeAccounting'
  BY <1>2, <1>4 DEF Inv, TypeOK, History, WakeAccounting, Present
<1> QED
  BY <1>5, <1>7, <1>8, <1>9

\* A copy allowed by a gate error is charged to it.
LEMMA StepGateError ==
    ASSUME Inv, NEW t \in Task, GateError(t)
    PROVE  WakeAccounting' /\ FreshIsUntouched' /\ MissIsExplained' /\ MarkerIsHeld'
<1>0. PICK w \in Wait : w = WaitOf(t)
  BY GateGoto DEF GateError, GatePc, TaskPc
<1>1. /\ ~Fresh(w)
      /\ task[t].pc \in {"zrem", "check"} /\ task'[t].pc = "resume"
      /\ WaitOf(t)' = w
      /\ \A u \in Task : u # t => task'[u] = task[u] /\ WaitOf(u)' = WaitOf(u)
  BY <1>0, GateGoto DEF GateError, GatePc, TaskPc
<1>2. UNCHANGED <<marker, stream, exec, callee, sweeper>>
  BY DEF GateError
<1>3. PICK removed \in BOOLEAN :
         /\ index' = [index EXCEPT ![w] = IF removed THEN "absent" ELSE @]
         /\ hist' = [hist EXCEPT ![w].allowed = @ + 1,
                                 ![w].failedOpen = @ + 1,
                                 ![w].unmarked = @ \/ removed]
  BY <1>0 DEF GateError
<1>4. /\ \A v \in Wait : v # w => hist'[v] = hist[v]
      /\ hist'[w].allowed = hist[w].allowed + 1
      /\ hist'[w].reinserted = hist[w].reinserted
      /\ hist'[w].slipped = hist[w].slipped
      /\ hist'[w].failedOpen = hist[w].failedOpen + 1
      /\ hist'[w].unmarked = (hist[w].unmarked \/ removed)
      /\ hist'[w].lostClaim = hist[w].lostClaim
      /\ hist'[w].denied = hist[w].denied
      /\ hist'[w].answer = hist[w].answer
  BY <1>3 DEF Inv, TypeOK, History
<1>5. /\ \A v \in Wait : v # w => index'[v] = index[v]
      /\ index'[w] = "absent" => index[w] = "absent" \/ removed
      /\ index[w] = "absent" => index'[w] = "absent"
  BY <1>3 DEF Inv, TypeOK
<1>6. FreshIsUntouched'
  BY <1>1, <1>2, <1>4, <1>5, FreshKept DEF Inv, Fresh
<1>7. \A v \in Wait : /\ Explained(v) => Explained(v)'
                      /\ Held(v) => Held(v)'
  <2>1. \A v \in Wait : /\ InWindow(v) => InWindow(v)'
                        /\ Claimed(v) => Claimed(v)'
    BY <1>1 DEF InWindow, Claimed
  <2> QED
    BY <1>2, <1>4, <2>1 DEF Explained, Held
<1>8. MissIsExplained'
  <2>1. \A v \in Wait : Fresh(v)' = Fresh(v)
    BY <1>2 DEF Fresh
  <2>2. removed => Explained(w)'
    BY <1>4 DEF Explained
  <2> QED
    BY <1>1, <1>5, <1>7, <2>1, <2>2, MissKept
<1>9. MarkerIsHeld'
  BY <1>2, <1>4, <1>7, HeldKept
<1>10. WakeAccounting'
  BY <1>4, <1>5 DEF Inv, TypeOK, History, WakeAccounting, Present
<1> QED
  BY <1>6, <1>8, <1>9, <1>10

-----------------------------------------------------------------------------
(* The caller.                                                             *)

\* A caller step that makes no call, touches no wait's entry and holds no
\* claim.
LEMMA QuietCaller ==
    ASSUME Inv, NEW t \in Task, UNCHANGED <<index, marker, stream, sweeper, hist>>,
           \A c \in Caller : exec'[c].calls = exec[c].calls,
           \A v \in Wait : Fresh(v) => callee'[v].pos = callee[v].pos,
           task[t].pc \notin {"mark", "resume"},
           task'[t].pc \notin GatePc \cup {"sending"},
           \A u \in Task : u # t => task'[u] = task[u]
    PROVE  WakeAccounting' /\ FreshIsUntouched' /\ MissIsExplained' /\ MarkerIsHeld'
<1>1. FreshIsUntouched'
  <2> SUFFICES ASSUME NEW v \in Wait, Fresh(v)'
               PROVE  Untouched(v)'
    BY DEF FreshIsUntouched
  <2>1. Fresh(v) /\ Untouched(v)
    BY WaitFacts DEF Inv, FreshIsUntouched, Fresh
  <2> QED
    BY <2>1 DEF Untouched, WaitOf
<1>2. task'[t].pc # "check"
  BY DEF GatePc
<1> QED
  BY <1>1, <1>2, QuietTask

\* The caller is woken.
LEMMA StepResume ==
    ASSUME Inv, NEW t \in Task, Resume(t)
    PROVE  WakeAccounting' /\ FreshIsUntouched' /\ MissIsExplained' /\ MarkerIsHeld'
<1>0. PICK w \in Wait : w = WaitOf(t)
  BY GateGoto DEF Resume, GatePc, TaskPc
<1>1. /\ ~Fresh(w)
      /\ task[t].pc = "resume" /\ task'[t].pc = "handler"
      /\ \A u \in Task : u # t => task'[u] = task[u] /\ WaitOf(u)' = WaitOf(u)
  BY <1>0, GateGoto DEF Resume, GatePc, TaskPc
<1>2. UNCHANGED <<index, marker, stream, callee, sweeper>>
  BY DEF Resume, redisVars
<1>3. PICK a \in Kind : hist' = [hist EXCEPT ![w].answer = IF @ = "none" THEN a
                                                           ELSE @]
  BY <1>0, <1>1, GateTaskFacts DEF Resume, Inv, TypeOK, GatePc
<1>4. /\ \A v \in Wait : v # w => hist'[v] = hist[v]
      /\ hist'[w].allowed = hist[w].allowed
      /\ hist'[w].reinserted = hist[w].reinserted
      /\ hist'[w].slipped = hist[w].slipped
      /\ hist'[w].failedOpen = hist[w].failedOpen
      /\ hist'[w].unmarked = hist[w].unmarked
      /\ hist'[w].lostClaim = hist[w].lostClaim
      /\ hist'[w].denied = hist[w].denied
      /\ hist'[w].answer # "none"
  BY <1>3 DEF Inv, TypeOK, History, Kind
<1>5. \A v \in Wait : Fresh(v)' = Fresh(v)
  <2>1. w[1] \in Caller /\ exec \in [Caller -> ExecRecord]
    BY WaitFacts DEF Inv, TypeOK
  <2>2. exec' = [exec EXCEPT ![w[1]].status = "RUNNING", ![w[1]].up = TRUE]
    BY <1>0 DEF Resume
  <2>3. \A c \in Caller : exec'[c].calls = exec[c].calls
    BY <2>1, <2>2 DEF ExecRecord
  <2> QED
    BY <2>3, WaitFacts DEF Fresh
<1>6. FreshIsUntouched'
  BY <1>1, <1>2, <1>4, <1>5, FreshKept DEF Inv, GatePc
<1>7. \A v \in Wait : /\ Explained(v) => Explained(v)'
                      /\ Held(v) => Held(v)'
  <2>1. \A v \in Wait : /\ InWindow(v) => InWindow(v)'
                        /\ Claimed(v) /\ v # w => Claimed(v)'
    BY <1>0, <1>1 DEF InWindow, Claimed
  <2> QED
    BY <1>2, <1>4, <2>1 DEF Explained, Held
<1>8. MissIsExplained'
  BY <1>1, <1>2, <1>5, <1>7, MissKept
<1>9. MarkerIsHeld'
  BY <1>2, <1>4, <1>7, HeldKept
<1>10. WakeAccounting'
  BY <1>2, <1>4 DEF Inv, WakeAccounting, Present
<1> QED
  BY <1>6, <1>8, <1>9, <1>10

\* A new call starts from an untouched wait.
LEMMA StepHandlerCalls ==
    ASSUME Inv, NEW t \in Task, HandlerCalls(t)
    PROVE  WakeAccounting' /\ FreshIsUntouched' /\ MissIsExplained' /\ MarkerIsHeld'
<1>0. PICK c \in Caller : c = task[t].caller
  BY DEF HandlerCalls, Inv, TypeOK, TaskTypeOK, TaskRecord
<1>1. PICK n \in 1..MaxCalls : n = exec[c].calls + 1 /\ <<c, n>> \in Wait
  <2>1. exec[c].calls + 1 \in 1..MaxCalls
    <3>1. exec[c].calls \in 0..MaxCalls
      BY DEF Inv, TypeOK, ExecRecord
    <3>2. exec[c].calls < MaxCalls
      BY <1>0 DEF HandlerCalls
    <3> QED
      BY <3>1, <3>2, CallsAssumption
  <2> QED
    BY <2>1, WaitFacts
<1>2. PICK w \in Wait : w = <<c, n>> /\ w[1] = c /\ w[2] = n
  BY <1>1
<1>3. /\ exec' = [exec EXCEPT ![c].calls = @ + 1]
      /\ callee' = [callee EXCEPT ![w].pos = "recorded"]
      /\ task' = [task EXCEPT ![t].pc = "sending", ![t].call = n]
      /\ \/ index' = [index EXCEPT ![w] = "live"] /\ hist' = hist
         \/ index' = index /\ hist' = [hist EXCEPT ![w].unmarked = TRUE]
      /\ UNCHANGED <<marker, stream, sweeper>>
  BY <1>0, <1>1, <1>2 DEF HandlerCalls
<1>4. /\ exec'[c].calls = n
      /\ \A d \in Caller : d # c => exec'[d] = exec[d]
  BY <1>1, <1>3 DEF Inv, TypeOK, ExecRecord
<1>5. /\ Fresh(w) /\ ~Fresh(w)'
      /\ \A v \in Wait : v # w => Fresh(v)' = Fresh(v)
  <2>1. \A v \in Wait : v # w => v[1] # c \/ v[2] # n
    BY <1>2, WaitFacts
  <2>2. exec[c].calls \in Nat /\ \A v \in Wait : v[2] \in Nat /\ v[1] \in Caller
    BY WaitFacts, CallsAssumption DEF Inv, TypeOK, ExecRecord
  <2> QED
    BY <1>1, <1>2, <1>4, <2>1, <2>2 DEF Fresh
<1>6. /\ task[t].pc = "handler" /\ task'[t].pc = "sending"
      /\ WaitOf(t)' = w
      /\ \A u \in Task : u # t => task'[u] = task[u] /\ WaitOf(u)' = WaitOf(u)
  <2> DEFINE r == [task[t] EXCEPT !.pc = "sending", !.call = n]
  <2>1. task[t] \in TaskRecord /\ task \in [Task -> TaskRecord]
    BY DEF Inv, TypeOK, TaskTypeOK
  <2>2. r.pc = "sending" /\ r.call = n /\ r.caller = c
    BY <1>0, <2>1 DEF TaskRecord
  <2>3. task' = [task EXCEPT ![t] = r]
    BY <1>3
  <2> HIDE DEF r
  <2>4. task'[t] = r /\ \A u \in Task : u # t => task'[u] = task[u]
    BY <2>1, <2>3
  <2>5. task[t].pc = "handler"
    BY DEF HandlerCalls
  <2> QED
    BY <1>2, <2>2, <2>4, <2>5 DEF WaitOf
<1>7. /\ \A v \in Wait : v # w => hist'[v] = hist[v]
      /\ hist'[w].allowed = hist[w].allowed
      /\ hist'[w].reinserted = hist[w].reinserted
      /\ hist'[w].slipped = hist[w].slipped
      /\ hist'[w].failedOpen = hist[w].failedOpen
      /\ hist[w].unmarked => hist'[w].unmarked
      /\ hist'[w].lostClaim = hist[w].lostClaim
      /\ hist'[w].denied = hist[w].denied
      /\ hist'[w].answer = hist[w].answer
      /\ index'[w] # "absent" \/ hist'[w].unmarked
      /\ \A v \in Wait : v # w => index'[v] = index[v]
  <2>1. hist \in [Wait -> History] /\ index \in [Wait -> Score]
    BY DEF Inv, TypeOK
  <2>2. CASE index' = [index EXCEPT ![w] = "live"] /\ hist' = hist
    BY <2>1, <2>2
  <2>3. CASE index' = index /\ hist' = [hist EXCEPT ![w].unmarked = TRUE]
    BY <2>1, <2>3 DEF History
  <2> QED
    BY <1>3, <2>2, <2>3
<1>8. FreshIsUntouched'
  <2>1. \A v \in Wait : v # w => callee'[v].pos = callee[v].pos
    BY <1>3 DEF Inv, TypeOK
  <2>2. \A v \in Wait : Fresh(v)' => Fresh(v) /\ v # w
    BY <1>5
  <2>3. \A v \in Wait : v # w => /\ index'[v] = index[v]
                                /\ hist'[v].allowed = hist[v].allowed
                                /\ callee'[v].pos = callee[v].pos
                                /\ stream'[v] = stream[v]
    BY <1>3, <1>7, <2>1
  <2>4. FreshIsUntouched /\ UNCHANGED sweeper
    BY <1>3 DEF Inv
  <2> QED
    BY <1>6, <2>2, <2>3, <2>4, FreshKept
<1>9. \A v \in Wait : /\ Explained(v) => Explained(v)'
                      /\ Held(v) => Held(v)'
  <2>1. \A v \in Wait : /\ InWindow(v) => InWindow(v)'
                        /\ Claimed(v) => Claimed(v)'
    BY <1>6 DEF InWindow, Claimed
  <2> QED
    BY <1>3, <1>7, <2>1 DEF Explained, Held
<1>10. MissIsExplained'
  <2>1. index'[w] = "absent" => Explained(w)'
    BY <1>7 DEF Explained
  <2> QED
    BY <1>5, <1>6, <1>7, <1>9, <2>1, MissKept
<1>11. MarkerIsHeld'
  BY <1>3, <1>7, <1>9, HeldKept
<1>12. WakeAccounting'
  <2>1. hist[w].allowed = 0
    BY <1>5 DEF Inv, FreshIsUntouched, Untouched
  <2> QED
    BY <1>7, <2>1 DEF Inv, TypeOK, History, WakeAccounting, Present
<1> QED
  BY <1>8, <1>10, <1>11, <1>12

\* A task dies; a claim that dies with it is recorded as lost.
LEMMA StepTaskCrash ==
    ASSUME Inv, NEW t \in Task, TaskCrash(t)
    PROVE  WakeAccounting' /\ FreshIsUntouched' /\ MissIsExplained' /\ MarkerIsHeld'
<1>1. /\ task[t].pc # "idle" /\ task'[t].pc = "idle"
      /\ \A u \in Task : u # t => task'[u] = task[u] /\ WaitOf(u)' = WaitOf(u)
  BY DEF TaskCrash, Inv, TypeOK, TaskTypeOK, IdleTask, WaitOf
<1>2. UNCHANGED <<index, marker, stream, callee, sweeper>>
  BY DEF TaskCrash, redisVars
<1>3. \A c \in Caller : exec'[c].calls = exec[c].calls
  <2>1. PICK d : d = WaitOf(t)[1]
    OBVIOUS
  <2>2. exec' = exec \/ exec' = [exec EXCEPT ![d].up = FALSE]
    BY <2>1 DEF TaskCrash
  <2> QED
    BY <2>2 DEF Inv, TypeOK, ExecRecord
<1>4. CASE task[t].pc \notin {"mark", "resume"}
  <2>1. UNCHANGED hist
    BY <1>4 DEF TaskCrash
  <2>2. task'[t].pc \notin GatePc \cup {"sending"}
    BY <1>1 DEF GatePc
  <2> QED
    BY <1>1, <1>2, <1>3, <1>4, <2>1, <2>2, QuietCaller
<1>5. CASE task[t].pc \in {"mark", "resume"}
  <2>0. PICK w \in Wait : w = WaitOf(t)
    BY <1>5, GateTaskFacts DEF Inv, TypeOK, GatePc
  <2>1. PICK b \in BOOLEAN :
           /\ hist' = [hist EXCEPT ![w].lostClaim = TRUE, ![w].unmarked = @ \/ b]
           /\ task[t].pc = "mark" => b
    BY <1>5, <2>0 DEF TaskCrash
  <2>2. /\ \A v \in Wait : v # w => hist'[v] = hist[v]
        /\ hist'[w].allowed = hist[w].allowed
        /\ hist'[w].reinserted = hist[w].reinserted
        /\ hist'[w].slipped = hist[w].slipped
        /\ hist'[w].failedOpen = hist[w].failedOpen
        /\ hist'[w].unmarked = (hist[w].unmarked \/ b)
        /\ hist'[w].lostClaim
        /\ hist'[w].denied = hist[w].denied
        /\ hist'[w].answer = hist[w].answer
    BY <2>1 DEF Inv, TypeOK, History
  <2>3. \A v \in Wait : Fresh(v)' = Fresh(v)
    BY <1>3, WaitFacts DEF Fresh
  <2>4. ~Fresh(w)
    BY <1>5, <2>0 DEF Inv, FreshIsUntouched, Untouched, GatePc
  <2>5. FreshIsUntouched'
    <3>1. \A v \in Wait : Fresh(v)' => Fresh(v) /\ v # w
      BY <2>3, <2>4
    <3>2. \A v \in Wait : v # w => /\ index'[v] = index[v]
                                  /\ hist'[v].allowed = hist[v].allowed
                                  /\ callee'[v].pos = callee[v].pos
                                  /\ stream'[v] = stream[v]
      BY <1>2, <2>2
    <3>3. \A u \in Task : task'[u].pc \in GatePc \cup {"sending"} =>
                              \/ task'[u] = task[u]
                              \/ WaitOf(u)' = w
      BY <1>1 DEF GatePc
    <3>4. \A s \in Sweeper : /\ sweeper'[s].wait \in {sweeper[s].wait, w, NoWait}
                             /\ sweeper'[s].todo \subseteq sweeper[s].todo
      BY <1>2
    <3>5. FreshIsUntouched
      BY DEF Inv
    <3> QED
      BY <3>1, <3>2, <3>3, <3>4, <3>5, FreshKept
  <2>6. \A v \in Wait : /\ Explained(v) => Explained(v)'
                        /\ Held(v) => Held(v)'
    <3>1. \A v \in Wait : /\ InWindow(v) => InWindow(v)' \/ (v = w /\ b)
                          /\ Claimed(v) /\ v # w => Claimed(v)'
      BY <1>1, <2>0, <2>1 DEF InWindow, Claimed
    <3> QED
      BY <1>2, <2>2, <3>1 DEF Explained, Held
  <2>7. MissIsExplained'
    BY <1>1, <1>2, <2>3, <2>6, MissKept
  <2>8. MarkerIsHeld'
    BY <1>2, <2>2, <2>6, HeldKept
  <2>9. WakeAccounting'
    BY <1>2, <2>2 DEF Inv, WakeAccounting, Present
  <2> QED
    BY <2>5, <2>7, <2>8, <2>9
<1> QED
  BY <1>4, <1>5

\* The steps of a caller.
LEMMA StepCaller ==
    ASSUME Inv, NEW t \in Task, CallerNext(t)
    PROVE  WakeAccounting' /\ FreshIsUntouched' /\ MissIsExplained' /\ MarkerIsHeld'
<1>1. ASSUME NEW c \in Caller, StartCaller(t, c)
      PROVE  WakeAccounting' /\ FreshIsUntouched' /\ MissIsExplained' /\ MarkerIsHeld'
  <2>1. \A d \in Caller : exec'[d].calls = exec[d].calls
    BY <1>1 DEF StartCaller, Inv, TypeOK, ExecRecord
  <2>2. /\ task[t].pc = "idle" /\ task'[t].pc = "handler"
        /\ \A u \in Task : u # t => task'[u] = task[u]
    BY <1>1 DEF StartCaller, Inv, TypeOK, TaskTypeOK
  <2> QED
    BY <1>1, <2>1, <2>2, QuietCaller DEF StartCaller, redisVars, GatePc
<1>2. CASE HandlerSends(t)
  <2>0. PICK w \in Wait : w = WaitOf(t) /\ ~Fresh(w)
    BY <1>2 DEF HandlerSends, Inv, TypeOK, TaskTypeOK, FreshIsUntouched, Untouched
  <2>1. \A d \in Caller : exec'[d].calls = exec[d].calls
    <3>1. exec' = exec \/ exec' = [exec EXCEPT ![w[1]].status = "FAILED"]
      BY <1>2, <2>0 DEF HandlerSends
    <3>2. exec \in [Caller -> ExecRecord]
      BY DEF Inv, TypeOK
    <3> DEFINE e == w[1]
    <3>3. exec' = exec \/ exec' = [exec EXCEPT ![e].status = "FAILED"]
      BY <3>1
    <3> HIDE DEF e
    <3> QED
      BY <3>2, <3>3 DEF ExecRecord
  <2>2. /\ task[t].pc = "sending" /\ task'[t].pc \in {"unwind", "idle"}
        /\ \A u \in Task : u # t => task'[u] = task[u]
    BY <1>2 DEF HandlerSends, Inv, TypeOK, TaskTypeOK, TaskRecord, Goto, IdleTask
  <2>3. \A v \in Wait : Fresh(v) => callee'[v].pos = callee[v].pos
    <3>1. callee' = callee \/ callee' = [callee EXCEPT ![w].pos = "queued"]
      BY <1>2, <2>0 DEF HandlerSends
    <3> QED
      BY <2>0, <3>1 DEF Inv, TypeOK
  <2> QED
    BY <1>2, <2>1, <2>2, <2>3, QuietCaller DEF HandlerSends, redisVars, GatePc
<1>3. CASE HandlerSuspends(t) \/ HandlerFinishes(t)
  <2>1. \A d \in Caller : exec'[d].calls = exec[d].calls
    BY <1>3 DEF HandlerSuspends, HandlerFinishes, Inv, TypeOK, ExecRecord
  <2>2. /\ task[t].pc \in {"unwind", "handler"} /\ task'[t].pc = "idle"
        /\ \A u \in Task : u # t => task'[u] = task[u]
    BY <1>3
       DEF HandlerSuspends, HandlerFinishes, Inv, TypeOK, TaskTypeOK, IdleTask
  <2> QED
    BY <1>3, <2>1, <2>2, QuietCaller
       DEF HandlerSuspends, HandlerFinishes, redisVars, GatePc
<1> QED
  BY <1>1, <1>2, <1>3, StepResume, StepHandlerCalls DEF CallerNext

-----------------------------------------------------------------------------
(* The sweepers.                                                           *)

\* A sweeper moves within the triage of an entry.
LEMMA QuietSweep ==
    ASSUME Inv, NEW s \in Sweeper,
           UNCHANGED <<index, marker, stream, exec, callee, task, hist>>,
           sweeper'[s].wait = sweeper[s].wait, sweeper'[s].todo = sweeper[s].todo,
           \A u \in Sweeper : u # s => sweeper'[u] = sweeper[u]
    PROVE  WakeAccounting' /\ FreshIsUntouched' /\ MissIsExplained' /\ MarkerIsHeld'
<1>1. FreshIsUntouched'
  <2>1. \A v \in Wait : (Fresh(v)' = Fresh(v)) /\ v # NoWait
    BY WaitFacts DEF Fresh
  <2> QED
    BY <2>1, FreshKept DEF Inv
<1> QED
  BY <1>1, QuietStep

\* The entry under triage belongs to a call that was made.
LEMMA TriageWait ==
    ASSUME Inv, NEW s \in Sweeper, sweeper[s].pc \notin Resting
    PROVE  sweeper[s].wait \in Wait /\ ~Fresh(sweeper[s].wait)
<1>1. sweeper[s].wait \in Wait
  BY TriageFacts DEF Inv, TypeOK
<1> QED
  BY <1>1 DEF Inv, FreshIsUntouched, Untouched

\* A stand-in is one more copy, and nothing is woken by it yet.
LEMMA StepSweepEmit ==
    ASSUME Inv, NEW s \in Sweeper, SweepEmit(s)
    PROVE  WakeAccounting' /\ FreshIsUntouched' /\ MissIsExplained' /\ MarkerIsHeld'
<1>0. PICK w \in Wait : w = sweeper[s].wait /\ ~Fresh(w)
  BY TriageWait DEF SweepEmit, Resting
<1>1. UNCHANGED <<index, marker, exec, callee, task>>
  BY DEF SweepEmit
<1>2. hist' = [hist EXCEPT ![w].standIns = @ + 1]
  BY <1>0 DEF SweepEmit
<1>3. /\ \A v \in Wait : v # w => hist'[v] = hist[v]
      /\ hist'[w].allowed = hist[w].allowed
      /\ hist'[w].reinserted = hist[w].reinserted
      /\ hist'[w].slipped = hist[w].slipped
      /\ hist'[w].failedOpen = hist[w].failedOpen
      /\ hist'[w].unmarked = hist[w].unmarked
      /\ hist'[w].lostClaim = hist[w].lostClaim
      /\ hist'[w].denied = hist[w].denied
      /\ hist'[w].answer = hist[w].answer
  BY <1>2 DEF Inv, TypeOK, History
<1>4. FreshIsUntouched'
  <2>1. \A v \in Wait : v # w => stream'[v] = stream[v]
    BY <1>0 DEF SweepEmit, Deliver, Inv, TypeOK
  <2>2. \A u \in Sweeper : /\ sweeper'[u].wait = sweeper[u].wait
                           /\ sweeper'[u].todo = sweeper[u].todo
    BY DEF SweepEmit, SGoto, Inv, TypeOK, SweeperTypeOK, SweeperRecord
  <2>3. \A v \in Wait : Fresh(v)' => Fresh(v) /\ v # w
    BY <1>0, <1>1 DEF Fresh
  <2> QED
    BY <1>1, <1>3, <2>1, <2>2, <2>3, FreshKept DEF Inv
<1>5. \A v \in Wait : /\ Explained(v) => Explained(v)'
                      /\ Held(v) => Held(v)'
  BY <1>1, <1>3 DEF Explained, Held, InWindow, Claimed, WaitOf
<1>6. MissIsExplained'
  BY <1>1, <1>5, MissKept DEF Fresh, WaitOf
<1>7. MarkerIsHeld'
  BY <1>1, <1>3, <1>5, HeldKept
<1>8. WakeAccounting'
  BY <1>1, <1>3 DEF Inv, WakeAccounting, Present
<1> QED
  BY <1>4, <1>6, <1>7, <1>8

\* What going on, within an entry or to the next one, does to the sweepers.
LEMMA NextEntryFacts ==
    ASSUME SweeperTypeOK, NEW s \in Sweeper, NEW pc,
           NextEntry(s) \/ SGoto(s, pc)
    PROVE  \A u \in Sweeper : /\ sweeper'[u].wait \in {sweeper[u].wait, NoWait}
                              /\ sweeper'[u].todo = sweeper[u].todo
BY DEF SweeperTypeOK, SweeperRecord, NextEntry, SGoto

\* A renewal that re-creates a claimed entry is counted.
LEMMA StepSweepExtend ==
    ASSUME Inv, NEW s \in Sweeper, SweepExtend(s)
    PROVE  WakeAccounting' /\ FreshIsUntouched' /\ MissIsExplained' /\ MarkerIsHeld'
<1>0. PICK w \in Wait : w = sweeper[s].wait /\ ~Fresh(w)
  BY TriageWait DEF SweepExtend, Resting
<1>1. UNCHANGED <<marker, stream, exec, callee, task>>
  BY DEF SweepExtend
<1>2. PICK again \in {0, 1} :
         /\ hist' = [hist EXCEPT ![w].reinserted = @ + again]
         /\ index[w] = "absent" => again = 1
  BY <1>0 DEF SweepExtend
<1>3. /\ \A v \in Wait : v # w => hist'[v] = hist[v]
      /\ hist'[w].allowed = hist[w].allowed
      /\ hist'[w].reinserted = hist[w].reinserted + again
      /\ hist'[w].slipped = hist[w].slipped
      /\ hist'[w].failedOpen = hist[w].failedOpen
      /\ hist'[w].unmarked = hist[w].unmarked
      /\ hist'[w].lostClaim = hist[w].lostClaim
      /\ hist'[w].denied = hist[w].denied
      /\ hist'[w].answer = hist[w].answer
  BY <1>2 DEF Inv, TypeOK, History
<1>4. /\ index'[w] = "live"
      /\ \A v \in Wait : v # w => index'[v] = index[v]
  BY <1>0 DEF SweepExtend, Inv, TypeOK
<1>5. FreshIsUntouched'
  <2>1. \A u \in Sweeper : /\ sweeper'[u].wait \in {sweeper[u].wait, NoWait}
                           /\ sweeper'[u].todo = sweeper[u].todo
    BY NextEntryFacts DEF SweepExtend, Inv, TypeOK
  <2>2. \A v \in Wait : Fresh(v)' => Fresh(v) /\ v # w
    BY <1>0, <1>1 DEF Fresh
  <2> QED
    BY <1>1, <1>3, <1>4, <2>1, <2>2, FreshKept DEF Inv
<1>6. \A v \in Wait : /\ Explained(v) => Explained(v)'
                      /\ Held(v) => Held(v)'
  BY <1>1, <1>3 DEF Explained, Held, InWindow, Claimed, WaitOf
<1>7. MissIsExplained'
  BY <1>1, <1>4, <1>6, MissKept DEF Fresh, WaitOf
<1>8. MarkerIsHeld'
  BY <1>1, <1>3, <1>6, HeldKept
<1>9. WakeAccounting'
  BY <1>2, <1>3, <1>4 DEF Inv, TypeOK, History, WakeAccounting, Present
<1> QED
  BY <1>5, <1>7, <1>8, <1>9

\* A dropped entry is recorded as gone without a marker.
LEMMA StepSweepDrop ==
    ASSUME Inv, NEW s \in Sweeper, SweepDrop(s)
    PROVE  WakeAccounting' /\ FreshIsUntouched' /\ MissIsExplained' /\ MarkerIsHeld'
<1>0. PICK w \in Wait : w = sweeper[s].wait /\ ~Fresh(w)
  BY TriageWait DEF SweepDrop, Resting
<1>1. UNCHANGED <<marker, stream, exec, callee, task>>
  BY DEF SweepDrop
<1>2. PICK b \in BOOLEAN :
         /\ hist' = [hist EXCEPT ![w].unmarked = b]
         /\ hist[w].unmarked \/ index[w] # "absent" => b
  BY <1>0 DEF SweepDrop
<1>3. /\ \A v \in Wait : v # w => hist'[v] = hist[v]
      /\ hist'[w].allowed = hist[w].allowed
      /\ hist'[w].reinserted = hist[w].reinserted
      /\ hist'[w].slipped = hist[w].slipped
      /\ hist'[w].failedOpen = hist[w].failedOpen
      /\ hist'[w].unmarked = b
      /\ hist'[w].lostClaim = hist[w].lostClaim
      /\ hist'[w].denied = hist[w].denied
      /\ hist'[w].answer = hist[w].answer
  BY <1>2 DEF Inv, TypeOK, History
<1>4. /\ index'[w] = "absent"
      /\ \A v \in Wait : v # w => index'[v] = index[v]
  BY <1>0 DEF SweepDrop, Inv, TypeOK
<1>5. FreshIsUntouched'
  <2>1. \A u \in Sweeper : /\ sweeper'[u].wait \in {sweeper[u].wait, NoWait}
                           /\ sweeper'[u].todo = sweeper[u].todo
    BY NextEntryFacts DEF SweepDrop, Inv, TypeOK
  <2>2. \A v \in Wait : Fresh(v)' => Fresh(v) /\ v # w
    BY <1>0, <1>1 DEF Fresh
  <2> QED
    BY <1>1, <1>3, <1>4, <2>1, <2>2, FreshKept DEF Inv
<1>6. \A v \in Wait : /\ Explained(v) => Explained(v)'
                      /\ Held(v) => Held(v)'
  BY <1>1, <1>2, <1>3 DEF Explained, Held, InWindow, Claimed, WaitOf
<1>7. MissIsExplained'
  <2>1. index[w] # "absent" => Explained(w)'
    BY <1>2, <1>3 DEF Explained
  <2> QED
    BY <1>0, <1>1, <1>4, <1>6, <2>1, MissKept DEF Fresh, WaitOf
<1>8. MarkerIsHeld'
  BY <1>1, <1>3, <1>6, HeldKept
<1>9. WakeAccounting'
  BY <1>3, <1>4 DEF Inv, TypeOK, History, WakeAccounting, Present
<1> QED
  BY <1>5, <1>7, <1>8, <1>9

\* The cancellation of a callee touches no wait.
LEMMA StepSweepCancel ==
    ASSUME Inv, NEW s \in Sweeper, SweepCancel(s)
    PROVE  WakeAccounting' /\ FreshIsUntouched' /\ MissIsExplained' /\ MarkerIsHeld'
<1>0. PICK w \in Wait : w = sweeper[s].wait /\ ~Fresh(w)
  BY TriageWait DEF SweepCancel, Resting
<1>1. UNCHANGED <<index, marker, stream, exec, task, hist>>
  BY DEF SweepCancel, redisVars
<1>2. \A v \in Wait : v # w => callee'[v] = callee[v]
  BY <1>0 DEF SweepCancel, Inv, TypeOK
<1>3. \A u \in Sweeper : /\ sweeper'[u].wait \in {sweeper[u].wait, NoWait}
                         /\ sweeper'[u].todo = sweeper[u].todo
  BY NextEntryFacts DEF SweepCancel, Inv, TypeOK
<1>4. FreshIsUntouched'
  <2>1. \A v \in Wait : Fresh(v)' => Fresh(v) /\ v # w
    BY <1>0, <1>1 DEF Fresh
  <2> QED
    BY <1>1, <1>2, <1>3, <2>1, FreshKept DEF Inv
<1> QED
  BY <1>1, <1>4, QuietStep

\* A pass that goes to its next entry, or is given up, without having acted.
LEMMA StepSweepCut ==
    ASSUME Inv, NEW s \in Sweeper,
           SweepRelease(s) \/ SweepError(s) \/ SweepCrash(s)
    PROVE  WakeAccounting' /\ FreshIsUntouched' /\ MissIsExplained' /\ MarkerIsHeld'
<1>1. UNCHANGED <<index, marker, stream, exec, callee, task, hist>>
  BY DEF SweepRelease, SweepError, SweepCrash, redisVars
<1>2. \A u \in Sweeper : /\ sweeper'[u].wait \in {sweeper[u].wait, NoWait}
                         /\ sweeper'[u].todo \subseteq sweeper[u].todo
  <2>1. CASE NextEntry(s)
    BY <2>1, NextEntryFacts DEF Inv, TypeOK
  <2>2. CASE sweeper' = [sweeper EXCEPT ![s] = IdleSweeper]
    BY <2>2 DEF IdleSweeper, Inv, TypeOK, SweeperTypeOK
  <2> QED
    BY <2>1, <2>2 DEF SweepRelease, SweepError, SweepCrash
<1>3. FreshIsUntouched'
  <2>1. \A v \in Wait : Fresh(v)' => Fresh(v) /\ v # NoWait
    BY <1>1, WaitFacts DEF Fresh
  <2> QED
    BY <1>1, <1>2, <2>1, FreshKept DEF Inv
<1> QED
  BY <1>1, <1>3, QuietStep

\* The steps of a sweeper.
LEMMA StepSweep ==
    ASSUME Inv, NEW s \in Sweeper,
           SweepNext(s) \/ SweepError(s) \/ SweepCrash(s)
    PROVE  WakeAccounting' /\ FreshIsUntouched' /\ MissIsExplained' /\ MarkerIsHeld'
<1>0. sweeper \in [Sweeper -> SweeperRecord]
  BY DEF Inv, TypeOK, SweeperTypeOK
<1>1. CASE SweepFetch(s)
  <2>1. UNCHANGED <<index, marker, stream, exec, callee, task, hist>>
    BY <1>1 DEF SweepFetch, redisVars
  <2>2. FreshIsUntouched'
    <3> SUFFICES ASSUME NEW v \in Wait, Fresh(v)'
                 PROVE  Untouched(v)'
      BY DEF FreshIsUntouched
    <3>1. Untouched(v)
      BY <2>1 DEF Inv, FreshIsUntouched, Fresh
    <3>2. \A u \in Sweeper : sweeper'[u].wait # v /\ v \notin sweeper'[u].todo
      <4>1. /\ sweeper'[s].todo = {w \in Wait : index[w] = "due"}
            /\ sweeper'[s].wait = sweeper[s].wait
            /\ \A u \in Sweeper : u # s => sweeper'[u] = sweeper[u]
        BY <1>0, <1>1 DEF SweepFetch, SweeperRecord
      <4> QED
        BY <3>1, <4>1 DEF Untouched
    <3> QED
      BY <2>1, <3>1, <3>2 DEF Untouched, WaitOf
  <2> QED
    BY <2>1, <2>2, QuietStep
<1>2. ASSUME NEW w \in Wait, SweepPick(s, w)
      PROVE  WakeAccounting' /\ FreshIsUntouched' /\ MissIsExplained' /\ MarkerIsHeld'
  <2>1. UNCHANGED <<index, marker, stream, exec, callee, task, hist>>
    BY <1>2 DEF SweepPick, redisVars
  <2>2. /\ sweeper'[s].wait = w
        /\ sweeper'[s].todo \subseteq sweeper[s].todo
        /\ \A u \in Sweeper : u # s => sweeper'[u] = sweeper[u]
    BY <1>0, <1>2 DEF SweepPick, SweeperRecord
  <2>3. ~Fresh(w)
    BY <1>2 DEF SweepPick, Inv, FreshIsUntouched, Untouched
  <2>4. FreshIsUntouched'
    BY <2>1, <2>2, <2>3, FreshKept DEF Inv, Fresh
  <2> QED
    BY <2>1, <2>4, QuietStep
<1>3. CASE SweepRelease(s) \/ SweepError(s) \/ SweepCrash(s)
  BY <1>3, StepSweepCut
<1>4. CASE SweepLock(s)
  BY <1>0, <1>4, QuietSweep DEF SweepLock, SGoto, SweeperRecord, redisVars
<1>5. CASE SweepReadCaller(s)
  BY <1>0, <1>5, QuietSweep DEF SweepReadCaller, SGoto, SweeperRecord, redisVars
<1>6. CASE SweepReadOwner(s)
  BY <1>0, <1>6, QuietSweep DEF SweepReadOwner, SGoto, SweeperRecord, redisVars
<1>7. CASE SweepReadChild(s)
  BY <1>0, <1>7, QuietSweep DEF SweepReadChild, SGoto, SweeperRecord, redisVars
<1>8. CASE SweepReadLease(s)
  BY <1>0, <1>8, QuietSweep DEF SweepReadLease, SGoto, SweeperRecord, redisVars
<1>9. CASE SweepReadResult(s)
  BY <1>0, <1>9, QuietSweep DEF SweepReadResult, SweeperRecord, redisVars
<1> QED
  BY <1>1, <1>2, <1>3, <1>4, <1>5, <1>6, <1>7, <1>8, <1>9,
     StepSweepEmit, StepSweepExtend, StepSweepCancel, StepSweepDrop DEF SweepNext

\* A deadline that passes leaves the entry in place.
LEMMA StepDeadline ==
    ASSUME Inv, NEW w \in Wait, DeadlinePasses(w)
    PROVE  WakeAccounting' /\ FreshIsUntouched' /\ MissIsExplained' /\ MarkerIsHeld'
<1>1. UNCHANGED <<marker, stream, exec, callee, task, sweeper, hist>>
  BY DEF DeadlinePasses
<1>2. /\ index[w] = "live" /\ index'[w] = "due"
      /\ \A v \in Wait : v # w => index'[v] = index[v]
  BY DEF DeadlinePasses, Inv, TypeOK
<1>3. FreshIsUntouched'
  <2>1. ~Fresh(w)
    BY <1>2 DEF Inv, FreshIsUntouched, Untouched
  <2> QED
    BY <1>1, <1>2, <2>1, FreshKept DEF Inv, Fresh
<1>4. MissIsExplained'
  BY <1>1, <1>2, MissKept DEF Fresh, WaitOf, Explained, InWindow
<1>5. MarkerIsHeld'
  BY <1>1, HeldKept DEF Held, Claimed, WaitOf
<1>6. WakeAccounting'
  BY <1>1, <1>2 DEF Inv, WakeAccounting, Present
<1> QED
  BY <1>3, <1>4, <1>5, <1>6

-----------------------------------------------------------------------------
(* The callees.                                                            *)

\* The steps of a callee.
LEMMA StepCallee ==
    ASSUME Inv, NEW w \in Wait, CalleeNext(w)
    PROVE  WakeAccounting' /\ FreshIsUntouched' /\ MissIsExplained' /\ MarkerIsHeld'
<1> USE DEF CalleeNext, CalleeRuns, CalleeSuspends, CalleeStores, CalleeReplies,
            CalleeFinishes, CalleeCancelled, CalleeCrash, LeaseLapses,
            LeaseReturns, CeilingPasses, CalleeUnchanged, Fault
<1>1. UNCHANGED <<index, marker, exec, task, sweeper, hist>>
  OBVIOUS
<1>2. \A v \in Wait : v # w => callee'[v] = callee[v]
  BY DEF Inv, TypeOK
<1>3. \A v \in Wait : v # w => stream'[v] = stream[v]
  BY DEF Inv, TypeOK, Deliver
<1>4. CASE callee[w].pos = "none"
  <2>1. callee[w].alive
    BY <1>4 DEF Working
  <2>2. stream' = stream /\ callee'[w].pos = "none"
    BY <1>4, <2>1 DEF Inv, TypeOK, CalleeRecord, Working
  <2> QED
    BY <1>1, <1>2, <2>2, <1>4, QuietStep DEF Inv, FreshIsUntouched, Untouched, Fresh, WaitOf
<1>5. CASE callee[w].pos # "none"
  <2>1. ~Fresh(w)
    BY <1>5 DEF Inv, FreshIsUntouched, Untouched
  <2>2. FreshIsUntouched'
    BY <1>1, <1>2, <1>3, <2>1, FreshKept DEF Inv, Fresh
  <2> QED
    BY <1>1, <2>2, QuietStep
<1> QED
  BY <1>4, <1>5

-----------------------------------------------------------------------------
(* The theorems.                                                           *)

\* The invariant holds initially.
LEMMA InvInit == Init => Inv
<1> SUFFICES ASSUME Init PROVE Inv
  OBVIOUS
<1>1. TypeOK
  BY TypeInit
<1>2. WakeAccounting
  BY DEF Init, WakeAccounting, Present, NoHistory
<1>3. FreshIsUntouched
  BY WaitFacts DEF Init, FreshIsUntouched, Untouched, NoHistory, IdleTask,
                   IdleSweeper, GatePc
<1>4. MissIsExplained
  <2>1. \A w \in Wait : Fresh(w)
    BY WaitFacts, CallsAssumption DEF Init, Fresh
  <2> QED
    BY <2>1 DEF Init, MissIsExplained, IdleTask
<1>5. MarkerIsHeld
  BY DEF Init, MarkerIsHeld, NoHistory
<1> QED
  BY <1>1, <1>2, <1>3, <1>4, <1>5 DEF Inv

\* Every step keeps the invariant.
LEMMA InvNext == Inv /\ [Next]_vars => Inv'
<1> SUFFICES ASSUME Inv, [Next]_vars PROVE Inv'
  OBVIOUS
<1>1. TypeOK'
  BY TypeNext DEF Inv
<1>2. WakeAccounting' /\ FreshIsUntouched' /\ MissIsExplained' /\ MarkerIsHeld'
  <2>1. ASSUME NEW t \in Task, GateNext(t)
        PROVE  WakeAccounting' /\ FreshIsUntouched' /\ MissIsExplained' /\ MarkerIsHeld'
    BY <2>1, StepGateTake, StepGateClaim, StepGateMiss, StepGateMark, StepGateDeny,
       StepGateUnregistered, StepGateError DEF GateNext
  <2>2. CASE SweepLockExpires \/ UNCHANGED vars
    <3>1. UNCHANGED <<index, marker, stream, exec, callee, task, sweeper, hist>>
      BY <2>2 DEF SweepLockExpires, vars, redisVars
    <3> QED
      BY <3>1, QuietStep DEF Inv, FreshIsUntouched, Untouched, Fresh, WaitOf
  <2> QED
    BY <2>1, <2>2, StepCaller, StepTaskCrash, StepSweep, StepCallee, StepDeadline
       DEF Next
<1> QED
  BY <1>1, <1>2 DEF Inv

\* The inductive invariant behind the next two theorems: untouched until
\* called, a missing entry is explained, a marker is held.
THEOREM InvHolds == Spec => []Inv
BY InvInit, InvNext, PTL DEF Spec

\* The gate (wait_gate.consume_wait_entry) wakes a caller at most once per
\* reply, plus once for each of the named reasons: a renewal that re-created the
\* entry, a copy that found neither entry nor marker, a gate error.
THEOREM WakesAccounted == Spec => []WakeAccounting
<1>1. Inv => WakeAccounting
  BY DEF Inv
<1> QED
  BY <1>1, InvHolds, PTL

\* The gate drops a reply as a duplicate only when another copy woke the caller,
\* is about to, or died holding the claim (runner.py, the denied reply).
THEOREM DropsSuperseded == Spec => []DropIsSuperseded
<1>1. Inv => DropIsSuperseded
  BY DEF Inv, MarkerIsHeld, Held, DropIsSuperseded
<1> QED
  BY <1>1, InvHolds, PTL

\* A sweeper never releases the shard lock of another
\* (wait_sweeper._sweep_shard, the token given to release_scoped_lock).
THEOREM LockReleasedByHolder == Spec => OnlyHolderReleases
<1>1. TypeOK /\ [Next]_vars =>
         [\A s \in Sweeper : lock = s /\ lock' # s =>
              UNCHANGED sweeper \/ sweeper'[s].pc = "idle"]_vars
  <2> SUFFICES ASSUME TypeOK, Next, NEW s \in Sweeper, lock = s, lock' # s
               PROVE  UNCHANGED sweeper \/ sweeper'[s].pc = "idle"
    OBVIOUS
  <2>1. ASSUME NEW u \in Sweeper, SweepRelease(u)
        PROVE  sweeper'[s].pc = "idle"
    BY <2>1 DEF SweepRelease, IdleSweeper, TypeOK, SweeperTypeOK
  <2>2. ASSUME NEW u \in Sweeper, SweepNext(u), ~SweepRelease(u)
        PROVE  FALSE
    BY <2>2, NoValueAssumption
       DEF SweepNext, SweepLock, SweepFetch, SweepPick, SweepReadCaller,
           SweepReadOwner, SweepReadChild, SweepReadLease, SweepReadResult,
           SweepEmit, SweepExtend, SweepCancel, SweepDrop
  <2>3. ASSUME NEW t \in Task, GateNext(t)
        PROVE  FALSE
    BY <2>3 DEF GateNext, GateTake, GateClaim, GateMiss, GateMark, GateDeny,
                GateUnregistered, GateError
  <2>4. ASSUME NEW t \in Task, CallerNext(t) \/ TaskCrash(t)
        PROVE  FALSE
    BY <2>4 DEF CallerNext, StartCaller, Resume, HandlerCalls, HandlerSends,
                HandlerSuspends, HandlerFinishes, TaskCrash
  <2>5. ASSUME NEW w \in Wait, CalleeNext(w) \/ DeadlinePasses(w)
        PROVE  FALSE
    BY <2>5 DEF CalleeNext, CalleeRuns, CalleeSuspends, CalleeStores,
                CalleeReplies, CalleeFinishes, CalleeCancelled, CalleeCrash,
                LeaseLapses, LeaseReturns, CeilingPasses, CalleeUnchanged,
                DeadlinePasses
  <2>6. CASE SweepLockExpires
    BY <2>6 DEF SweepLockExpires
  <2>7. ASSUME NEW u \in Sweeper, SweepError(u) \/ SweepCrash(u)
        PROVE  FALSE
    BY <2>7 DEF SweepError, SweepCrash
  <2> QED
    BY <2>1, <2>2, <2>3, <2>4, <2>5, <2>6, <2>7 DEF Next
<1> QED
  BY <1>1, TypeCorrect, PTL DEF Spec, OnlyHolderReleases

-----------------------------------------------------------------------------
(* A call that nothing has answered keeps its entry.                       *)

\* The environments without a Redis error, a worker that dies inside a handler
\* or a handler that returns without waiting: each of them takes an entry away
\* unanswered by design, and is left to the runs.
Steady == Environment \cap {"redis_error", "handler_crash", "abandon"} = {}

Answered(w) == hist[w].answer # "none"

\* Task t holds the claim on w; task t decides what the caller c does next.
Holds(t, w) == task[t].pc \in {"mark", "resume"} /\ WaitOf(t) = w
Deciding(t, c) == task[t].pc = "handler" /\ task[t].caller = c

\* Task t runs an activation of the caller c.
Active(t, c) ==
    task[t].pc \in {"handler", "sending", "unwind"} /\ task[t].caller = c

\* The gate let no reply to the caller c through twice.
WokenOnce(c) == \A w \in Wait : w[1] = c => hist[w].allowed <= 1

\* Every wake-up, done or about to be, is one that the gate let through.
ClaimsAreCounted ==
    \A w \in Wait :
        /\ Answered(w) => hist[w].allowed >= 1
        /\ \A t \in Task : Holds(t, w) =>
              /\ hist[w].allowed >= 1
              /\ Answered(w) => hist[w].allowed >= 2
              /\ \A u \in Task : u # t /\ Holds(u, w) => hist[w].allowed >= 2

\* A caller that was started runs on a live worker.
StartedIsUp ==
    \A c \in Caller :
        /\ exec[c].status = "QUEUED" =>
              exec[c].calls = 0 /\ \A t \in Task : ~Active(t, c)
        /\ exec[c].status # "QUEUED" => exec[c].up

\* All calls of c are answered.
AllAnswered(c) == \A w \in Wait : w[1] = c /\ ~Fresh(w) => Answered(w)

\* The activations of a caller form a chain: it has at most one call out, and
\* none while a handler is still to decide, or after one has decided to finish.
OneActivation ==
    \A c \in Caller : WokenOnce(c) =>
        /\ \A w \in Wait : w[1] = c /\ w[2] < exec[c].calls => Answered(w)
        /\ exec[c].status \in Terminal => AllAnswered(c)
        /\ \A t \in Task : Deciding(t, c) =>
              /\ exec[c].status \notin Terminal
              /\ AllAnswered(c)
              /\ \A u \in Task : u # t => ~Deciding(u, c)

\* A sweeper has decided to drop an entry only for a call that was answered.
DropIsAnswered ==
    \A s \in Sweeper, w \in Wait : sweeper[s].wait = w =>
        /\ sweeper[s].pc = "drop" /\ WokenOnce(w[1]) => Answered(w)
        /\ sweeper[s].pc = "owner" => exec[w[1]].status # "QUEUED"

EntryKept ==
    \A w \in Wait :
        ~Fresh(w) /\ ~Answered(w) /\ WokenOnce(w[1]) =>
            index[w] # "absent" \/ Claimed(w) \/ hist[w].lostClaim

Chained == /\ ClaimsAreCounted /\ StartedIsUp /\ OneActivation
           /\ DropIsAnswered /\ EntryKept

\* What the counters compare with.
LEMMA Counts ==
    ASSUME Inv
    PROVE  /\ \A w \in Wait : hist[w].allowed \in Nat /\ w[2] \in Nat
           /\ \A c \in Caller : exec[c].calls \in Nat
BY WaitFacts, CallsAssumption DEF Inv, TypeOK, History, ExecRecord

\* Callers, answers and claims are left alone, and no entry goes away.
LEMMA QuietChain ==
    ASSUME Inv, Chained, exec' = exec,
           \A v \in Wait : /\ hist'[v].allowed = hist[v].allowed
                           /\ hist'[v].answer = hist[v].answer
                           /\ hist'[v].lostClaim = hist[v].lostClaim
                           /\ index'[v] = "absent" => index[v] = "absent",
           \A u \in Task : /\ \A v \in Wait : Holds(u, v)' <=> Holds(u, v)
                           /\ \A c \in Caller : Deciding(u, c)' <=> Deciding(u, c)
                           /\ \A c \in Caller : Active(u, c)' => Active(u, c),
           \A u \in Sweeper : sweeper'[u].pc \in {"drop", "owner"} =>
               /\ sweeper'[u].pc = sweeper[u].pc
               /\ sweeper'[u].wait = sweeper[u].wait
    PROVE  Chained'
<1>1. /\ \A v \in Wait : /\ Answered(v)' <=> Answered(v)
                         /\ Fresh(v)' <=> Fresh(v)
                         /\ Claimed(v)' <=> Claimed(v)
      /\ \A c \in Caller : /\ WokenOnce(c)' <=> WokenOnce(c)
                           /\ AllAnswered(c)' <=> AllAnswered(c)
  <2>1. \A v \in Wait : /\ Claimed(v) <=> \E u \in Task : Holds(u, v)
                        /\ Claimed(v)' <=> \E u \in Task : Holds(u, v)'
    BY DEF Claimed, Holds
  <2>2. \A v \in Wait : Claimed(v)' <=> Claimed(v)
    BY <2>1
  <2>3. \A v \in Wait : /\ Answered(v)' <=> Answered(v)
                        /\ Fresh(v)' <=> Fresh(v)
    BY DEF Answered, Fresh
  <2>4. \A c \in Caller : WokenOnce(c)' <=> WokenOnce(c)
    BY DEF WokenOnce
  <2>5. \A c \in Caller : AllAnswered(c)' <=> AllAnswered(c)
    BY <2>3 DEF AllAnswered
  <2> QED
    BY <2>2, <2>3, <2>4, <2>5
<1>2. ClaimsAreCounted'
  BY <1>1 DEF Chained, ClaimsAreCounted
<1>3. StartedIsUp'
  BY DEF Chained, StartedIsUp
<1>4. OneActivation'
  BY <1>1 DEF Chained, OneActivation
<1>5. DropIsAnswered'
  BY <1>1, WaitFacts DEF Chained, DropIsAnswered
<1>6. EntryKept'
  BY <1>1, WaitFacts DEF Chained, EntryKept
<1> QED
  BY <1>2, <1>3, <1>4, <1>5, <1>6 DEF Chained

\* The gate lets a copy through: task t now holds the claim on w.
LEMMA AdmitChain ==
    ASSUME Inv, Chained, NEW t \in Task, NEW w \in Wait, ~Fresh(w),
           exec' = exec, sweeper' = sweeper,
           \A c \in Caller : /\ ~Deciding(t, c) /\ ~Deciding(t, c)'
                               /\ ~Active(t, c)',
           \A v \in Wait : /\ ~Holds(t, v)
                           /\ Holds(t, v)' <=> v = w,
           \A u \in Task : u # t => task'[u] = task[u],
           hist'[w].allowed = hist[w].allowed + 1,
           \A v \in Wait : /\ hist'[v].answer = hist[v].answer
                           /\ hist'[v].lostClaim = hist[v].lostClaim,
           \A v \in Wait : v # w => /\ hist'[v].allowed = hist[v].allowed
                                   /\ index'[v] = index[v]
    PROVE  Chained'
<1>1. \A v \in Wait : /\ Answered(v)' <=> Answered(v)
                      /\ Fresh(v)' <=> Fresh(v)
  BY DEF Answered, Fresh
<1>2. \A u \in Task : u # t =>
          /\ \A v \in Wait : Holds(u, v)' <=> Holds(u, v)
          /\ \A c \in Caller : Deciding(u, c)' <=> Deciding(u, c)
          /\ \A c \in Caller : Active(u, c)' <=> Active(u, c)
  BY DEF Holds, Deciding, Active, WaitOf
<1>3. \A c \in Caller : /\ WokenOnce(c)' => WokenOnce(c)
                        /\ AllAnswered(c)' <=> AllAnswered(c)
  <2>1. \A v \in Wait : hist'[v].allowed <= 1 => hist[v].allowed <= 1
    BY Counts
  <2> QED
    BY <1>1, <2>1 DEF WokenOnce, AllAnswered
<1>4. ClaimsAreCounted'
  <2> SUFFICES ASSUME NEW v \in Wait
               PROVE  /\ Answered(v)' => hist'[v].allowed >= 1
                      /\ \A u \in Task : Holds(u, v)' =>
                            /\ hist'[v].allowed >= 1
                            /\ Answered(v)' => hist'[v].allowed >= 2
                            /\ \A x \in Task : x # u /\ Holds(x, v)' =>
                                                  hist'[v].allowed >= 2
    BY DEF ClaimsAreCounted
  <2>1. /\ Answered(v) => hist[v].allowed >= 1
        /\ \A u \in Task : Holds(u, v) =>
              /\ hist[v].allowed >= 1
              /\ Answered(v) => hist[v].allowed >= 2
              /\ \A x \in Task : x # u /\ Holds(x, v) => hist[v].allowed >= 2
    BY DEF Chained, ClaimsAreCounted
  <2>2. hist[v].allowed \in Nat
    BY Counts
  <2>3. CASE v # w
    BY <1>1, <1>2, <2>1, <2>3
  <2>4. CASE v = w
    BY <1>1, <1>2, <2>1, <2>2, <2>4
  <2> QED
    BY <2>3, <2>4
<1>5. StartedIsUp'
  BY <1>2 DEF Chained, StartedIsUp
<1>6. OneActivation'
  BY <1>1, <1>2, <1>3 DEF Chained, OneActivation
<1>7. DropIsAnswered'
  BY <1>1, <1>3, WaitFacts DEF Chained, DropIsAnswered
<1>8. EntryKept'
  <2> SUFFICES ASSUME NEW v \in Wait, ~Fresh(v)', ~Answered(v)', WokenOnce(v[1])'
               PROVE  index'[v] # "absent" \/ Claimed(v)' \/ hist'[v].lostClaim
    BY DEF EntryKept
  <2>1. CASE v = w
    BY <2>1 DEF Claimed, Holds
  <2>2. CASE v # w
    <3>1. index[v] # "absent" \/ Claimed(v) \/ hist[v].lostClaim
      BY <1>1, <1>3, WaitFacts DEF Chained, EntryKept
    <3>2. Claimed(v) => Claimed(v)'
      <4> SUFFICES ASSUME Claimed(v) PROVE Claimed(v)'
        OBVIOUS
      <4>1. PICK u \in Task : Holds(u, v)
        BY DEF Claimed, Holds
      <4> QED
        BY <1>2, <4>1 DEF Claimed, Holds
    <3> QED
      BY <2>2, <3>1, <3>2
  <2> QED
    BY <2>1, <2>2
<1> QED
  BY <1>4, <1>5, <1>6, <1>7, <1>8 DEF Chained

\* The claimant wakes its caller: of a caller that was never woken twice, this
\* is the last call, and it was the only one out.
LEMMA ResumeChain ==
    ASSUME Inv, Chained, NEW t \in Task, Resume(t)
    PROVE  Chained'
<1>0. PICK w \in Wait : w = WaitOf(t) /\ ~Fresh(w)
  BY GateGoto DEF Resume, GatePc, TaskPc
<1>c. PICK c \in Caller : c = w[1]
  BY WaitFacts
<1>1. /\ Holds(t, w)
      /\ task'[t].pc = "handler" /\ task'[t].caller = c
      /\ \A u \in Task : u # t => task'[u] = task[u]
  <2>1. task[t].pc \in GatePc /\ TaskTypeOK /\ Goto(t, "handler") /\ "handler" \in TaskPc
    BY DEF Resume, GatePc, Inv, TypeOK, TaskPc
  <2>2. /\ task'[t].pc = "handler"
        /\ task'[t].caller = task[t].caller
        /\ \A u \in Task : u # t => task'[u] = task[u]
    BY <2>1, GotoFacts
  <2>3. task[t].caller = c
    BY <1>0, <1>c DEF WaitOf
  <2> QED
    BY <1>0, <2>2, <2>3 DEF Holds, Resume
<1>2. UNCHANGED <<index, sweeper>>
  BY DEF Resume, redisVars
<1>3. /\ hist'[w].answer # "none"
      /\ \A v \in Wait : v # w => hist'[v] = hist[v]
      /\ \A v \in Wait : /\ hist'[v].allowed = hist[v].allowed
                         /\ hist'[v].lostClaim = hist[v].lostClaim
  <2>1. PICK a \in Kind : hist' = [hist EXCEPT ![w].answer = IF @ = "none" THEN a
                                                             ELSE @]
    BY <1>0, GateTaskFacts DEF Resume, Inv, TypeOK, GatePc
  <2> QED
    BY <2>1 DEF Inv, TypeOK, History, Kind
<1>4. /\ exec'[c].status = "RUNNING" /\ exec'[c].up = TRUE
      /\ exec'[c].calls = exec[c].calls
      /\ \A d \in Caller : d # c => exec'[d] = exec[d]
  <2>1. exec' = [exec EXCEPT ![c].status = "RUNNING", ![c].up = TRUE]
    BY <1>0, <1>c DEF Resume
  <2> QED
    BY <2>1 DEF Inv, TypeOK, ExecRecord
<1>5. \A v \in Wait : /\ Fresh(v)' <=> Fresh(v)
                      /\ Answered(v)' <=> Answered(v) \/ v = w
  <2>1. \A d \in Caller : exec'[d].calls = exec[d].calls
    BY <1>4
  <2> QED
    BY <1>3, <2>1, WaitFacts DEF Fresh, Answered
<1>6. \A d \in Caller : /\ WokenOnce(d)' <=> WokenOnce(d)
                        /\ AllAnswered(d) => AllAnswered(d)'
  BY <1>3, <1>5 DEF WokenOnce, AllAnswered
<1>7. /\ \A u \in Task : u # t =>
           /\ \A v \in Wait : Holds(u, v)' <=> Holds(u, v)
           /\ \A d \in Caller : Deciding(u, d)' <=> Deciding(u, d)
           /\ \A d \in Caller : Active(u, d)' <=> Active(u, d)
      /\ \A v \in Wait : ~Holds(t, v)' /\ (Holds(t, v) => v = w)
      /\ \A d \in Caller : /\ Deciding(t, d)' <=> d = c
                           /\ Active(t, d)' <=> d = c
  BY <1>0, <1>1 DEF Holds, Deciding, Active, WaitOf
<1>8. ClaimsAreCounted'
  BY <1>1, <1>3, <1>5, <1>7 DEF Chained, ClaimsAreCounted
<1>9. StartedIsUp'
  BY <1>4, <1>7 DEF Chained, StartedIsUp
<1>10. OneActivation'
  <2> SUFFICES ASSUME NEW d \in Caller, WokenOnce(d)
               PROVE  /\ \A v \in Wait : v[1] = d /\ v[2] < exec'[d].calls =>
                                            Answered(v)'
                      /\ exec'[d].status \in Terminal => AllAnswered(d)'
                      /\ \A u \in Task : Deciding(u, d)' =>
                            /\ exec'[d].status \notin Terminal
                            /\ AllAnswered(d)'
                            /\ \A x \in Task : x # u => ~Deciding(x, d)'
    BY <1>6 DEF OneActivation
  <2>1. /\ \A v \in Wait : v[1] = d /\ v[2] < exec[d].calls => Answered(v)
        /\ exec[d].status \in Terminal => AllAnswered(d)
        /\ \A u \in Task : Deciding(u, d) =>
              /\ exec[d].status \notin Terminal
              /\ AllAnswered(d)
              /\ \A x \in Task : x # u => ~Deciding(x, d)
    BY DEF Chained, OneActivation
  <2>2. CASE d # c
    BY <1>4, <1>5, <1>6, <1>7, <2>1, <2>2
  <2>3. CASE d = c
    <3>1. ~Answered(w)
      <4>1. hist[w].allowed <= 1
        BY <1>c, <2>3 DEF WokenOnce
      <4>2. Answered(w) => hist[w].allowed >= 2
        BY <1>1 DEF Chained, ClaimsAreCounted
      <4> QED
        BY <4>1, <4>2, Counts
    <3>2. \A u \in Task : ~Deciding(u, c)
      BY <1>0, <1>c, <2>1, <2>3, <3>1 DEF AllAnswered
    <3>3. AllAnswered(c)'
      <4> SUFFICES ASSUME NEW v \in Wait, v[1] = c, ~Fresh(v), v # w
                   PROVE  Answered(v)
        BY <1>5 DEF AllAnswered
      <4>1. /\ w[2] \in Nat /\ v[2] \in Nat /\ exec[c].calls \in Nat
            /\ v[2] <= exec[c].calls /\ w[2] <= exec[c].calls
        BY <1>0, <1>c, Counts DEF Fresh
      <4>2. ~(w[2] < exec[c].calls)
        BY <1>c, <2>1, <2>3, <3>1
      <4>3. v[2] # w[2]
        BY <1>c, WaitFacts
      <4>4. v[2] < exec[c].calls
        BY <4>1, <4>2, <4>3
      <4> QED
        BY <2>1, <2>3, <4>4
    <3>4. exec'[c].status \notin Terminal
      BY <1>4 DEF Terminal
    <3> QED
      BY <1>4, <1>5, <1>7, <2>1, <2>3, <3>2, <3>3, <3>4
  <2> QED
    BY <2>2, <2>3
<1>11. DropIsAnswered'
  <2>1. \A d \in Caller : exec[d].status # "QUEUED" => exec'[d].status # "QUEUED"
    BY <1>4
  <2> QED
    BY <1>2, <1>5, <1>6, <2>1, WaitFacts DEF Chained, DropIsAnswered
<1>12. EntryKept'
  <2>1. \A v \in Wait : v # w => (Claimed(v) => Claimed(v)')
    <3> SUFFICES ASSUME NEW v \in Wait, v # w, Claimed(v)
                 PROVE  Claimed(v)'
      OBVIOUS
    <3>1. PICK u \in Task : Holds(u, v)
      BY DEF Claimed, Holds
    <3>2. Holds(u, v)'
      BY <1>7, <3>1
    <3> QED
      BY <3>2 DEF Claimed, Holds
  <2> QED
    BY <1>2, <1>3, <1>5, <1>6, <2>1, WaitFacts DEF Chained, EntryKept
<1> QED
  BY <1>8, <1>9, <1>10, <1>11, <1>12 DEF Chained

\* A started caller has made no call yet.
LEMMA StartChain ==
    ASSUME Inv, Chained, NEW t \in Task, NEW c \in Caller, StartCaller(t, c)
    PROVE  Chained'
<1>1. /\ task[t].pc = "idle"
      /\ task'[t].pc = "handler" /\ task'[t].caller = c
      /\ \A u \in Task : u # t => task'[u] = task[u]
  BY DEF StartCaller, Inv, TypeOK, TaskTypeOK
<1>2. UNCHANGED <<index, sweeper, hist>>
  BY DEF StartCaller, redisVars
<1>3. /\ exec[c].status = "QUEUED" /\ exec'[c].status = "RUNNING"
      /\ exec'[c].up = TRUE /\ exec'[c].calls = exec[c].calls
      /\ \A d \in Caller : d # c => exec'[d] = exec[d]
  BY DEF StartCaller, Inv, TypeOK, ExecRecord
<1>4. /\ \A v \in Wait : /\ Fresh(v)' <=> Fresh(v)
                         /\ Answered(v)' <=> Answered(v)
      /\ \A d \in Caller : /\ WokenOnce(d)' <=> WokenOnce(d)
                           /\ AllAnswered(d)' <=> AllAnswered(d)
  <2>1. \A d \in Caller : exec'[d].calls = exec[d].calls
    BY <1>3
  <2>2. \A v \in Wait : /\ Fresh(v)' <=> Fresh(v)
                        /\ Answered(v)' <=> Answered(v)
    BY <1>2, <2>1, WaitFacts DEF Fresh, Answered
  <2> QED
    BY <1>2, <2>2 DEF WokenOnce, AllAnswered
<1>5. /\ \A u \in Task : \A v \in Wait : Holds(u, v)' <=> Holds(u, v)
      /\ \A u \in Task : u # t =>
            \A d \in Caller : /\ Deciding(u, d)' <=> Deciding(u, d)
                              /\ Active(u, d)' <=> Active(u, d)
      /\ \A d \in Caller : /\ Deciding(t, d)' <=> d = c
                           /\ Active(t, d)' <=> d = c
  BY <1>1 DEF Holds, Deciding, Active, WaitOf
<1>6. ClaimsAreCounted'
  BY <1>2, <1>4, <1>5 DEF Chained, ClaimsAreCounted
<1>7. exec[c].calls = 0 /\ \A u \in Task : ~Deciding(u, c)
  BY <1>3 DEF Chained, StartedIsUp, Active, Deciding
<1>8. StartedIsUp'
  BY <1>1, <1>3, <1>5 DEF Chained, StartedIsUp
<1>9. AllAnswered(c)
  <2>1. \A v \in Wait : v[1] = c => Fresh(v)
    BY <1>7, WaitFacts, CallsAssumption DEF Fresh
  <2> QED
    BY <2>1 DEF AllAnswered
<1>10. OneActivation'
  <2>1. exec'[c].status \notin Terminal
    BY <1>3 DEF Terminal
  <2> QED
    BY <1>1, <1>3, <1>4, <1>5, <1>7, <1>9, <2>1 DEF Chained, OneActivation
<1>11. DropIsAnswered'
  <2>1. \A d \in Caller : exec[d].status # "QUEUED" => exec'[d].status # "QUEUED"
    BY <1>3
  <2> QED
    BY <1>2, <1>4, <2>1, WaitFacts DEF Chained, DropIsAnswered
<1>12. EntryKept'
  <2>1. \A v \in Wait : Claimed(v) => Claimed(v)'
    BY <1>5 DEF Claimed, Holds
  <2> QED
    BY <1>2, <1>4, <2>1, WaitFacts DEF Chained, EntryKept
<1> QED
  BY <1>6, <1>8, <1>10, <1>11, <1>12 DEF Chained

\* A handler that calls has all earlier calls answered; the new one has an entry.
LEMMA CallChain ==
    ASSUME Inv, Chained, Steady, NEW t \in Task, HandlerCalls(t)
    PROVE  Chained'
<1>0. PICK c \in Caller : c = task[t].caller
  BY DEF HandlerCalls, Inv, TypeOK, TaskTypeOK, TaskRecord
<1>1. PICK n \in 1..MaxCalls : n = exec[c].calls + 1 /\ <<c, n>> \in Wait
  <2>1. exec[c].calls \in 0..MaxCalls /\ exec[c].calls < MaxCalls
    BY <1>0 DEF HandlerCalls, Inv, TypeOK, ExecRecord
  <2>2. exec[c].calls + 1 \in 1..MaxCalls
    BY <2>1, CallsAssumption
  <2> QED
    BY <2>2, WaitFacts
<1>2. PICK w \in Wait : w = <<c, n>> /\ w[1] = c /\ w[2] = n
  BY <1>1
<1>3. /\ exec' = [exec EXCEPT ![c].calls = @ + 1]
      /\ index' = [index EXCEPT ![w] = "live"]
      /\ UNCHANGED <<hist, sweeper>>
  BY <1>0, <1>1, <1>2 DEF HandlerCalls, Fault, Steady
<1>4. /\ exec'[c].calls = n
      /\ \A d \in Caller : d # c => exec'[d].calls = exec[d].calls
      /\ \A d \in Caller : /\ exec'[d].status = exec[d].status
                           /\ exec'[d].up = exec[d].up
  BY <1>1, <1>3 DEF Inv, TypeOK, ExecRecord
<1>5. /\ Fresh(w) /\ ~Fresh(w)'
      /\ \A v \in Wait : v # w => (Fresh(v)' <=> Fresh(v))
      /\ \A v \in Wait : v[1] = c => (~Fresh(v) <=> v[2] < n)
  <2>1. \A v \in Wait : v # w => v[1] # c \/ v[2] # n
    BY <1>2, WaitFacts
  <2> QED
    BY <1>1, <1>2, <1>4, <2>1, Counts, WaitFacts DEF Fresh
<1>6. \A u \in Task : u # t => task'[u] = task[u]
  BY DEF HandlerCalls, Inv, TypeOK, TaskTypeOK
<1>7. task[t].pc = "handler" /\ task'[t].pc = "sending"
  BY DEF HandlerCalls, Inv, TypeOK, TaskTypeOK, TaskRecord
<1>8. /\ \A u \in Task : \A v \in Wait : Holds(u, v)' <=> Holds(u, v)
      /\ \A u \in Task : u # t =>
            \A d \in Caller : Deciding(u, d)' <=> Deciding(u, d)
      /\ \A d \in Caller : ~Deciding(t, d)'
      /\ Deciding(t, c) /\ Active(t, c)
  BY <1>0, <1>6, <1>7 DEF Holds, Deciding, Active, WaitOf
<1>9. /\ \A v \in Wait : Answered(v)' <=> Answered(v)
      /\ \A d \in Caller : WokenOnce(d)' <=> WokenOnce(d)
      /\ \A v \in Wait : Claimed(v) => Claimed(v)'
  BY <1>3, <1>8 DEF Answered, WokenOnce, Claimed, Holds
<1>10. ClaimsAreCounted'
  BY <1>3, <1>8, <1>9 DEF Chained, ClaimsAreCounted
<1>11. StartedIsUp'
  <2>1. exec[c].status # "QUEUED"
    BY <1>8 DEF Chained, StartedIsUp
  <2>2. \A u \in Task : \A d \in Caller : d # c => (Active(u, d)' => Active(u, d))
    <3>1. task'[t].caller = c
      BY <1>0 DEF HandlerCalls, Inv, TypeOK, TaskTypeOK, TaskRecord
    <3> QED
      BY <1>6, <3>1 DEF Active
  <2> QED
    BY <1>4, <2>1, <2>2 DEF Chained, StartedIsUp
<1>12. OneActivation'
  <2> SUFFICES ASSUME NEW d \in Caller, WokenOnce(d)
               PROVE  /\ \A v \in Wait : v[1] = d /\ v[2] < exec'[d].calls =>
                                            Answered(v)
                      /\ exec[d].status \in Terminal => AllAnswered(d)'
                      /\ \A u \in Task : Deciding(u, d)' =>
                            /\ exec[d].status \notin Terminal
                            /\ AllAnswered(d)'
                            /\ \A x \in Task : x # u => ~Deciding(x, d)'
    BY <1>4, <1>9 DEF OneActivation
  <2>1. /\ \A v \in Wait : v[1] = d /\ v[2] < exec[d].calls => Answered(v)
        /\ exec[d].status \in Terminal => AllAnswered(d)
        /\ \A u \in Task : Deciding(u, d) =>
              /\ exec[d].status \notin Terminal
              /\ AllAnswered(d)
              /\ \A x \in Task : x # u => ~Deciding(x, d)
    BY DEF Chained, OneActivation
  <2>2. CASE d # c
    <3>1. AllAnswered(d)' <=> AllAnswered(d)
      BY <1>2, <1>5, <1>9, <2>2 DEF AllAnswered
    <3> QED
      BY <1>4, <1>8, <2>1, <2>2, <3>1
  <2>3. CASE d = c
    <3>1. \A v \in Wait : v[1] = c /\ v[2] < n => Answered(v)
      BY <1>5, <1>8, <2>1, <2>3 DEF AllAnswered
    <3>2. exec[c].status \notin Terminal /\ \A u \in Task : ~Deciding(u, c)'
      BY <1>8, <2>1, <2>3
    <3> QED
      BY <1>4, <2>3, <3>1, <3>2
  <2> QED
    BY <2>2, <2>3
<1>13. DropIsAnswered'
  BY <1>3, <1>4, <1>9, WaitFacts DEF Chained, DropIsAnswered
<1>14. EntryKept'
  <2>1. /\ index'[w] = "live"
        /\ \A v \in Wait : v # w => index'[v] = index[v]
    BY <1>3 DEF Inv, TypeOK
  <2> QED
    BY <1>3, <1>5, <1>9, <2>1, WaitFacts DEF Chained, EntryKept
<1> QED
  BY <1>10, <1>11, <1>12, <1>13, <1>14 DEF Chained

\* A handler that returns for good has all its calls answered; one that returns
\* suspended only says so.
LEMMA ReturnChain ==
    ASSUME Inv, Chained, Steady, NEW t \in Task,
           HandlerSuspends(t) \/ HandlerFinishes(t)
    PROVE  Chained'
<1>0. PICK c \in Caller : c = task[t].caller
  BY NoValueAssumption
     DEF HandlerSuspends, HandlerFinishes, Inv, TypeOK, TaskTypeOK, TaskRecord
<1>1. PICK status \in {"WAITING_AGENT", "COMPLETED"} :
         /\ exec' = [exec EXCEPT ![c].status = status]
         /\ status = "COMPLETED" => Deciding(t, c)
         /\ task[t].pc \in {"handler", "unwind"} /\ Active(t, c)
         /\ task' = [task EXCEPT ![t] = IdleTask]
         /\ UNCHANGED <<index, sweeper, hist>>
  BY <1>0 DEF HandlerSuspends, HandlerFinishes, Steady, Deciding, Active,
                redisVars
<1>2. /\ exec'[c].status = status
      /\ \A d \in Caller : d # c => exec'[d].status = exec[d].status
      /\ \A d \in Caller : /\ exec'[d].calls = exec[d].calls
                           /\ exec'[d].up = exec[d].up
  BY <1>1 DEF Inv, TypeOK, ExecRecord
<1>3. /\ task'[t].pc = "idle"
      /\ \A u \in Task : u # t => task'[u] = task[u]
  BY <1>1 DEF Inv, TypeOK, TaskTypeOK, IdleTask
<1>4. /\ \A u \in Task : \A v \in Wait : Holds(u, v)' <=> Holds(u, v)
      /\ \A u \in Task : \A d \in Caller :
            /\ Deciding(u, d)' <=> Deciding(u, d) /\ u # t
            /\ Active(u, d)' => Active(u, d)
  BY <1>1, <1>3 DEF Holds, Deciding, Active, WaitOf
<1>5. /\ \A v \in Wait : /\ Answered(v)' <=> Answered(v)
                         /\ Fresh(v)' <=> Fresh(v)
                         /\ Claimed(v) => Claimed(v)'
      /\ \A d \in Caller : /\ WokenOnce(d)' <=> WokenOnce(d)
                           /\ AllAnswered(d)' <=> AllAnswered(d)
  <2>1. \A v \in Wait : /\ Answered(v)' <=> Answered(v)
                        /\ Fresh(v)' <=> Fresh(v)
    BY <1>1, <1>2, WaitFacts DEF Answered, Fresh
  <2> QED
    BY <1>1, <1>4, <2>1 DEF WokenOnce, AllAnswered, Claimed, Holds
<1>6. exec[c].status # "QUEUED"
  BY <1>1 DEF Chained, StartedIsUp
<1>7. ClaimsAreCounted'
  BY <1>1, <1>4, <1>5 DEF Chained, ClaimsAreCounted
<1>8. StartedIsUp'
  BY <1>2, <1>4, <1>6 DEF Chained, StartedIsUp
<1>9. OneActivation'
  <2> SUFFICES ASSUME NEW d \in Caller, WokenOnce(d)
               PROVE  /\ \A v \in Wait : v[1] = d /\ v[2] < exec[d].calls =>
                                            Answered(v)
                      /\ exec'[d].status \in Terminal => AllAnswered(d)
                      /\ \A u \in Task : Deciding(u, d)' =>
                            /\ exec'[d].status \notin Terminal
                            /\ AllAnswered(d)
                            /\ \A x \in Task : x # u => ~Deciding(x, d)'
    BY <1>2, <1>5 DEF OneActivation
  <2>1. /\ \A v \in Wait : v[1] = d /\ v[2] < exec[d].calls => Answered(v)
        /\ exec[d].status \in Terminal => AllAnswered(d)
        /\ \A u \in Task : Deciding(u, d) =>
              /\ exec[d].status \notin Terminal
              /\ AllAnswered(d)
              /\ \A x \in Task : x # u => ~Deciding(x, d)
    BY DEF Chained, OneActivation
  <2>2. status # "COMPLETED" => status \notin Terminal
    BY <1>1 DEF Terminal
  <2> QED
    BY <1>1, <1>2, <1>4, <2>1, <2>2
<1>10. DropIsAnswered'
  <2>1. \A d \in Caller : exec[d].status # "QUEUED" => exec'[d].status # "QUEUED"
    BY <1>1, <1>2
  <2> QED
    BY <1>1, <1>5, <2>1, WaitFacts DEF Chained, DropIsAnswered
<1>11. EntryKept'
  BY <1>1, <1>5, WaitFacts DEF Chained, EntryKept
<1> QED
  BY <1>7, <1>8, <1>9, <1>10, <1>11 DEF Chained

\* A claim that dies with its task is recorded as lost.
LEMMA CrashChain ==
    ASSUME Inv, Chained, Steady, NEW t \in Task, TaskCrash(t)
    PROVE  Chained'
<1>1. /\ task[t].pc \notin {"handler", "sending", "unwind"}
      /\ exec' = exec
      /\ UNCHANGED <<index, sweeper>>
  BY DEF TaskCrash, Fault, Steady, redisVars
<1>2. /\ task'[t].pc = "idle"
      /\ \A u \in Task : u # t => task'[u] = task[u]
  BY DEF TaskCrash, Inv, TypeOK, TaskTypeOK, IdleTask
<1>3. /\ \A u \in Task : /\ \A v \in Wait : Holds(u, v)' <=> Holds(u, v) /\ u # t
                         /\ \A c \in Caller : Deciding(u, c)' <=> Deciding(u, c)
                         /\ \A c \in Caller : Active(u, c)' <=> Active(u, c)
  BY <1>1, <1>2 DEF Holds, Deciding, Active, WaitOf
<1>4. \A v \in Wait : /\ hist'[v].allowed = hist[v].allowed
                      /\ hist'[v].answer = hist[v].answer
                      /\ hist[v].lostClaim => hist'[v].lostClaim
                      /\ Holds(t, v) => hist'[v].lostClaim
  <2>1. CASE task[t].pc \in {"mark", "resume"}
    <3>1. PICK w \in Wait : w = WaitOf(t)
      BY <2>1, GateTaskFacts DEF Inv, TypeOK, GatePc
    <3>2. PICK b \in BOOLEAN :
             hist' = [hist EXCEPT ![w].lostClaim = TRUE, ![w].unmarked = b]
      BY <2>1, <3>1 DEF TaskCrash, Inv, TypeOK, History
    <3> QED
      BY <3>1, <3>2 DEF Inv, TypeOK, History, Holds
  <2>2. CASE task[t].pc \notin {"mark", "resume"}
    BY <2>2 DEF TaskCrash, Holds
  <2> QED
    BY <2>1, <2>2
<1>5. /\ \A v \in Wait : /\ Answered(v)' <=> Answered(v)
                         /\ Fresh(v)' <=> Fresh(v)
      /\ \A c \in Caller : /\ WokenOnce(c)' <=> WokenOnce(c)
                           /\ AllAnswered(c)' <=> AllAnswered(c)
  <2>1. \A v \in Wait : /\ Answered(v)' <=> Answered(v)
                        /\ Fresh(v)' <=> Fresh(v)
    BY <1>1, <1>4 DEF Answered, Fresh
  <2> QED
    BY <1>4, <2>1 DEF WokenOnce, AllAnswered
<1>6. ClaimsAreCounted'
  BY <1>3, <1>4, <1>5 DEF Chained, ClaimsAreCounted
<1>7. StartedIsUp'
  BY <1>1, <1>3 DEF Chained, StartedIsUp
<1>8. OneActivation'
  BY <1>1, <1>3, <1>5 DEF Chained, OneActivation
<1>9. DropIsAnswered'
  BY <1>1, <1>5, WaitFacts DEF Chained, DropIsAnswered
<1>10. EntryKept'
  <2>1. \A v \in Wait : Claimed(v) => Claimed(v)' \/ hist'[v].lostClaim
    <3> SUFFICES ASSUME NEW v \in Wait, Claimed(v)
                 PROVE  Claimed(v)' \/ hist'[v].lostClaim
      OBVIOUS
    <3>1. PICK u \in Task : Holds(u, v)
      BY DEF Claimed, Holds
    <3>2. u # t => Holds(u, v)'
      BY <1>3, <3>1
    <3> QED
      BY <1>4, <3>1, <3>2 DEF Claimed, Holds
  <2> QED
    BY <1>1, <1>4, <1>5, <2>1, WaitFacts DEF Chained, EntryKept
<1> QED
  BY <1>6, <1>7, <1>8, <1>9, <1>10 DEF Chained

\* The triage decides to drop an entry only for a caller that has finished, whose
\* calls are then all answered: a worker that hosts a caller is up.
LEMMA TriageChain ==
    ASSUME Inv, Chained, NEW s \in Sweeper, SweepReadCaller(s) \/ SweepReadOwner(s)
    PROVE  Chained'
<1>1. UNCHANGED <<index, exec, task, hist>>
  BY DEF SweepReadCaller, SweepReadOwner, redisVars
<1>2. PICK w \in Wait : w = sweeper[s].wait /\ ~Fresh(w)
  BY TriageWait DEF SweepReadCaller, SweepReadOwner, Resting
<1>3. /\ sweeper'[s].wait = w
      /\ \A u \in Sweeper : u # s => sweeper'[u] = sweeper[u]
  BY <1>2 DEF SweepReadCaller, SweepReadOwner, SGoto, Inv, TypeOK, SweeperTypeOK,
              SweeperRecord
<1>4. PICK c \in Caller : c = w[1]
  BY WaitFacts
<1>5. exec[c].status # "QUEUED" /\ exec[c].up
  <2>1. exec[c].calls # 0
    BY <1>2, <1>4, WaitFacts, CallsAssumption DEF Fresh
  <2> QED
    BY <2>1 DEF Chained, StartedIsUp
<1>6. sweeper'[s].pc = "drop" /\ WokenOnce(c) => Answered(w)
  <2>1. CASE SweepReadCaller(s)
    <3>1. sweeper'[s].pc = "drop" => exec[c].status \in Terminal
      BY <1>2, <1>4, <2>1
         DEF SweepReadCaller, SGoto, Inv, TypeOK, SweeperTypeOK, SweeperRecord
    <3> QED
      BY <1>2, <1>4, <3>1 DEF Chained, OneActivation, AllAnswered
  <2>2. CASE SweepReadOwner(s)
    BY <1>2, <1>4, <1>5, <2>2
       DEF SweepReadOwner, SGoto, Inv, TypeOK, SweeperTypeOK, SweeperRecord
  <2> QED
    BY <2>1, <2>2
<1>7. /\ \A v \in Wait : Answered(v)' <=> Answered(v)
      /\ \A d \in Caller : WokenOnce(d)' <=> WokenOnce(d)
  BY <1>1 DEF Answered, WokenOnce
<1>8. DropIsAnswered'
  BY <1>1, <1>3, <1>4, <1>5, <1>6, <1>7, WaitFacts DEF Chained, DropIsAnswered
<1>9. ClaimsAreCounted' /\ StartedIsUp' /\ OneActivation' /\ EntryKept'
  BY <1>1 DEF Chained, ClaimsAreCounted, StartedIsUp, OneActivation, EntryKept,
              Answered, WokenOnce, AllAnswered, Holds, Deciding, Active, Claimed,
              WaitOf, Fresh
<1> QED
  BY <1>8, <1>9 DEF Chained

\* What is dropped was answered, or its caller was woken twice.
LEMMA DropChain ==
    ASSUME Inv, Chained, NEW s \in Sweeper, SweepDrop(s)
    PROVE  Chained'
<1>1. UNCHANGED <<exec, task>>
  BY DEF SweepDrop
<1>2. PICK w \in Wait : w = sweeper[s].wait
  BY TriageWait DEF SweepDrop, Resting
<1>3. /\ \A v \in Wait : v # w => index'[v] = index[v]
      /\ \A v \in Wait : /\ hist'[v].allowed = hist[v].allowed
                         /\ hist'[v].answer = hist[v].answer
                         /\ hist'[v].lostClaim = hist[v].lostClaim
  <2>1. PICK b \in BOOLEAN : hist' = [hist EXCEPT ![w].unmarked = b]
    BY <1>2 DEF SweepDrop, Inv, TypeOK, History
  <2> QED
    BY <1>2, <2>1 DEF SweepDrop, Inv, TypeOK, History
<1>4. /\ sweeper'[s].pc = "pick"
      /\ \A u \in Sweeper : u # s => sweeper'[u] = sweeper[u]
  BY DEF SweepDrop, NextEntry, Inv, TypeOK, SweeperTypeOK, SweeperRecord
<1>5. WokenOnce(w[1]) => Answered(w)
  BY <1>2 DEF SweepDrop, Chained, DropIsAnswered
<1>6. /\ \A v \in Wait : /\ Answered(v)' <=> Answered(v)
                         /\ Fresh(v)' <=> Fresh(v)
                         /\ Claimed(v)' <=> Claimed(v)
      /\ \A c \in Caller : /\ WokenOnce(c)' <=> WokenOnce(c)
                           /\ AllAnswered(c)' <=> AllAnswered(c)
  <2>1. \A v \in Wait : /\ Answered(v)' <=> Answered(v)
                        /\ Fresh(v)' <=> Fresh(v)
    BY <1>1, <1>3 DEF Answered, Fresh
  <2> QED
    BY <1>1, <1>3, <2>1 DEF WokenOnce, AllAnswered, Claimed, WaitOf
<1>7. ClaimsAreCounted'
  BY <1>1, <1>3, <1>6 DEF Chained, ClaimsAreCounted, Holds, WaitOf
<1>8. StartedIsUp' /\ OneActivation'
  BY <1>1, <1>6 DEF Chained, StartedIsUp, OneActivation, Active, Deciding
<1>9. DropIsAnswered'
  BY <1>1, <1>4, <1>6, WaitFacts DEF Chained, DropIsAnswered
<1>10. EntryKept'
  BY <1>3, <1>5, <1>6, WaitFacts DEF Chained, EntryKept
<1> QED
  BY <1>7, <1>8, <1>9, <1>10 DEF Chained

\* The gate lets a copy through as the claimant, or for want of a marker, or
\* moves a task that holds no claim.
LEMMA GateChain ==
    ASSUME Inv, Chained, Steady, NEW t \in Task, GateNext(t)
    PROVE  Chained'
<1>0. /\ TaskTypeOK /\ hist \in [Wait -> History]
      /\ index \in [Wait -> Score]
  BY DEF Inv, TypeOK
<1>1. ASSUME NEW w \in Wait, NEW k \in Kind, GateTake(t, w, k)
      PROVE  Chained'
  <2>1. /\ task[t].pc = "idle" /\ task'[t].pc = "zrem"
        /\ \A u \in Task : u # t => task'[u] = task[u]
    BY <1>0, <1>1 DEF GateTake, TaskTypeOK
  <2>2. \A u \in Task : /\ \A v \in Wait : Holds(u, v)' <=> Holds(u, v)
                        /\ \A c \in Caller : Deciding(u, c)' <=> Deciding(u, c)
                        /\ \A c \in Caller : Active(u, c)' => Active(u, c)
    BY <2>1 DEF Holds, Deciding, Active, WaitOf
  <2> QED
    BY <1>1, <2>2, QuietChain DEF GateTake
<1>2. CASE GateMiss(t) \/ GateMark(t) \/ GateDeny(t)
  <2>1. /\ \A u \in Task : u # t => task'[u] = task[u]
        /\ task[t].pc = "mark" => /\ task'[t].pc = "resume"
                                  /\ WaitOf(t)' = WaitOf(t)
        /\ task[t].pc # "mark" => /\ task[t].pc \in {"zrem", "check"}
                                  /\ task'[t].pc \in {"check", "idle"}
    BY <1>0, <1>2, GotoFacts
       DEF GateMiss, GateMark, GateDeny, IdleTask, TaskTypeOK, TaskPc, WaitOf
  <2>2. \A u \in Task : /\ \A v \in Wait : Holds(u, v)' <=> Holds(u, v)
                        /\ \A c \in Caller : Deciding(u, c)' <=> Deciding(u, c)
                        /\ \A c \in Caller : Active(u, c)' => Active(u, c)
    BY <2>1 DEF Holds, Deciding, Active, WaitOf
  <2>3. UNCHANGED <<index, exec, sweeper>>
    BY <1>2 DEF GateMiss, GateMark, GateDeny, redisVars
  <2>4. \A v \in Wait : /\ hist'[v].allowed = hist[v].allowed
                        /\ hist'[v].answer = hist[v].answer
                        /\ hist'[v].lostClaim = hist[v].lostClaim
    <3>1. PICK w \in Wait : w = WaitOf(t)
      BY <1>0, <1>2, GateTaskFacts DEF GateMiss, GateMark, GateDeny, GatePc
    <3>2. \/ hist' = hist
          \/ hist' = [hist EXCEPT ![w].unmarked = TRUE]
          \/ hist' = [hist EXCEPT ![w].denied = TRUE]
      BY <1>2, <3>1 DEF GateMiss, GateMark, GateDeny
    <3> QED
      BY <1>0, <3>2 DEF History
  <2> QED
    BY <2>2, <2>3, <2>4, QuietChain
<1>3. CASE GateClaim(t) \/ GateUnregistered(t)
  <2>1. PICK w \in Wait : w = WaitOf(t) /\ ~Fresh(w)
    BY <1>3, GateGoto DEF GateClaim, GateUnregistered, GatePc, TaskPc
  <2>2. /\ task[t].pc \in {"zrem", "check"} /\ task'[t].pc \in {"mark", "resume"}
        /\ WaitOf(t)' = w
        /\ \A u \in Task : u # t => task'[u] = task[u]
    BY <1>3, <2>1, GateGoto DEF GateClaim, GateUnregistered, GatePc, TaskPc
  <2>3. /\ UNCHANGED <<exec, sweeper>>
        /\ \A v \in Wait : v # w => index'[v] = index[v]
    BY <1>0, <1>3, <2>1 DEF GateClaim, GateUnregistered, redisVars
  <2>4. PICK slip \in {0, 1} :
           \/ hist' = [hist EXCEPT ![w].allowed = @ + 1]
           \/ hist' = [hist EXCEPT ![w].allowed = @ + 1, ![w].slipped = @ + slip]
    BY <1>3, <2>1 DEF GateClaim, GateUnregistered
  <2>5. /\ hist'[w].allowed = hist[w].allowed + 1
        /\ \A v \in Wait : /\ hist'[v].answer = hist[v].answer
                           /\ hist'[v].lostClaim = hist[v].lostClaim
        /\ \A v \in Wait : v # w => hist'[v].allowed = hist[v].allowed
    BY <1>0, <2>4 DEF History
  <2>6. /\ \A c \in Caller : ~Deciding(t, c) /\ ~Deciding(t, c)' /\ ~Active(t, c)'
        /\ \A v \in Wait : ~Holds(t, v) /\ (Holds(t, v)' <=> v = w)
    BY <2>2 DEF Deciding, Active, Holds
  <2> QED
    BY <2>1, <2>2, <2>3, <2>5, <2>6, AdmitChain
<1>4. ~GateError(t)
  BY DEF GateError, Fault, Steady
<1> QED
  BY <1>1, <1>2, <1>3, <1>4 DEF GateNext

\* The steps of a caller.
LEMMA CallerChain ==
    ASSUME Inv, Chained, Steady, NEW t \in Task, CallerNext(t)
    PROVE  Chained'
<1>1. CASE HandlerSends(t)
  <2>1. /\ UNCHANGED <<index, exec, sweeper, hist>>
        /\ task[t].pc = "sending" /\ Goto(t, "unwind")
    BY <1>1 DEF HandlerSends, Fault, Steady, redisVars
  <2>2. /\ task'[t].pc = "unwind"
        /\ task'[t].caller = task[t].caller
        /\ \A u \in Task : u # t => task'[u] = task[u]
    BY <2>1, GotoFacts DEF Inv, TypeOK, TaskPc
  <2>3. \A u \in Task : /\ \A v \in Wait : Holds(u, v)' <=> Holds(u, v)
                        /\ \A c \in Caller : Deciding(u, c)' <=> Deciding(u, c)
                        /\ \A c \in Caller : Active(u, c)' => Active(u, c)
    BY <2>1, <2>2 DEF Holds, Deciding, Active, WaitOf
  <2> QED
    BY <2>1, <2>3, QuietChain
<1> QED
  BY <1>1, StartChain, ResumeChain, CallChain, ReturnChain DEF CallerNext

\* The steps of a sweeper.
LEMMA SweepChain ==
    ASSUME Inv, Chained, NEW s \in Sweeper,
           SweepNext(s) \/ SweepError(s) \/ SweepCrash(s)
    PROVE  Chained'
<1>0. /\ sweeper \in [Sweeper -> SweeperRecord]
      /\ hist \in [Wait -> History] /\ index \in [Wait -> Score]
  BY DEF Inv, TypeOK, SweeperTypeOK
<1>1. ASSUME UNCHANGED <<exec, task>>,
             \A v \in Wait : /\ hist'[v].allowed = hist[v].allowed
                             /\ hist'[v].answer = hist[v].answer
                             /\ hist'[v].lostClaim = hist[v].lostClaim
                             /\ index'[v] = "absent" => index[v] = "absent",
             sweeper'[s].pc \notin {"drop", "owner"},
             \A u \in Sweeper : u # s => sweeper'[u] = sweeper[u]
      PROVE  Chained'
  <2>1. \A u \in Task : /\ \A v \in Wait : Holds(u, v)' <=> Holds(u, v)
                        /\ \A c \in Caller : Deciding(u, c)' <=> Deciding(u, c)
                        /\ \A c \in Caller : Active(u, c)' => Active(u, c)
    BY <1>1 DEF Holds, Deciding, Active, WaitOf
  <2> QED
    BY <1>1, <2>1, QuietChain
<1>2. CASE SweepLock(s) \/ SweepFetch(s) \/ SweepReadChild(s) \/ SweepReadLease(s)
  BY <1>0, <1>1, <1>2
     DEF SweepLock, SweepFetch, SweepReadChild, SweepReadLease, SGoto,
         SweeperRecord, redisVars
<1>3. ASSUME NEW w \in Wait, SweepPick(s, w)
      PROVE  Chained'
  BY <1>0, <1>1, <1>3 DEF SweepPick, SweeperRecord, redisVars
<1>4. CASE SweepRelease(s) \/ SweepCrash(s) \/ SweepError(s) \/ SweepCancel(s)
  BY <1>0, <1>1, <1>4
     DEF SweepRelease, SweepCrash, SweepError, SweepCancel, NextEntry,
         IdleSweeper, SweeperRecord, redisVars
<1>5. CASE SweepReadResult(s)
  BY <1>0, <1>1, <1>5 DEF SweepReadResult, SweeperRecord, redisVars
<1>6. CASE SweepEmit(s) \/ SweepExtend(s)
  <2>1. PICK w \in Wait : w = sweeper[s].wait
    BY <1>6, TriageWait DEF SweepEmit, SweepExtend, Resting
  <2>2. PICK again \in {0, 1} :
           \/ hist' = [hist EXCEPT ![w].standIns = @ + 1]
           \/ hist' = [hist EXCEPT ![w].reinserted = @ + again]
    BY <1>6, <2>1 DEF SweepEmit, SweepExtend
  <2>3. index' = index \/ index' = [index EXCEPT ![w] = "live"]
    BY <1>6, <2>1 DEF SweepEmit, SweepExtend
  <2>4. UNCHANGED <<exec, task>>
    BY <1>6 DEF SweepEmit, SweepExtend
  <2>5. /\ sweeper'[s].pc \notin {"drop", "owner"}
        /\ \A u \in Sweeper : u # s => sweeper'[u] = sweeper[u]
    BY <1>0, <1>6 DEF SweepEmit, SweepExtend, SGoto, NextEntry, SweeperRecord
  <2>6. \A v \in Wait : /\ hist'[v].allowed = hist[v].allowed
                        /\ hist'[v].answer = hist[v].answer
                        /\ hist'[v].lostClaim = hist[v].lostClaim
                        /\ index'[v] = "absent" => index[v] = "absent"
    BY <1>0, <2>2, <2>3 DEF History
  <2> QED
    BY <1>1, <2>4, <2>5, <2>6
<1> QED
  BY <1>2, <1>3, <1>4, <1>5, <1>6, TriageChain, DropChain DEF SweepNext

\* Every step keeps the chain.
LEMMA ChainNext ==
    ASSUME Steady, Inv, Chained, [Next]_vars
    PROVE  Chained'
<1>1. ASSUME UNCHANGED <<exec, task, sweeper, hist>>,
             \A v \in Wait : index'[v] = "absent" => index[v] = "absent"
      PROVE  Chained'
  <2>1. \A u \in Task : /\ \A v \in Wait : Holds(u, v)' <=> Holds(u, v)
                        /\ \A c \in Caller : Deciding(u, c)' <=> Deciding(u, c)
                        /\ \A c \in Caller : Active(u, c)' => Active(u, c)
    BY <1>1 DEF Holds, Deciding, Active, WaitOf
  <2> QED
    BY <1>1, <2>1, QuietChain
<1>2. CASE SweepLockExpires \/ UNCHANGED vars
  BY <1>1, <1>2 DEF SweepLockExpires, vars, redisVars
<1>3. ASSUME NEW w \in Wait, DeadlinePasses(w)
      PROVE  Chained'
  BY <1>1, <1>3 DEF DeadlinePasses, Inv, TypeOK
<1>4. ASSUME NEW w \in Wait, CalleeNext(w)
      PROVE  Chained'
  <2>1. UNCHANGED <<index, exec, task, sweeper, hist>>
    BY <1>4 DEF CalleeNext, CalleeRuns, CalleeSuspends, CalleeStores,
                CalleeReplies, CalleeFinishes, CalleeCancelled, CalleeCrash,
                LeaseLapses, LeaseReturns, CeilingPasses, CalleeUnchanged
  <2> QED
    BY <1>1, <2>1
<1> QED
  BY <1>2, <1>3, <1>4, GateChain, CallerChain, CrashChain, SweepChain DEF Next

\* No caller has been started, and no wait touched.
LEMMA ChainInit == Init => Chained
<1> SUFFICES ASSUME Init PROVE Chained
  OBVIOUS
<1>1. \A t \in Task : /\ \A w \in Wait : ~Holds(t, w)
                      /\ \A c \in Caller : ~Deciding(t, c) /\ ~Active(t, c)
  BY DEF Init, IdleTask, Holds, Deciding, Active
<1>2. \A w \in Wait : ~Answered(w) /\ Fresh(w)
  BY WaitFacts, CallsAssumption DEF Init, NoHistory, Answered, Fresh
<1>3. ClaimsAreCounted
  BY <1>1, <1>2 DEF ClaimsAreCounted
<1>4. StartedIsUp
  BY <1>1 DEF StartedIsUp, Init
<1>5. OneActivation
  BY <1>1, WaitFacts, CallsAssumption DEF OneActivation, Init, Terminal
<1>6. DropIsAnswered /\ EntryKept
  BY <1>2 DEF DropIsAnswered, EntryKept, Init, IdleSweeper
<1> QED
  BY <1>3, <1>4, <1>5, <1>6 DEF Chained

\* Where Redis answers, handlers outlive their activations and a handler that
\* dispatched a call waits for it, a dispatched call that nothing has answered
\* keeps its entry, whatever callees, claimants and sweepers do or suffer, as
\* long as no call of its caller was let through twice (wait_sweeper
\* _resolve_entry, wait_gate.consume_wait_entry).
THEOREM EntriesKept ==
    ASSUME Steady
    PROVE  Spec => []EntryUntilAnswered
<1>1. Inv /\ Chained => EntryUntilAnswered
  <2> SUFFICES ASSUME Inv, Chained, NEW w \in Wait,
                      callee[w].pos \notin {"none", "recorded"}, ~Answered(w),
                      \A n \in 1..MaxCalls : hist[<<w[1], n>>].allowed <= 1
               PROVE  index[w] # "absent" \/ Claimed(w) \/ hist[w].lostClaim
    BY DEF EntryUntilAnswered, Answered
  <2>1. ~Fresh(w)
    BY DEF Inv, FreshIsUntouched, Untouched
  <2>2. WokenOnce(w[1])
    <3> SUFFICES ASSUME NEW v \in Wait, v[1] = w[1]
                 PROVE  hist[v].allowed <= 1
      BY DEF WokenOnce
    <3>1. v = <<w[1], v[2]>> /\ v[2] \in 1..MaxCalls
      BY WaitFacts
    <3> QED
      BY <3>1
  <2> QED
    BY <2>1, <2>2 DEF Chained, EntryKept
<1>2. Inv /\ Chained /\ [Next]_vars => Chained'
  BY ChainNext
<1> QED
  BY <1>1, <1>2, ChainInit, InvHolds, PTL DEF Spec
=============================================================================
