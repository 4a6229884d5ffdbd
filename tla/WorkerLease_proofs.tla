------------------------- MODULE WorkerLease_proofs -------------------------
(***************************************************************************)
(* For every set of processes and all timings: the variables of            *)
(* WorkerLease keep to their types (LeaseTypeCorrect), the lease is a lock *)
(* that can run out (LeaseImplementsLock), and who serves holds it, or has *)
(* been without it for no longer than its calls took (ServedUnderLease).   *)
(***************************************************************************)
EXTENDS WorkerLease, TLAPS

-----------------------------------------------------------------------------
(* Records and their updates.                                              *)

\* The caps of the clocks are numbers.
LEMMA ClockBounds ==
    /\ ClockCap \in Nat
    /\ \A n \in Nat : CapClock(n) \in Nat
BY LeaseTimingAssumption, SMT DEF ClockCap, CapClock

\* A runner moved to another step is still a runner.
LEMMA RunnerMoved ==
    ASSUME runner \in [Proc -> RunnerRecord], NEW p \in Proc, NEW pc \in RunnerPc
    PROVE  [runner EXCEPT ![p].pc = pc] \in [Proc -> RunnerRecord]
<1> DEFINE r == [runner[p] EXCEPT !.pc = pc]
<1>1. runner[p] \in RunnerRecord
  OBVIOUS
<1>2. r \in RunnerRecord
  BY <1>1, SMT DEF RunnerRecord
<1>3. [runner EXCEPT ![p].pc = pc] = [runner EXCEPT ![p] = r]
  BY Zenon
<1> HIDE DEF r
<1> QED
  BY <1>2, <1>3, SMT

\* So is one that takes or ends tasks.
LEMMA RunnerBusy ==
    ASSUME NEW f \in [Proc -> RunnerRecord], NEW p \in Proc, NEW b \in BOOLEAN
    PROVE  [f EXCEPT ![p].busy = b] \in [Proc -> RunnerRecord]
<1> DEFINE r == [f[p] EXCEPT !.busy = b]
<1>1. f[p] \in RunnerRecord
  OBVIOUS
<1>2. r \in RunnerRecord
  BY <1>1, SMT DEF RunnerRecord
<1>3. [f EXCEPT ![p].busy = b] = [f EXCEPT ![p] = r]
  BY Zenon
<1> HIDE DEF r
<1> QED
  BY <1>2, <1>3, SMT

\* Replacing one heartbeat record.
LEMMA BeatReplaced ==
    ASSUME beat \in [Proc -> BeatRecord], NEW p \in Proc, NEW r \in BeatRecord
    PROVE  [beat EXCEPT ![p] = r] \in [Proc -> BeatRecord]
BY SMT

\* One field of a heartbeat record.
LEMMA BeatField ==
    ASSUME NEW r \in BeatRecord
    PROVE  /\ \A pc \in BeatPc : [r EXCEPT !.pc = pc] \in BeatRecord
           /\ \A ok \in BOOLEAN : [r EXCEPT !.ok = ok] \in BeatRecord
           /\ \A t \in 0..(BeatInterval + CallLatency) :
                  [r EXCEPT !.timer = t] \in BeatRecord
           /\ \A n \in Nat : [r EXCEPT !.since = n] \in BeatRecord
           /\ \A n \in Nat : [r EXCEPT !.adrift = n] \in BeatRecord
           /\ \A b \in BOOLEAN : [r EXCEPT !.stolen = b] \in BeatRecord
BY SMT DEF BeatRecord

\* One field of one heartbeat.
LEMMA BeatSet ==
    ASSUME NEW f \in [Proc -> BeatRecord], NEW p \in Proc
    PROVE  /\ \A pc \in BeatPc : [f EXCEPT ![p].pc = pc] \in [Proc -> BeatRecord]
           /\ \A ok \in BOOLEAN : [f EXCEPT ![p].ok = ok] \in [Proc -> BeatRecord]
           /\ \A t \in 0..(BeatInterval + CallLatency) :
                  [f EXCEPT ![p].timer = t] \in [Proc -> BeatRecord]
           /\ \A n \in Nat : [f EXCEPT ![p].since = n] \in [Proc -> BeatRecord]
           /\ \A b \in BOOLEAN :
                  [f EXCEPT ![p].stolen = b] \in [Proc -> BeatRecord]
<1>1. f[p] \in BeatRecord
  OBVIOUS
<1>2. \A r \in BeatRecord : [f EXCEPT ![p] = r] \in [Proc -> BeatRecord]
  BY SMT
<1> QED
  BY <1>1, <1>2, BeatField, Zenon

\* A fresh heartbeat record.
LEMMA NoBeatTyped == NoBeat \in BeatRecord
BY LeaseTimingAssumption, SMT DEF NoBeat, BeatRecord, BeatPc
-----------------------------------------------------------------------------
(* The steps of a process.                                                 *)

\* What the process does from its start to its loop, and its tasks.
LEMMA StartTyped ==
    ASSUME LeaseTypeOK, NEW p \in Proc,
           \/ ProcessStarts(p) \/ ClaimWorkerId(p) \/ ClaimGivesUp(p)
           \/ StartHeartbeat(p) \/ TaskStarts(p) \/ TasksEnd(p)
    PROVE  LeaseTypeOK'
<1>1. CASE ProcessStarts(p)
  <2> DEFINE r == [pc |-> "claim", waited |-> 0, busy |-> FALSE,
                   starts |-> runner[p].starts + 1]
  <2>1. r \in RunnerRecord
    BY <1>1, LeaseTimingAssumption, SMT
       DEF ProcessStarts, LeaseTypeOK, RunnerRecord, RunnerPc
  <2>2. runner' = [runner EXCEPT ![p] = r]
    BY <1>1, Zenon DEF ProcessStarts
  <2> HIDE DEF r
  <2>3. runner' \in [Proc -> RunnerRecord]
    BY <2>1, <2>2, SMT DEF LeaseTypeOK
  <2>4. beat' \in [Proc -> BeatRecord]
    BY <1>1, NoBeatTyped, BeatReplaced, Zenon DEF ProcessStarts, LeaseTypeOK
  <2> QED
    BY <1>1, <2>3, <2>4, Zenon DEF ProcessStarts, LeaseTypeOK
<1>2. CASE ClaimWorkerId(p)
  <2>1. runner' \in [Proc -> RunnerRecord]
    BY <1>2, RunnerMoved, Zenon DEF ClaimWorkerId, LeaseTypeOK, RunnerGoto, RunnerPc
  <2>2. lease' = p /\ ttl' = LeaseTtl /\ UNCHANGED <<beat, leaseFaults>>
    BY <1>2 DEF ClaimWorkerId
  <2>3. LeaseTtl \in 0..LeaseTtl /\ LeaseTtl # 0
    BY LeaseTimingAssumption, SMT
  <2>4. p # NoProc
    BY NoProcAssumption
  <2> QED
    BY <2>1, <2>2, <2>3, <2>4, Zenon DEF LeaseTypeOK
<1>3. CASE ClaimGivesUp(p)
  <2>1. runner' \in [Proc -> RunnerRecord]
    BY <1>3, RunnerMoved, Zenon DEF ClaimGivesUp, LeaseTypeOK, RunnerGoto, RunnerPc
  <2> QED
    BY <1>3, <2>1, Zenon DEF ClaimGivesUp, LeaseTypeOK
<1>4. CASE StartHeartbeat(p)
  <2>1. runner' \in [Proc -> RunnerRecord]
    <3>1. RunnerGoto(p, "serve") \/ RunnerGoto(p, "drain")
      BY <1>4 DEF StartHeartbeat
    <3> QED
      BY <3>1, RunnerMoved, Zenon DEF LeaseTypeOK, RunnerGoto, RunnerPc
  <2> DEFINE r == [NoBeat EXCEPT !.pc = "sleep", !.timer = BeatInterval]
  <2>2. r \in BeatRecord
    <3>1. r = [[NoBeat EXCEPT !.pc = "sleep"] EXCEPT !.timer = BeatInterval]
      BY Zenon
    <3>2. "sleep" \in BeatPc /\ BeatInterval \in 0..(BeatInterval + CallLatency)
      BY LeaseTimingAssumption, SMT DEF BeatPc
    <3> QED
      BY <3>1, <3>2, NoBeatTyped, BeatField, Zenon
  <2>3. CASE CasAccepts(p)
    <3>1. lease' = p /\ ttl' = LeaseTtl /\ leaseFaults' = leaseFaults
      BY <1>4, <2>3 DEF StartHeartbeat
    <3>2. beat' = [beat EXCEPT ![p] = r]
      BY <1>4, <2>3 DEF StartHeartbeat
    <3> HIDE DEF r
    <3>3. beat' \in [Proc -> BeatRecord]
      BY <2>2, <3>2, BeatReplaced DEF LeaseTypeOK
    <3>4. LeaseTtl \in 0..LeaseTtl /\ LeaseTtl # 0
      BY LeaseTimingAssumption, SMT
    <3>5. p # NoProc
      BY NoProcAssumption
    <3> QED
      BY <2>1, <3>1, <3>3, <3>4, <3>5, Zenon DEF LeaseTypeOK
  <2>4. CASE ~CasAccepts(p)
    BY <1>4, <2>1, <2>4, Zenon DEF StartHeartbeat, LeaseTypeOK
  <2> QED
    BY <2>3, <2>4
<1>5. CASE TaskStarts(p)
  <2>1. runner' \in [Proc -> RunnerRecord]
    BY <1>5, RunnerBusy, Zenon DEF TaskStarts, LeaseTypeOK
  <2> QED
    BY <1>5, <2>1, Zenon DEF TaskStarts, LeaseTypeOK
<1>6. CASE TasksEnd(p)
  <2>1. runner' \in [Proc -> RunnerRecord]
    BY <1>6, RunnerBusy, Zenon DEF TasksEnd, LeaseTypeOK
  <2> QED
    BY <1>6, <2>1, Zenon DEF TasksEnd, LeaseTypeOK
<1> QED
  BY <1>1, <1>2, <1>3, <1>4, <1>5, <1>6

\* The heartbeat thread ending with its signal set.
LEMMA StolenTyped ==
    ASSUME LeaseTypeOK, NEW p \in Proc, SignalStolen(p)
    PROVE  beat' \in [Proc -> BeatRecord]
<1>1. beat' = [[beat EXCEPT ![p].pc = "off"] EXCEPT ![p].stolen = TRUE]
  BY Zenon DEF SignalStolen
<1>2. [beat EXCEPT ![p].pc = "off"] \in [Proc -> BeatRecord]
  BY BeatSet, Zenon DEF LeaseTypeOK, BeatPc
<1> QED
  BY <1>1, <1>2, BeatSet, Zenon

\* The heartbeat thread.
LEMMA BeatTyped ==
    ASSUME LeaseTypeOK, NEW p \in Proc,
           \/ BeatWakes(p) \/ BeatExecutes(p) \/ BeatReturns(p) \/ BeatLost(p)
           \/ BeatRaises(p)
    PROVE  LeaseTypeOK'
<1>0. beat \in [Proc -> BeatRecord] /\ beat[p] \in BeatRecord
  BY Zenon DEF LeaseTypeOK
<1>a. /\ BeatInterval \in 0..(BeatInterval + CallLatency)
       /\ CallLatency \in 0..(BeatInterval + CallLatency)
  BY LeaseTimingAssumption, SMT
<1>1. CASE BeatWakes(p)
  <2>1. CASE ConsumerHealthy(p)
    <3>1. beat' = [[beat EXCEPT ![p].pc = "call"] EXCEPT ![p].timer = CallLatency]
      BY <1>1, <2>1, Zenon DEF BeatWakes
    <3>2. [beat EXCEPT ![p].pc = "call"] \in [Proc -> BeatRecord]
      BY <1>0, BeatSet, Zenon DEF BeatPc
    <3>3. beat' \in [Proc -> BeatRecord]
      BY <1>a, <3>1, <3>2, BeatSet, Zenon
    <3> QED
      BY <1>1, <3>3, Zenon DEF BeatWakes, LeaseTypeOK
  <2>2. CASE ~ConsumerHealthy(p)
    <3>1. beat' \in [Proc -> BeatRecord]
      BY <1>1, <2>2, StolenTyped DEF BeatWakes
    <3> QED
      BY <1>1, <3>1, Zenon DEF BeatWakes, LeaseTypeOK
  <2> QED
    BY <2>1, <2>2
<1>2. CASE BeatExecutes(p)
  <2> DEFINE ok == CasAccepts(p)
  <2>1. ok \in BOOLEAN
    BY DEF CasAccepts
  <2>2. beat' = [beat EXCEPT ![p].pc = "reply", ![p].ok = ok]
    BY <1>2 DEF BeatExecutes
  <2> HIDE DEF ok
  <2>3. beat' = [[beat EXCEPT ![p].pc = "reply"] EXCEPT ![p].ok = ok]
    BY <2>2, Zenon
  <2>4. [beat EXCEPT ![p].pc = "reply"] \in [Proc -> BeatRecord]
    BY <1>0, BeatSet, Zenon DEF BeatPc
  <2>5. beat' \in [Proc -> BeatRecord]
    BY <2>1, <2>3, <2>4, BeatSet, Zenon
  <2>6. CASE CasAccepts(p)
    <3>1. lease' = p /\ ttl' = LeaseTtl /\ UNCHANGED <<runner, leaseFaults>>
      BY <1>2, <2>6 DEF BeatExecutes
    <3>2. LeaseTtl \in 0..LeaseTtl /\ LeaseTtl # 0
      BY LeaseTimingAssumption, SMT
    <3>3. p # NoProc
      BY NoProcAssumption
    <3> QED
      BY <2>5, <3>1, <3>2, <3>3, Zenon DEF LeaseTypeOK
  <2>7. CASE ~CasAccepts(p)
    BY <1>2, <2>5, <2>7, Zenon DEF BeatExecutes, LeaseTypeOK
  <2> QED
    BY <2>6, <2>7
<1>3. CASE BeatReturns(p)
  <2>1. CASE beat[p].ok
    <3> DEFINE f == [beat EXCEPT ![p].pc = "sleep"]
               g == [f EXCEPT ![p].timer = BeatInterval]
    <3>1. beat' = [g EXCEPT ![p].since = 0]
      BY <1>3, <2>1, Zenon DEF BeatReturns
    <3>2. f \in [Proc -> BeatRecord]
      BY <1>0, BeatSet, Zenon DEF BeatPc
    <3>4. g \in [Proc -> BeatRecord]
      BY <1>a, <3>2, BeatSet, Zenon
    <3>5. 0 \in Nat
      BY SMT
    <3>3. beat' \in [Proc -> BeatRecord]
      BY <3>1, <3>4, <3>5, BeatSet, Zenon
    <3> QED
      BY <1>3, <3>3, Zenon DEF BeatReturns, LeaseTypeOK
  <2>2. CASE ~beat[p].ok
    <3>1. beat' \in [Proc -> BeatRecord]
      BY <1>3, <2>2, StolenTyped DEF BeatReturns
    <3> QED
      BY <1>3, <3>1, Zenon DEF BeatReturns, LeaseTypeOK
  <2> QED
    BY <2>1, <2>2
<1>4. CASE BeatLost(p)
  <2>3. beat' \in [Proc -> BeatRecord]
    BY <1>0, <1>4, BeatSet, Zenon DEF BeatLost, BeatPc
  <2>4. leaseFaults' \in 0..MaxBeatFaults
    BY <1>4, LeaseTimingAssumption, SMT DEF BeatLost, LeaseFault, LeaseTypeOK
  <2> QED
    BY <1>4, <2>3, <2>4, Zenon DEF BeatLost, LeaseTypeOK
<1>5. CASE BeatRaises(p)
  <2>1. CASE beat[p].since >= FailureDeadline
    <3>1. beat' \in [Proc -> BeatRecord]
      BY <1>5, <2>1, StolenTyped DEF BeatRaises
    <3> QED
      BY <1>5, <3>1, Zenon DEF BeatRaises, LeaseTypeOK
  <2>2. CASE ~(beat[p].since >= FailureDeadline)
    <3>1. beat' = [[beat EXCEPT ![p].pc = "sleep"]
                     EXCEPT ![p].timer = BeatInterval]
      BY <1>5, <2>2, Zenon DEF BeatRaises
    <3>2. [beat EXCEPT ![p].pc = "sleep"] \in [Proc -> BeatRecord]
      BY <1>0, BeatSet, Zenon DEF BeatPc
    <3>3. beat' \in [Proc -> BeatRecord]
      BY <1>a, <3>1, <3>2, BeatSet, Zenon
    <3> QED
      BY <1>5, <3>3, Zenon DEF BeatRaises, LeaseTypeOK
  <2> QED
    BY <2>1, <2>2
<1> QED
  BY <1>1, <1>2, <1>3, <1>4, <1>5

\* Shutting down and dying.
LEMMA EndTyped ==
    ASSUME LeaseTypeOK, NEW p \in Proc,
           \/ ShutdownBegins(p) \/ Drained(p) \/ StopHeartbeat(p)
           \/ LateBeatEnds(p) \/ ReleaseWorkerId(p) \/ ProcessDies(p)
    PROVE  LeaseTypeOK'
<1>0. runner \in [Proc -> RunnerRecord] /\ beat \in [Proc -> BeatRecord]
  BY Zenon DEF LeaseTypeOK
<1>a. \A pc \in RunnerPc : RunnerGoto(p, pc) => runner' \in [Proc -> RunnerRecord]
  <2> SUFFICES ASSUME NEW pc \in RunnerPc, RunnerGoto(p, pc)
               PROVE  runner' \in [Proc -> RunnerRecord]
    OBVIOUS
  <2>1. [runner EXCEPT ![p].pc = pc] \in [Proc -> RunnerRecord]
    BY <1>0, RunnerMoved
  <2> QED
    BY <2>1, Zenon DEF RunnerGoto
<1>b. LeaseFault => leaseFaults' \in 0..MaxBeatFaults
  BY LeaseTimingAssumption, SMT DEF LeaseFault, LeaseTypeOK
<1>c. [beat EXCEPT ![p].pc = "off"] \in [Proc -> BeatRecord]
  BY <1>0, BeatSet, Zenon DEF BeatPc
<1>1. CASE ShutdownBegins(p)
  <2>1. runner' \in [Proc -> RunnerRecord]
    BY <1>1, <1>a, Zenon DEF ShutdownBegins, RunnerPc
  <2> QED
    BY <1>1, <2>1, Zenon DEF ShutdownBegins, LeaseTypeOK
<1>2. CASE Drained(p)
  <2>1. runner' \in [Proc -> RunnerRecord]
    BY <1>2, <1>a, Zenon DEF Drained, RunnerPc
  <2> QED
    BY <1>2, <2>1, Zenon DEF Drained, LeaseTypeOK
<1>3. CASE StopHeartbeat(p)
  <2>1. runner' \in [Proc -> RunnerRecord]
    BY <1>3, <1>a, Zenon DEF StopHeartbeat, RunnerPc
  <2>2. beat' \in [Proc -> BeatRecord] /\ leaseFaults' \in 0..MaxBeatFaults
    BY <1>3, <1>0, <1>b, <1>c, Zenon DEF StopHeartbeat, LeaseTypeOK
  <2> QED
    BY <1>3, <2>1, <2>2, Zenon DEF StopHeartbeat, LeaseTypeOK
<1>4. CASE LateBeatEnds(p)
  BY <1>4, <1>c, Zenon DEF LateBeatEnds, LeaseTypeOK
<1>5. CASE ReleaseWorkerId(p)
  <2>1. runner' \in [Proc -> RunnerRecord]
    BY <1>5, <1>a, Zenon DEF ReleaseWorkerId, RunnerPc
  <2>2. CASE lease = p
    <3>1. lease' = NoProc /\ ttl' = 0 /\ UNCHANGED <<beat, leaseFaults>>
      BY <1>5, <2>2 DEF ReleaseWorkerId
    <3>2. 0 \in 0..LeaseTtl
      BY LeaseTimingAssumption, SMT
    <3> QED
      BY <2>1, <3>1, <3>2, Zenon DEF LeaseTypeOK
  <2>3. CASE lease # p
    BY <1>5, <2>1, <2>3, Zenon DEF ReleaseWorkerId, LeaseTypeOK
  <2> QED
    BY <2>2, <2>3
<1>6. CASE ProcessDies(p)
  <2> DEFINE f == [runner EXCEPT ![p].pc = "down"]
  <2>1. f \in [Proc -> RunnerRecord]
    BY <1>0, RunnerMoved, Zenon DEF RunnerPc
  <2>2. runner' = [f EXCEPT ![p].busy = FALSE]
    BY <1>6, Zenon DEF ProcessDies
  <2>3. runner' \in [Proc -> RunnerRecord]
    BY <2>1, <2>2, RunnerBusy, Zenon
  <2>4. beat' \in [Proc -> BeatRecord]
    BY <1>6, <1>0, NoBeatTyped, BeatReplaced, Zenon DEF ProcessDies
  <2> QED
    BY <1>6, <1>b, <2>3, <2>4, Zenon DEF ProcessDies, LeaseTypeOK
<1> QED
  BY <1>1, <1>2, <1>3, <1>4, <1>5, <1>6

\* Time: a claimant below its deadline and a thread that is not due.
LEMMA TickTyped == LeaseTypeOK /\ LeaseTick => LeaseTypeOK'
<1> SUFFICES ASSUME LeaseTypeOK, LeaseTick PROVE LeaseTypeOK'
  OBVIOUS
<1>1. /\ lease' \in Proc \cup {NoProc} /\ ttl' \in 0..LeaseTtl
      /\ lease' = NoProc <=> ttl' = 0
  <2>1. /\ lease \in Proc \cup {NoProc} /\ ttl \in 0..LeaseTtl
        /\ lease = NoProc <=> ttl = 0
    BY DEF LeaseTypeOK
  <2>2. ttl' = IF ttl > 0 THEN ttl - 1 ELSE 0
    BY DEF LeaseTick
  <2>3. lease' = IF ttl' = 0 THEN NoProc ELSE lease
    BY DEF LeaseTick
  <2>4. ttl' \in 0..LeaseTtl /\ (ttl = 0 => ttl' = 0)
    BY <2>1, <2>2, LeaseTimingAssumption, SMT
  <2> QED
    BY <2>1, <2>3, <2>4, Zenon
<1>2. runner' \in [Proc -> RunnerRecord]
  <2> SUFFICES ASSUME NEW p \in Proc PROVE runner'[p] \in RunnerRecord
    BY DEF LeaseTick
  <2>1. runner[p] \in RunnerRecord
    BY DEF LeaseTypeOK
  <2>2. CASE runner[p].pc = "claim"
    <3>1. runner'[p] = [runner[p] EXCEPT !.waited = runner[p].waited + 1]
      BY <2>2, Zenon DEF LeaseTick
    <3>2. runner[p].waited # ClaimMaxWait
      BY <2>2 DEF LeaseTick, Overdue
    <3>3. runner[p].waited \in 0..ClaimMaxWait
      BY <2>1, SMT DEF RunnerRecord
    <3>4. runner[p].waited + 1 \in 0..ClaimMaxWait
      BY <3>2, <3>3, LeaseTimingAssumption, SMT
    <3> DEFINE w == runner[p].waited + 1
    <3>5. w \in 0..ClaimMaxWait /\ runner'[p] = [runner[p] EXCEPT !.waited = w]
      BY <3>1, <3>4
    <3> HIDE DEF w
    <3> QED
      BY <2>1, <3>5, SMT DEF RunnerRecord
  <2>3. CASE runner[p].pc # "claim"
    <3>1. runner'[p] = runner[p]
      BY <2>3 DEF LeaseTick
    <3> QED
      BY <2>1, <3>1
  <2> QED
    BY <2>2, <2>3
<1>3. beat' \in [Proc -> BeatRecord]
  <2> SUFFICES ASSUME NEW p \in Proc PROVE beat'[p] \in BeatRecord
    BY DEF LeaseTick
  <2>1. beat[p] \in BeatRecord
    BY DEF LeaseTypeOK
  <2>2. CASE beat[p].pc # "off"
    <3> DEFINE t == beat[p].timer - 1
               n == CapClock(beat[p].since + 1)
               m == IF lease' = p THEN 0 ELSE CapClock(beat[p].adrift + 1)
    <3>1. /\ beat[p].timer \in 0..(BeatInterval + CallLatency)
          /\ beat[p].since \in Nat /\ beat[p].adrift \in Nat
      BY <2>1, SMT DEF BeatRecord
    <3>2. beat[p].timer # 0
      BY <2>2 DEF LeaseTick, Overdue
    <3>3. t \in 0..(BeatInterval + CallLatency)
      BY <3>1, <3>2, LeaseTimingAssumption, SMT
    <3>4. beat[p].since + 1 \in Nat /\ beat[p].adrift + 1 \in Nat /\ 0 \in Nat
      BY <3>1, SMT
    <3>5. n \in Nat /\ m \in Nat
      BY <3>4, ClockBounds, Zenon
    <3>6. beat'[p] = [[[beat[p] EXCEPT !.timer = t] EXCEPT !.since = n]
                        EXCEPT !.adrift = m]
      BY <2>2, Zenon DEF LeaseTick
    <3> HIDE DEF t, n, m
    <3>7. [beat[p] EXCEPT !.timer = t] \in BeatRecord
      BY <2>1, <3>3, BeatField, Zenon
    <3>8. [[beat[p] EXCEPT !.timer = t] EXCEPT !.since = n] \in BeatRecord
      BY <3>5, <3>7, BeatField, Zenon
    <3> QED
      BY <3>5, <3>6, <3>8, BeatField, Zenon
  <2>3. CASE beat[p].pc = "off"
    <3>1. beat'[p] = beat[p]
      BY <2>3 DEF LeaseTick
    <3> QED
      BY <2>1, <3>1
  <2> QED
    BY <2>2, <2>3
<1> QED
  BY <1>1, <1>2, <1>3, Zenon DEF LeaseTypeOK, LeaseTick

-----------------------------------------------------------------------------
(* The type invariant.                                                     *)

\* The initial state of the lease and of the processes.
LEMMA LeaseInitTyped == LeaseInit => LeaseTypeOK
<1> SUFFICES ASSUME LeaseInit PROVE LeaseTypeOK
  OBVIOUS
<1>1. [pc |-> "down", waited |-> 0, busy |-> FALSE, starts |-> 0] \in RunnerRecord
  BY LeaseTimingAssumption, SMT DEF RunnerRecord, RunnerPc
<1>2. runner \in [Proc -> RunnerRecord] /\ beat \in [Proc -> BeatRecord]
  BY <1>1, NoBeatTyped, Zenon DEF LeaseInit
<1>3. 0 \in 0..LeaseTtl /\ 0 \in 0..MaxBeatFaults
  BY LeaseTimingAssumption, SMT
<1> QED
  BY <1>2, <1>3, Zenon DEF LeaseInit, LeaseTypeOK

\* One step of the specification.
LEMMA LeaseStepTyped == LeaseTypeOK /\ [LeaseNext]_leaseVars => LeaseTypeOK'
<1> SUFFICES ASSUME LeaseTypeOK, [LeaseNext]_leaseVars PROVE LeaseTypeOK'
  OBVIOUS
<1>1. CASE LeaseTick
  BY <1>1, TickTyped
<1>2. CASE \E p \in Proc : LeaseStep(p)
  <2>1. PICK p \in Proc : LeaseStep(p)
    BY <1>2
  <2> QED
    BY <2>1, StartTyped, BeatTyped, EndTyped DEF LeaseStep
<1>3. CASE UNCHANGED leaseVars
  BY <1>3, Zenon DEF leaseVars, LeaseTypeOK
<1> QED
  BY <1>1, <1>2, <1>3 DEF LeaseNext

\* Type correctness: in particular the lease is never held without an expiry,
\* so that a process that dies cannot keep its id (registry.py, SET NX EX).
THEOREM LeaseTypeCorrect == LeaseSpec => []LeaseTypeOK
BY LeaseInitTyped, LeaseStepTyped, PTL DEF LeaseSpec

-----------------------------------------------------------------------------
(* The lease is a lock.                                                    *)

\* The set of serving processes after a runner has moved.
LEMMA ServingMoves ==
    ASSUME LeaseTypeOK, NEW p \in Proc, NEW pc \in RunnerPc, RunnerGoto(p, pc)
    PROVE  {q \in Proc : runner'[q].pc = "serve"} =
               IF pc = "serve" THEN {q \in Proc : runner[q].pc = "serve"} \cup {p}
               ELSE {q \in Proc : runner[q].pc = "serve"} \ {p}
<1>1. runner'[p].pc = pc
  BY SMT DEF LeaseTypeOK, RunnerGoto, RunnerRecord
<1>2. \A q \in Proc \ {p} : runner'[q] = runner[q]
  BY SMT DEF LeaseTypeOK, RunnerGoto
<1> QED
  BY <1>1, <1>2, Zenon

\* The processes in the poll loop: what the lock calls serving.
Serving == {p \in Proc : runner[p].pc = "serve"}

\* A step that leaves every runner's place alone leaves Serving alone.
LEMMA ServingKept ==
    ASSUME runner' = runner
    PROVE  Serving' = Serving
BY DEF Serving

\* Taking or ending a task does not move a runner.
LEMMA BusyKeepsServing ==
    ASSUME LeaseTypeOK, NEW p \in Proc, NEW b \in BOOLEAN,
           runner' = [runner EXCEPT ![p].busy = b]
    PROVE  Serving' = Serving
<1>1. \A q \in Proc : runner'[q].pc = runner[q].pc
  BY SMT DEF LeaseTypeOK, RunnerRecord
<1> QED
  BY <1>1, Zenon DEF Serving

\* The steps of one process, seen by the lock.
LEMMA ProcessKeepsLock ==
    ASSUME LeaseTypeOK, NEW p \in Proc, LeaseStep(p)
    PROVE  \/ UNCHANGED <<lease, Serving>>
           \/ Lock!Take(p) \/ Lock!Enter(p) \/ Lock!Leave(p) \/ Lock!Release(p)
<1> USE DEF Serving
<1>0. \A pc \in RunnerPc : RunnerGoto(p, pc) =>
          Serving' = IF pc = "serve" THEN Serving \cup {p} ELSE Serving \ {p}
  <2> SUFFICES ASSUME NEW pc \in RunnerPc, RunnerGoto(p, pc)
      PROVE Serving' = IF pc = "serve" THEN Serving \cup {p} ELSE Serving \ {p}
    OBVIOUS
  <2> QED
    BY ServingMoves
<1>1. CASE ProcessStarts(p)
  <2>1. Serving' = Serving
    <3>1. /\ runner[p].pc = "down" /\ runner'[p].pc = "claim"
          /\ \A q \in Proc \ {p} : runner'[q] = runner[q]
      BY <1>1, SMT DEF ProcessStarts, LeaseTypeOK
    <3> QED
      BY <3>1, Zenon
  <2> QED
    BY <1>1, <2>1, Zenon DEF ProcessStarts
<1>2. CASE ClaimWorkerId(p)
  <2>1. Serving' = Serving \ {p} /\ p \notin Serving
    BY <1>0, <1>2, Zenon DEF ClaimWorkerId, RunnerPc
  <2>2. lease = NoProc /\ lease' = p /\ Serving' = Serving
    BY <1>2, <2>1, Zenon DEF ClaimWorkerId
  <2> QED
    BY <2>2, Zenon DEF Lock!Take
<1>3. CASE ClaimGivesUp(p)
  <2>1. Serving' = Serving \ {p} /\ p \notin Serving
    BY <1>0, <1>3, Zenon DEF ClaimGivesUp, RunnerPc
  <2> QED
    BY <1>3, <2>1, Zenon DEF ClaimGivesUp
<1>4. CASE StartHeartbeat(p)
  <2>1. CASE CasAccepts(p)
    <3>1. Serving' = Serving \cup {p}
      BY <1>0, <1>4, <2>1, Zenon DEF StartHeartbeat, RunnerPc
    <3>2. lease \in {NoProc, p} /\ lease' = p
      BY <1>4, <2>1, Zenon DEF StartHeartbeat, CasAccepts
    <3> QED
      BY <3>1, <3>2, Zenon DEF Lock!Enter
  <2>2. CASE ~CasAccepts(p)
    <3>1. Serving' = Serving \ {p} /\ lease' = lease
      BY <1>0, <1>4, <2>2, Zenon DEF StartHeartbeat, RunnerPc
    <3> QED
      BY <3>1, Zenon DEF Lock!Leave
  <2> QED
    BY <2>1, <2>2
<1>5. CASE TaskStarts(p) \/ TasksEnd(p)
  <2>1. Serving' = Serving
    BY <1>5, BusyKeepsServing, Zenon DEF TaskStarts, TasksEnd
  <2> QED
    BY <1>5, <2>1, Zenon DEF TaskStarts, TasksEnd
<1>6. CASE \/ BeatWakes(p) \/ BeatReturns(p) \/ BeatLost(p) \/ BeatRaises(p)
           \/ LateBeatEnds(p)
  BY <1>6, ServingKept, Zenon
     DEF BeatWakes, BeatReturns, BeatLost, BeatRaises, LateBeatEnds
<1>7. CASE BeatExecutes(p)
  <2>1. Serving' = Serving
    BY <1>7, ServingKept, Zenon DEF BeatExecutes
  <2>2. CASE lease = NoProc
    <3>1. lease' = p
      BY <1>7, <2>2, Zenon DEF BeatExecutes, CasAccepts
    <3> QED
      BY <2>1, <2>2, <3>1, Zenon DEF Lock!Take
  <2>3. CASE lease # NoProc
    <3>1. lease' = lease
      BY <1>7, <2>3, Zenon DEF BeatExecutes, CasAccepts
    <3> QED
      BY <2>1, <3>1
  <2> QED
    BY <2>2, <2>3
<1>8. CASE ShutdownBegins(p) \/ Drained(p) \/ StopHeartbeat(p)
  <2>1. Serving' = Serving \ {p} /\ lease' = lease
    BY <1>0, <1>8, Zenon DEF ShutdownBegins, Drained, StopHeartbeat, RunnerPc
  <2> QED
    BY <2>1, Zenon DEF Lock!Leave
<1>9. CASE ReleaseWorkerId(p)
  <2>1. Serving' = Serving \ {p} /\ p \notin Serving
    BY <1>0, <1>9, Zenon DEF ReleaseWorkerId, RunnerPc
  <2>2. Serving' = Serving
    BY <2>1, Zenon
  <2>3. CASE lease = p
    BY <1>9, <2>1, <2>2, <2>3, Zenon DEF ReleaseWorkerId, Lock!Release
  <2>4. CASE lease # p
    BY <1>9, <2>2, <2>4, Zenon DEF ReleaseWorkerId
  <2> QED
    BY <2>3, <2>4
<1>10. CASE ProcessDies(p)
  <2>1. Serving' = Serving \ {p}
    <3> DEFINE f == [runner EXCEPT ![p].pc = "down"]
    <3>1. runner' = [f EXCEPT ![p].busy = FALSE]
      BY <1>10, Zenon DEF ProcessDies
    <3>2. f \in [Proc -> RunnerRecord]
      BY RunnerMoved, Zenon DEF LeaseTypeOK, RunnerPc
    <3>3. f[p].pc = "down" /\ \A q \in Proc \ {p} : f[q] = runner[q]
      BY SMT DEF LeaseTypeOK, RunnerRecord
    <3> HIDE DEF f
    <3>4. \A q \in Proc : runner'[q].pc = f[q].pc
      BY <3>1, <3>2, SMT DEF RunnerRecord
    <3> QED
      BY <3>3, <3>4, Zenon
  <2>2. lease' = lease
    BY <1>10 DEF ProcessDies
  <2> QED
    BY <2>1, <2>2, Zenon DEF Lock!Leave
<1> QED
  BY <1>1, <1>2, <1>3, <1>4, <1>5, <1>6, <1>7, <1>8, <1>9, <1>10 DEF LeaseStep

\* Time can only free the lock.
LEMMA TickKeepsLock ==
    ASSUME LeaseTypeOK, LeaseTick
    PROVE  UNCHANGED <<lease, Serving>> \/ Lock!Expire
<1>1. \A p \in Proc : runner'[p].pc = runner[p].pc
  <2> SUFFICES ASSUME NEW p \in Proc PROVE runner'[p].pc = runner[p].pc
    OBVIOUS
  <2>1. \/ runner'[p] = runner[p]
        \/ runner'[p] = [runner[p] EXCEPT !.waited = runner[p].waited + 1]
    BY Zenon DEF LeaseTick
  <2>2. runner[p] \in RunnerRecord
    BY DEF LeaseTypeOK
  <2> DEFINE w == runner[p].waited + 1
  <2>3. runner'[p] = runner[p] \/ runner'[p] = [runner[p] EXCEPT !.waited = w]
    BY <2>1
  <2> HIDE DEF w
  <2> QED
    BY <2>2, <2>3, SMT DEF RunnerRecord
<1>2. Serving' = Serving
  BY <1>1, Zenon DEF Serving
<1>3. lease' = lease \/ lease' = NoProc
  BY Zenon DEF LeaseTick
<1> QED
  BY <1>2, <1>3, Zenon DEF Lock!Expire, Serving

\* The lease of a worker id implements the lock that can run out: a process
\* gets into its poll loop only by taking or renewing the lease, and no process
\* takes the lease from another (registry.py, the compare-and-set scripts).
THEOREM LeaseImplementsLock == LeaseSpec => LeaseIsLock
<1>1. LeaseInit => Lock!LockInit
  BY SMT DEF LeaseInit, Lock!LockInit
<1>2. LeaseTypeOK /\ [LeaseNext]_leaseVars => [Lock!LockNext]_<<lease, Serving>>
  <2> SUFFICES ASSUME LeaseTypeOK, [LeaseNext]_leaseVars
               PROVE  [Lock!LockNext]_<<lease, Serving>>
    OBVIOUS
  <2>1. CASE LeaseTick
    BY <2>1, TickKeepsLock DEF Lock!LockNext
  <2>2. CASE \E p \in Proc : LeaseStep(p)
    BY <2>2, ProcessKeepsLock DEF Lock!LockNext
  <2>3. CASE UNCHANGED leaseVars
    BY <2>3, ServingKept DEF leaseVars
  <2> QED
    BY <2>1, <2>2, <2>3 DEF LeaseNext
<1>3. LeaseTypeOK /\ [LeaseNext]_leaseVars => LeaseTypeOK'
  BY LeaseStepTyped
<1> QED
  BY <1>1, <1>2, <1>3, LeaseInitTyped, PTL
     DEF LeaseSpec, LeaseIsLock, Lock!LockSpec, Serving

-----------------------------------------------------------------------------
(* A worker serves under its lease.                                        *)

\* How a heartbeat thread b of p stands to a lease held by h for t more ticks.
\* Asleep it wakes before a lease renewed at its last good answer runs out;
\* beyond that a call adds its latency.  A lease p holds was renewed no longer
\* before the last good answer than that call took; one it has lost ran out
\* after as long.
Timely(h, t, b, p) ==
    /\ b.pc # "off"
    /\ b.pc = "sleep" => b.since + b.timer \in BeatInterval..(LeaseTtl - 1)
    /\ b.pc # "sleep" => /\ b.since >= BeatInterval /\ b.timer <= CallLatency
                         /\ b.since + b.timer < LeaseTtl + CallLatency
    /\ h = p => /\ t + b.since + CallLatency >= LeaseTtl
                /\ t < LeaseTtl => b.adrift = 0
                /\ b.pc = "reply" /\ b.ok => t + CallLatency >= LeaseTtl + b.timer
    /\ h # p => /\ b.adrift >= 1 /\ b.adrift + LeaseTtl <= b.since + CallLatency + 1
                /\ b.pc = "reply" /\ b.ok =>
                       b.adrift + LeaseTtl + b.timer <= CallLatency + 1

AtWork(p) == runner[p].pc = "serve" /\ ~beat[p].stolen

\* The inductive invariant, with the types.
BeatsInTime == \A p \in Proc : AtWork(p) => Timely(lease, ttl, beat[p], p)

\* The times, and the deadline between them.
LEMMA Times ==
    /\ BeatInterval \in Nat /\ LeaseTtl \in Nat /\ CallLatency \in Nat
    /\ 1 <= BeatInterval /\ BeatInterval < LeaseTtl
    /\ FailureDeadline = BeatInterval
       \/ (FailureDeadline = LeaseTtl - BeatInterval /\ FailureDeadline > BeatInterval)
BY LeaseTimingAssumption, SMT DEF FailureDeadline

\* The fields of a thread and their types.
LEMMA BeatFields ==
    ASSUME NEW b \in BeatRecord
    PROVE  /\ b.pc \in BeatPc /\ b.timer \in 0..(BeatInterval + CallLatency)
           /\ b.since \in Nat /\ b.adrift \in Nat /\ b.ok \in BOOLEAN /\ b.stolen \in BOOLEAN
BY SMT DEF BeatRecord

\* What a step of p is to the others: they stay, and so does what they hold.
LEMMA OthersSpared ==
    ASSUME LeaseTypeOK, NEW p \in Proc, LeaseStep(p), NEW q \in Proc, q # p
    PROVE  /\ runner'[q] = runner[q] /\ beat'[q] = beat[q]
           /\ \/ lease = q /\ lease' = q /\ ttl' = ttl
              \/ lease # q /\ lease' # q
<1> USE DEF LeaseTypeOK
<1>0. \A pc : RunnerGoto(p, pc) => runner'[q] = runner[q]
  BY SMT DEF RunnerGoto
<1>1. runner'[q] = runner[q]
  <2>1. CASE ProcessStarts(p)
    BY <2>1, Zenon DEF ProcessStarts
  <2>2. CASE TaskStarts(p) \/ TasksEnd(p)
    BY <2>2, Zenon DEF TaskStarts, TasksEnd
  <2>3. CASE ProcessDies(p)
    <3> DEFINE f == [runner EXCEPT ![p].pc = "down"]
    <3>1. runner' = [f EXCEPT ![p].busy = FALSE]
      BY <2>3, Zenon DEF ProcessDies
    <3>2. f \in [Proc -> RunnerRecord] /\ f[q] = runner[q]
      <4>1. f[q] = runner[q]
        BY Zenon
      <4> QED
        BY <4>1, RunnerMoved, Zenon DEF RunnerPc
    <3> HIDE DEF f
    <3> QED
      BY <3>1, <3>2, Zenon
  <2>4. CASE \/ BeatWakes(p) \/ BeatExecutes(p) \/ BeatReturns(p) \/ BeatLost(p)
             \/ BeatRaises(p) \/ LateBeatEnds(p)
    BY <2>4, Zenon DEF BeatWakes, BeatExecutes, BeatReturns, BeatLost, BeatRaises, LateBeatEnds
  <2>5. CASE \/ ClaimWorkerId(p) \/ ClaimGivesUp(p) \/ StartHeartbeat(p) \/ ShutdownBegins(p)
             \/ Drained(p) \/ StopHeartbeat(p) \/ ReleaseWorkerId(p)
    BY <1>0, <2>5, Zenon DEF ClaimWorkerId, ClaimGivesUp, StartHeartbeat, ShutdownBegins,
       Drained, StopHeartbeat, ReleaseWorkerId
  <2> QED
    BY <2>1, <2>2, <2>3, <2>4, <2>5 DEF LeaseStep
<1>2. beat'[q] = beat[q]
  <2>1. ASSUME NEW b, beat' = [beat EXCEPT ![p] = b]
        PROVE  beat'[q] = beat[q]
    BY <2>1, Zenon
  <2>2. CASE \/ ProcessStarts(p) \/ ProcessDies(p) \/ StartHeartbeat(p)
    BY <2>1, <2>2, Zenon DEF ProcessStarts, ProcessDies, StartHeartbeat
  <2>3. CASE BeatWakes(p)
    BY <2>3, SMT DEF BeatWakes, SignalStolen
  <2>4. CASE BeatExecutes(p)
    BY <2>4, SMT DEF BeatExecutes
  <2>5. CASE BeatReturns(p)
    BY <2>5, SMT DEF BeatReturns, SignalStolen
  <2>6. CASE BeatRaises(p)
    BY <2>6, SMT DEF BeatRaises, SignalStolen
  <2>7. CASE BeatLost(p) \/ LateBeatEnds(p) \/ StopHeartbeat(p)
    BY <2>7, SMT DEF BeatLost, LateBeatEnds, StopHeartbeat
  <2>8. CASE \/ ClaimWorkerId(p) \/ ClaimGivesUp(p) \/ TaskStarts(p) \/ TasksEnd(p)
             \/ ShutdownBegins(p) \/ Drained(p) \/ ReleaseWorkerId(p)
    BY <2>8, Zenon DEF ClaimWorkerId, ClaimGivesUp, TaskStarts, TasksEnd, ShutdownBegins,
       Drained, ReleaseWorkerId
  <2> QED
    BY <2>2, <2>3, <2>4, <2>5, <2>6, <2>7, <2>8 DEF LeaseStep
<1>3. \/ lease' = lease /\ ttl' = ttl
      \/ lease = NoProc /\ lease' = p
      \/ lease = p /\ lease' \in {p, NoProc}
  <2>1. CASE ClaimWorkerId(p)
    BY <2>1 DEF ClaimWorkerId
  <2>2. CASE StartHeartbeat(p)
    BY <2>2 DEF StartHeartbeat, CasAccepts
  <2>3. CASE BeatExecutes(p)
    BY <2>3 DEF BeatExecutes, CasAccepts
  <2>4. CASE ReleaseWorkerId(p)
    BY <2>4 DEF ReleaseWorkerId
  <2>5. CASE \/ ProcessStarts(p) \/ ClaimGivesUp(p) \/ TaskStarts(p) \/ TasksEnd(p)
             \/ BeatWakes(p) \/ BeatReturns(p) \/ BeatLost(p) \/ BeatRaises(p)
             \/ ShutdownBegins(p) \/ Drained(p) \/ StopHeartbeat(p) \/ LateBeatEnds(p)
             \/ ProcessDies(p)
    BY <2>5, Zenon DEF ProcessStarts, ClaimGivesUp, TaskStarts, TasksEnd, BeatWakes, BeatReturns,
       BeatLost, BeatRaises, ShutdownBegins, Drained, StopHeartbeat, LateBeatEnds, ProcessDies
  <2> QED
    BY <2>1, <2>2, <2>3, <2>4, <2>5, Zenon DEF LeaseStep
<1>4. q # NoProc
  BY NoProcAssumption
<1> QED
  BY <1>1, <1>2, <1>3, <1>4, Zenon

\* The step of a process keeps its own heartbeat in time.
LEMMA OwnInTime ==
    ASSUME LeaseTypeOK, NEW p \in Proc, LeaseStep(p),
           AtWork(p) => Timely(lease, ttl, beat[p], p), AtWork(p)'
    PROVE  Timely(lease, ttl, beat[p], p)'
<1>1. /\ runner[p] \in RunnerRecord /\ beat[p] \in BeatRecord
      /\ ttl \in 0..LeaseTtl /\ runner \in [Proc -> RunnerRecord]
      /\ beat \in [Proc -> BeatRecord]
  BY DEF LeaseTypeOK
<1>2. ASSUME NEW pc \in RunnerPc \ {"serve"}, RunnerGoto(p, pc)
      PROVE  FALSE
  <2>1. runner'[p].pc = pc
    BY <1>1, <1>2, SMT DEF RunnerGoto, RunnerRecord
  <2> QED
    BY <2>1 DEF AtWork
<1>3. CASE StartHeartbeat(p)
  <2>1. CasAccepts(p)
    BY <1>2, <1>3 DEF StartHeartbeat, RunnerPc
  <2>2. /\ lease' = p /\ ttl' = LeaseTtl
        /\ beat'[p] = [NoBeat EXCEPT !.pc = "sleep", !.timer = BeatInterval]
    BY <1>1, <1>3, <2>1, Zenon DEF StartHeartbeat
  <2>3. PICK b : b = beat'[p]
    OBVIOUS
  <2>4. /\ b.pc = "sleep" /\ b.timer = BeatInterval /\ b.since = 0 /\ b.adrift = 0
    BY <2>2, <2>3 DEF NoBeat
  <2>5. Timely(p, LeaseTtl, b, p)
    BY <2>4, Times, SMT DEF Timely
  <2> QED
    BY <2>2, <2>3, <2>5, Zenon DEF Timely
<1>4. CASE \/ TaskStarts(p) \/ TasksEnd(p)
  <2>1. runner'[p].pc = runner[p].pc
    BY <1>1, <1>4, SMT DEF TaskStarts, TasksEnd, RunnerRecord
  <2>2. UNCHANGED <<lease, ttl, beat>>
    BY <1>4 DEF TaskStarts, TasksEnd
  <2> QED
    BY <2>1, <2>2, Zenon DEF AtWork, Timely
<1>6. UNCHANGED runner /\ ~beat[p].stolen => Timely(lease, ttl, beat[p], p)
  BY DEF AtWork
<1>7. PICK b \in BeatRecord : b = beat[p]
  BY <1>1
<1>8. /\ b.pc \in BeatPc /\ b.timer \in 0..(BeatInterval + CallLatency)
      /\ b.since \in Nat /\ b.adrift \in Nat /\ b.ok \in BOOLEAN /\ b.stolen \in BOOLEAN
  BY BeatFields
<1>9. ASSUME beat' = [beat EXCEPT ![p].pc = "off", ![p].stolen = TRUE], UNCHANGED runner
      PROVE  FALSE
  <2>1. beat'[p].stolen = TRUE
    BY <1>1, <1>9, SMT DEF BeatRecord
  <2> QED
    BY <2>1 DEF AtWork
<1>10. CASE BeatWakes(p)
  <2>1. ConsumerHealthy(p)
    BY <1>9, <1>10, Zenon DEF BeatWakes, SignalStolen
  <2>2. /\ b.pc = "sleep" /\ b.timer = 0 /\ UNCHANGED <<lease, ttl, runner>>
        /\ beat' = [beat EXCEPT ![p].pc = "call", ![p].timer = CallLatency]
    BY <1>7, <1>10, <2>1, Zenon DEF BeatWakes
  <2>3. PICK c : c = beat'[p]
    OBVIOUS
  <2>4. c = [b EXCEPT !.pc = "call", !.timer = CallLatency]
    BY <1>1, <1>7, <2>2, <2>3, Zenon
  <2>5. /\ c.pc = "call" /\ c.timer = CallLatency /\ c.since = b.since
        /\ c.adrift = b.adrift /\ c.stolen = b.stolen
    BY <2>4, SMT DEF BeatRecord
  <2>6. c.stolen = FALSE
    BY <1>8, <2>3, <2>5 DEF AtWork
  <2>7. Timely(lease, ttl, b, p)
    BY <1>6, <1>7, <2>2, <2>5, <2>6
  <2>8. Timely(lease, ttl, c, p)
    <3>1. b.since + b.timer \in BeatInterval..(LeaseTtl - 1)
      BY <2>2, <2>7 DEF Timely
    <3>2. c.since >= BeatInterval /\ c.since + CallLatency < LeaseTtl + CallLatency
      BY <1>8, <2>2, <2>5, <3>1, Times, SMT
    <3>3. c.timer <= CallLatency
      BY <2>5, Times, SMT
    <3> QED
      BY <2>5, <2>7, <3>2, <3>3 DEF Timely
  <2> QED
    BY <2>2, <2>3, <2>8, Zenon DEF Timely
<1>11. CASE BeatExecutes(p)
  <2>1. PICK ok : ok = CasAccepts(p)
    OBVIOUS
  <2>2. /\ b.pc = "call" /\ UNCHANGED runner
        /\ beat' = [beat EXCEPT ![p].pc = "reply", ![p].ok = ok]
        /\ ok => lease' = p /\ ttl' = LeaseTtl
        /\ ~ok => lease' = lease /\ ttl' = ttl
    BY <1>7, <1>11, <2>1, Zenon DEF BeatExecutes
  <2>3. PICK c : c = beat'[p]
    OBVIOUS
  <2>4. c = [b EXCEPT !.pc = "reply", !.ok = ok]
    BY <1>1, <1>7, <2>2, <2>3, Zenon
  <2>5. /\ c.pc = "reply" /\ c.timer = b.timer /\ c.since = b.since
        /\ c.adrift = b.adrift /\ c.stolen = b.stolen /\ c.ok = ok
    BY <2>4, SMT DEF BeatRecord
  <2>6. c.stolen = FALSE
    BY <1>8, <2>3, <2>5 DEF AtWork
  <2>7. Timely(lease, ttl, b, p)
    BY <1>6, <1>7, <2>2, <2>5, <2>6
  <2>8. CASE ok
    <3>1. b.timer <= CallLatency
      BY <2>2, <2>7 DEF Timely
    <3>2. Timely(p, LeaseTtl, c, p)
      BY <1>8, <2>2, <2>5, <2>7, <2>8, <3>1, Times, SMT DEF Timely
    <3> QED
      BY <2>2, <2>3, <2>8, <3>2, Zenon DEF Timely
  <2>9. CASE ~ok
    <3>1. Timely(lease, ttl, c, p)
      BY <1>1, <1>8, <2>2, <2>5, <2>7, <2>9, Times, SMT DEF Timely
    <3> QED
      BY <2>2, <2>3, <2>9, <3>1, Zenon DEF Timely
  <2> QED
    BY <2>8, <2>9
<1>12. CASE BeatReturns(p)
  <2>1. b.ok
    BY <1>7, <1>9, <1>12, Zenon DEF BeatReturns, SignalStolen
  <2>2. /\ b.pc = "reply" /\ UNCHANGED <<lease, ttl, runner>>
        /\ beat' = [beat EXCEPT ![p].pc = "sleep", ![p].timer = BeatInterval, ![p].since = 0]
    BY <1>7, <1>12, <2>1, Zenon DEF BeatReturns
  <2>3. PICK c : c = beat'[p]
    OBVIOUS
  <2>4. c = [b EXCEPT !.pc = "sleep", !.timer = BeatInterval, !.since = 0]
    BY <1>1, <1>7, <2>2, <2>3, Zenon
  <2>5. /\ c.pc = "sleep" /\ c.timer = BeatInterval /\ c.since = 0
        /\ c.adrift = b.adrift /\ c.stolen = b.stolen
    BY <2>4, SMT DEF BeatRecord
  <2>6. c.stolen = FALSE
    BY <1>8, <2>3, <2>5 DEF AtWork
  <2>7. Timely(lease, ttl, b, p)
    BY <1>6, <1>7, <2>2, <2>5, <2>6
  <2>8. Timely(lease, ttl, c, p)
    BY <1>1, <1>8, <2>1, <2>2, <2>5, <2>7, Times, SMT DEF Timely
  <2> QED
    BY <2>2, <2>3, <2>8, Zenon DEF Timely
<1>13. CASE BeatLost(p)
  <2>2. /\ b.pc \in {"call", "reply"} /\ UNCHANGED <<lease, ttl, runner>>
        /\ beat' = [beat EXCEPT ![p].pc = "lost"]
    BY <1>7, <1>13, Zenon DEF BeatLost
  <2>3. PICK c : c = beat'[p]
    OBVIOUS
  <2>4. c = [b EXCEPT !.pc = "lost"]
    BY <1>1, <1>7, <2>2, <2>3, Zenon
  <2>5. /\ c.pc = "lost" /\ c.timer = b.timer /\ c.since = b.since
        /\ c.adrift = b.adrift /\ c.stolen = b.stolen
    BY <2>4, SMT DEF BeatRecord
  <2>6. c.stolen = FALSE
    BY <1>8, <2>3, <2>5 DEF AtWork
  <2>7. Timely(lease, ttl, b, p)
    BY <1>6, <1>7, <2>2, <2>5, <2>6
  <2>8. Timely(lease, ttl, c, p)
    BY <1>1, <1>8, <2>2, <2>5, <2>7, Times, SMT DEF Timely
  <2> QED
    BY <2>2, <2>3, <2>8, Zenon DEF Timely
<1>14. CASE BeatRaises(p)
  <2>1. ~(b.since >= FailureDeadline)
    BY <1>7, <1>9, <1>14, Zenon DEF BeatRaises, SignalStolen
  <2>2. /\ b.pc = "lost" /\ UNCHANGED <<lease, ttl, runner>>
        /\ beat' = [beat EXCEPT ![p].pc = "sleep", ![p].timer = BeatInterval]
    BY <1>7, <1>14, <2>1, Zenon DEF BeatRaises
  <2>3. PICK c : c = beat'[p]
    OBVIOUS
  <2>4. c = [b EXCEPT !.pc = "sleep", !.timer = BeatInterval]
    BY <1>1, <1>7, <2>2, <2>3, Zenon
  <2>5. /\ c.pc = "sleep" /\ c.timer = BeatInterval /\ c.since = b.since
        /\ c.adrift = b.adrift /\ c.stolen = b.stolen
    BY <2>4, SMT DEF BeatRecord
  <2>6. c.stolen = FALSE
    BY <1>8, <2>3, <2>5 DEF AtWork
  <2>7. Timely(lease, ttl, b, p)
    BY <1>6, <1>7, <2>2, <2>5, <2>6
  <2>8. Timely(lease, ttl, c, p)
    <3>1. b.since >= BeatInterval
      BY <2>2, <2>7, SMT DEF Timely
    <3>2. b.since + BeatInterval < LeaseTtl
      BY <1>8, <2>1, <3>1, Times, SMT
    <3> QED
      BY <1>1, <1>8, <2>2, <2>5, <2>7, <3>1, <3>2, Times, SMT DEF Timely
  <2> QED
    BY <2>2, <2>3, <2>8, Zenon DEF Timely
<1>15. ~ \/ ClaimWorkerId(p) \/ ClaimGivesUp(p) \/ ShutdownBegins(p) \/ Drained(p)
         \/ StopHeartbeat(p) \/ ReleaseWorkerId(p)
  BY <1>2, Zenon DEF ClaimWorkerId, ClaimGivesUp, ShutdownBegins, Drained, StopHeartbeat,
     ReleaseWorkerId, RunnerPc
<1>16. ~ LateBeatEnds(p)
  BY DEF LateBeatEnds, AtWork
<1>17. ~ ProcessStarts(p)
  <2> SUFFICES ASSUME ProcessStarts(p) PROVE FALSE
    OBVIOUS
  <2>1. runner'[p].pc = "claim"
    BY <1>1, SMT DEF ProcessStarts
  <2> QED
    BY <2>1 DEF AtWork
<1>18. ~ ProcessDies(p)
  <2> SUFFICES ASSUME ProcessDies(p) PROVE FALSE
    OBVIOUS
  <2> DEFINE f == [runner EXCEPT ![p].pc = "down"]
  <2>1. runner' = [f EXCEPT ![p].busy = FALSE]
    BY Zenon DEF ProcessDies
  <2>2. f \in [Proc -> RunnerRecord]
    BY RunnerMoved, Zenon DEF LeaseTypeOK, RunnerPc
  <2>3. f[p].pc = "down"
    BY <1>1, SMT DEF RunnerRecord
  <2> HIDE DEF f
  <2>4. runner'[p].pc = f[p].pc
    BY <2>1, <2>2, SMT DEF RunnerRecord
  <2> QED
    BY <2>3, <2>4 DEF AtWork
<1> QED
  BY <1>3, <1>4, <1>10, <1>11, <1>12, <1>13, <1>14, <1>15, <1>16, <1>17, <1>18, Zenon
     DEF LeaseStep

\* Time goes on for one process that is at work: its heartbeat is due no later
\* than it was, and its lease runs out no sooner.
LEMMA TickInTime ==
    ASSUME LeaseTypeOK, LeaseTick, NEW p \in Proc,
           AtWork(p) => Timely(lease, ttl, beat[p], p), AtWork(p)'
    PROVE  Timely(lease, ttl, beat[p], p)'
<1>1. /\ runner[p] \in RunnerRecord /\ ttl \in 0..LeaseTtl
      /\ lease \in Proc \cup {NoProc} /\ lease = NoProc <=> ttl = 0
  BY DEF LeaseTypeOK
<1>2. PICK b \in BeatRecord : b = beat[p]
  BY DEF LeaseTypeOK
<1>3. /\ b.pc \in BeatPc /\ b.timer \in 0..(BeatInterval + CallLatency)
      /\ b.since \in Nat /\ b.adrift \in Nat /\ b.ok \in BOOLEAN /\ b.stolen \in BOOLEAN
  BY BeatFields
<1>4. runner[p].pc = "serve"
  <2>1. CASE runner[p].pc = "claim"
    <3> DEFINE w == runner[p].waited + 1
    <3>1. runner'[p] = [runner[p] EXCEPT !.waited = w]
      BY <2>1, Zenon DEF LeaseTick
    <3> HIDE DEF w
    <3>2. runner'[p].pc = "claim"
      BY <1>1, <2>1, <3>1, SMT DEF RunnerRecord
    <3> QED
      BY <3>2 DEF AtWork
  <2>2. CASE runner[p].pc # "claim"
    <3>1. runner'[p] = runner[p]
      BY <2>2, Zenon DEF LeaseTick
    <3> QED
      BY <3>1 DEF AtWork
  <2> QED
    BY <2>1, <2>2
<1>5. PICK c : c = beat'[p]
  OBVIOUS
<1>6. CASE b.pc = "off"
  <2>1. c = b
    BY <1>2, <1>5, <1>6, Zenon DEF LeaseTick
  <2>2. Timely(lease, ttl, b, p)
    BY <1>2, <1>4, <1>5, <2>1 DEF AtWork
  <2> QED
    BY <1>6, <2>2 DEF Timely
<1>7. CASE b.pc # "off"
  <2> DEFINE t == b.timer - 1
             n == CapClock(b.since + 1)
             m == IF lease' = p THEN 0 ELSE CapClock(b.adrift + 1)
  <2>1. c = [b EXCEPT !.timer = t, !.since = n, !.adrift = m]
    BY <1>2, <1>5, <1>7, Zenon DEF LeaseTick
  <2> HIDE DEF t, n, m
  <2>2. /\ c.pc = b.pc /\ c.timer = t /\ c.since = n /\ c.adrift = m
        /\ c.ok = b.ok /\ c.stolen = b.stolen
    BY <2>1, SMT DEF BeatRecord
  <2>3. Timely(lease, ttl, b, p)
    <3>1. ~b.stolen
      BY <1>5, <2>2 DEF AtWork
    <3> QED
      BY <1>2, <1>4, <3>1 DEF AtWork
  <2>4. t = b.timer - 1 /\ b.timer >= 1
    <3>1. b.timer # 0
      BY <1>2, <1>7 DEF LeaseTick, Overdue
    <3> QED
      BY <1>3, <3>1, SMT DEF t
  <2>5. n = b.since + 1
    <3>1. b.since + 1 < LeaseTtl + CallLatency
      <4>1. CASE b.pc = "sleep"
        BY <1>3, <2>3, <2>4, <4>1, Times, SMT DEF Timely
      <4>2. CASE b.pc # "sleep"
        BY <1>3, <2>3, <2>4, <4>2, Times, SMT DEF Timely
      <4> QED
        BY <4>1, <4>2
    <3>2. b.since + 1 < ClockCap
      BY <1>3, <3>1, Times, SMT DEF ClockCap
    <3> QED
      BY <3>2 DEF n, CapClock
  <2>6. PICK h, u : h = lease' /\ u = ttl'
    OBVIOUS
  <2>7. u = IF ttl > 0 THEN ttl - 1 ELSE 0
    BY <2>6 DEF LeaseTick
  <2>8. h = IF u = 0 THEN NoProc ELSE lease
    BY <2>6 DEF LeaseTick
  <2>9. /\ b.pc = "sleep" => n + t \in BeatInterval..(LeaseTtl - 1)
        /\ b.pc # "sleep" => /\ n >= BeatInterval /\ t <= CallLatency
                             /\ n + t < LeaseTtl + CallLatency
    BY <1>3, <2>3, <2>4, <2>5, Times, SMT DEF Timely
  <2>10. ASSUME h = p
         PROVE  /\ u + n + CallLatency >= LeaseTtl /\ m = 0
                /\ b.pc = "reply" /\ b.ok => u + CallLatency >= LeaseTtl + t
    <3>1. lease = p /\ ttl > 0 /\ u = ttl - 1 /\ m = 0
      BY <1>1, <2>6, <2>7, <2>8, <2>10, NoProcAssumption, SMT DEF m
    <3>2. ttl + b.since + CallLatency >= LeaseTtl
      BY <2>3, <3>1 DEF Timely
    <3>3. b.pc = "reply" /\ b.ok => ttl + CallLatency >= LeaseTtl + b.timer
      BY <2>3, <3>1 DEF Timely
    <3> QED
      BY <1>1, <1>3, <2>4, <2>5, <3>1, <3>2, <3>3, Times, SMT
  <2>11. ASSUME h # p
         PROVE  /\ m >= 1 /\ m + LeaseTtl <= n + CallLatency + 1
                /\ b.pc = "reply" /\ b.ok => m + LeaseTtl + t <= CallLatency + 1
    <3>1. m = CapClock(b.adrift + 1)
      BY <2>6, <2>11 DEF m
    <3>2. ClockCap \in Nat /\ ClockCap >= 1
      BY Times, SMT DEF ClockCap
    <3>3. m \in Nat /\ m >= 1 /\ m <= b.adrift + 1
      BY <1>3, <3>1, <3>2, SMT DEF CapClock
    <3>4. CASE lease = p
      <4>1. ttl = 1 \/ ttl = 0
        BY <1>1, <2>7, <2>8, <2>11, <3>4, NoProcAssumption, Times, SMT
      <4>2. ttl < LeaseTtl
        BY <4>1, Times, SMT
      <4>3. b.adrift = 0 /\ ttl + b.since + CallLatency >= LeaseTtl
        BY <2>3, <3>4, <4>2 DEF Timely
      <4>4. b.pc = "reply" /\ b.ok => ttl + CallLatency >= LeaseTtl + b.timer
        BY <2>3, <3>4 DEF Timely
      <4> QED
        BY <1>3, <2>4, <2>5, <3>3, <4>1, <4>3, <4>4, Times, SMT
    <3>5. CASE lease # p
      <4>1. b.adrift + LeaseTtl <= b.since + CallLatency + 1
        BY <2>3, <3>5 DEF Timely
      <4>2. b.pc = "reply" /\ b.ok =>
               b.adrift + LeaseTtl + b.timer <= CallLatency + 1
        BY <2>3, <3>5 DEF Timely
      <4> QED
        BY <1>3, <2>4, <2>5, <3>3, <4>1, <4>2, Times, SMT
    <3> QED
      BY <3>4, <3>5
  <2>12. Timely(h, u, c, p)
    BY <1>7, <2>2, <2>9, <2>10, <2>11 DEF Timely
  <2> QED
    BY <1>5, <2>6, <2>12 DEF Timely
<1> QED
  BY <1>6, <1>7

\* Every step keeps every working heartbeat in time.
LEMMA InTimeKept ==
    ASSUME LeaseTypeOK, BeatsInTime, [LeaseNext]_leaseVars
    PROVE  BeatsInTime'
<1>1. CASE LeaseTick
  BY <1>1, TickInTime DEF BeatsInTime
<1>2. ASSUME NEW p \in Proc, LeaseStep(p)
      PROVE  BeatsInTime'
  <2> SUFFICES ASSUME NEW q \in Proc, AtWork(q)'
               PROVE  Timely(lease, ttl, beat[q], q)'
    BY DEF BeatsInTime
  <2>1. CASE q = p
    BY <1>2, <2>1, OwnInTime DEF BeatsInTime
  <2>2. CASE q # p
    <3>1. /\ runner'[q] = runner[q] /\ beat'[q] = beat[q]
          /\ \/ lease = q /\ lease' = q /\ ttl' = ttl
             \/ lease # q /\ lease' # q
      BY <1>2, <2>2, OthersSpared
    <3>2. PICK b, h, t : b = beat[q] /\ h = lease' /\ t = ttl'
      OBVIOUS
    <3>3. Timely(lease, ttl, b, q)
      BY <3>1, <3>2 DEF BeatsInTime, AtWork
    <3>4. Timely(h, t, b, q)
      BY <3>1, <3>2, <3>3 DEF Timely
    <3> QED
      BY <3>1, <3>2, <3>4, Zenon DEF Timely
  <2> QED
    BY <2>1, <2>2
<1>3. CASE UNCHANGED leaseVars
  BY <1>3, Zenon DEF leaseVars, BeatsInTime, AtWork, Timely
<1> QED
  BY <1>1, <1>2, <1>3 DEF LeaseNext

\* A process that serves and has not been told to stop holds the lease, or lost
\* it no longer ago than the answer of its last good call and the error of its
\* last bad one took (heartbeat.py, the failure deadline), for all timings with
\* an interval shorter than the lease.
THEOREM ServedUnderLease == LeaseSpec => []ServesUnderLease
<1>1. LeaseInit => BeatsInTime
  <2> SUFFICES ASSUME LeaseInit, NEW p \in Proc PROVE ~AtWork(p)
    BY DEF BeatsInTime
  <2>1. runner[p].pc = "down"
    BY DEF LeaseInit
  <2> QED
    BY <2>1 DEF AtWork
<1>2. LeaseTypeOK /\ BeatsInTime => ServesUnderLease
  <2> SUFFICES ASSUME LeaseTypeOK, BeatsInTime, NEW p \in Proc, AtWork(p), lease # p
               PROVE  beat[p].adrift \in 1..(2 * CallLatency)
    BY DEF ServesUnderLease, AtWork
  <2>1. PICK b \in BeatRecord : b = beat[p]
    BY DEF LeaseTypeOK
  <2>2. Timely(lease, ttl, b, p)
    BY <2>1 DEF BeatsInTime
  <2>3. /\ b.timer \in 0..(BeatInterval + CallLatency) /\ b.since \in Nat /\ b.adrift \in Nat
    BY BeatFields
  <2>4. b.adrift >= 1 /\ b.adrift + LeaseTtl <= b.since + CallLatency + 1
    BY <2>2 DEF Timely
  <2>5. b.since < LeaseTtl + CallLatency
    <3>1. CASE b.pc = "sleep"
      BY <2>2, <2>3, <3>1, Times, SMT DEF Timely
    <3>2. CASE b.pc # "sleep"
      BY <2>2, <2>3, <3>2, Times, SMT DEF Timely
    <3> QED
      BY <3>1, <3>2
  <2> QED
    BY <2>1, <2>3, <2>4, <2>5, Times, SMT
<1>3. LeaseTypeOK /\ BeatsInTime /\ [LeaseNext]_leaseVars => BeatsInTime'
  BY InTimeKept
<1> QED
  BY <1>1, <1>2, <1>3, LeaseTypeCorrect, PTL DEF LeaseSpec
=============================================================================
