------------------------- MODULE RunnerSlots_proofs -------------------------
(***************************************************************************)
(* For every set of messages, streams and slots: the variables of          *)
(* RunnerSlots keep to their types (SlotsTypeCorrect), and the consumer    *)
(* accounts for its slots and its batch (ConsumerAlwaysAccounts).          *)
(***************************************************************************)
EXTENDS RunnerSlots, FiniteSetTheorems, SequenceTheorems, TLAPS

Streams == Stream \cup {CtrlStream}
ConsumerPc == {"top", "slot", "fetch", "block", "exited"}
ConsumerRecord == [pc: ConsumerPc, batch: Seq(Msg)]
ControlRecord == [pc: {"read", "handle", "dead"}, batch: Seq(Msg)]

\* No message twice in a sequence.
OnceEach(q) == \A i, j \in 1..Len(q) : q[i] = q[j] => i = j

\* Each stream holds its own messages, once each.
Sorted ==
    \A s \in Streams : /\ OnceEach(unread[s])
                       /\ \A m \in ToSet(unread[s]) : StreamOf[m] = s

\* A message is in one place.
Apart ==
    /\ OnceEach(consumer.batch) /\ OnceEach(control.batch)
    /\ ToSet(consumer.batch) \cap ToSet(control.batch) = {}
    /\ Waiting \cap InHand = {}

\* What waits or is in hand has not been started.
Unstarted == \A m \in Waiting \cup InHand : task[m] = "none"

\* The control loop handles something.
HandlesSome == control.pc = "handle" => control.batch # <<>>

\* The permits, counted.
Running == {m \in Msg : task[m] = "running"}
Counted ==
    Serving => /\ IsFiniteSet(Running)
               /\ permits + Cardinality(Running) + (IF HoldsSlot THEN 1 ELSE 0)
                      = MaxConcurrency

\* Until something fails only garbled messages are dropped.
Harmless == Serving /\ slotFaults = 0 => stranded \subseteq Garbled

SlotsOK ==
    /\ SlotsTypeOK /\ Sorted /\ Apart /\ Unstarted /\ HandlesSome
    /\ Counted /\ Harmless
-----------------------------------------------------------------------------
(* Sequences of messages.                                                  *)

LEMMA Members ==
    ASSUME NEW q \in Seq(Msg)
    PROVE  /\ ToSet(q) \subseteq Msg
           /\ \A m : m \in ToSet(q) <=> \E i \in 1..Len(q) : q[i] = m
           /\ DOMAIN q = 1..Len(q) /\ Len(q) \in Nat
BY DEF ToSet

LEMMA NoMembers == ToSet(<<>>) = {} /\ OnceEach(<<>>) /\ <<>> \in Seq(Msg)
BY DEF ToSet, OnceEach

\* The head of a sequence and what is left of it.
LEMMA HeadAndTail ==
    ASSUME NEW q \in Seq(Msg), q # <<>>, OnceEach(q)
    PROVE  /\ Head(q) \in ToSet(q) /\ Head(q) \in Msg
           /\ Tail(q) \in Seq(Msg) /\ OnceEach(Tail(q))
           /\ ToSet(Tail(q)) \subseteq ToSet(q) \ {Head(q)}
           /\ Len(q) # 1 => Tail(q) # <<>>
<1>1. /\ Head(q) \in Msg /\ Tail(q) \in Seq(Msg) /\ Len(Tail(q)) = Len(q) - 1
      /\ \A i \in 1..Len(Tail(q)) : Tail(q)[i] = q[i + 1]
  BY HeadTailProperties
<1>2. Len(q) \in Nat \ {0} /\ Head(q) = q[1]
  BY EmptySeq
<1>3. Head(q) \in ToSet(q)
  BY <1>2, Members
<1>4. OnceEach(Tail(q))
  BY <1>1, <1>2 DEF OnceEach
<1>5. \A m \in ToSet(Tail(q)) : m \in ToSet(q) /\ m # Head(q)
  <2> SUFFICES ASSUME NEW i \in 1..Len(Tail(q))
               PROVE  Tail(q)[i] \in ToSet(q) /\ Tail(q)[i] # Head(q)
    <3> DEFINE t == Tail(q)
    <3>1. t \in Seq(Msg)
      BY <1>1
    <3> HIDE DEF t
    <3>2. \A m : m \in ToSet(t) <=> \E i \in 1..Len(t) : t[i] = m
      BY <3>1, Members
    <3> QED
      BY <3>2, Zenon DEF t
  <2>1. i + 1 \in 1..Len(q) /\ i + 1 # 1 /\ 1 \in 1..Len(q) /\ Tail(q)[i] = q[i + 1]
    BY <1>1, <1>2
  <2> QED
    BY <1>2, <2>1, Members DEF OnceEach
<1>6. Len(q) # 1 => Tail(q) # <<>>
  <2>1. Len(<<>>) = 0
    OBVIOUS
  <2>2. Len(Tail(q)) # 0 => Tail(q) # <<>>
    BY <2>1, Zenon
  <2> QED
    BY <1>1, <1>2, <2>2
<1> QED
  BY <1>1, <1>3, <1>4, <1>5, <1>6

\* A message appended.
LEMMA Appended ==
    ASSUME NEW q \in Seq(Msg), NEW m \in Msg, OnceEach(q), m \notin ToSet(q)
    PROVE  /\ Append(q, m) \in Seq(Msg) /\ OnceEach(Append(q, m))
           /\ ToSet(Append(q, m)) = ToSet(q) \cup {m}
<1> DEFINE r == Append(q, m)
<1>1. /\ r \in Seq(Msg) /\ Len(r) = Len(q) + 1 /\ r[Len(q) + 1] = m
      /\ \A i \in 1..Len(q) : r[i] = q[i]
  BY AppendProperties
<1>2. Len(q) \in Nat
  BY Members
<1> HIDE DEF r
<1>3. \A i \in 1..Len(r) : \/ i \in 1..Len(q) /\ r[i] = q[i] /\ r[i] \in ToSet(q)
                           \/ i = Len(q) + 1 /\ r[i] = m
  BY <1>1, <1>2, Members
<1>4. OnceEach(r)
  BY <1>3 DEF OnceEach
<1>5. ToSet(r) \subseteq ToSet(q) \cup {m}
  BY <1>1, <1>3, Members
<1>6. ToSet(q) \cup {m} \subseteq ToSet(r)
  <2>1. m \in ToSet(r)
    BY <1>1, <1>2, Members
  <2>2. \A i \in 1..Len(q) : q[i] \in ToSet(r)
    BY <1>1, <1>2, Members
  <2> QED
    BY <2>1, <2>2, Members
<1> QED
  BY <1>1, <1>4, <1>5, <1>6 DEF r

\* A sequence parted in two.
LEMMA Parted ==
    ASSUME NEW q \in Seq(Msg), OnceEach(q), NEW n \in 0..Len(q)
    PROVE  LET front == SubSeq(q, 1, n)
               rest == SubSeq(q, n + 1, Len(q))
           IN  /\ front \in Seq(Msg) /\ rest \in Seq(Msg)
               /\ OnceEach(front) /\ OnceEach(rest)
               /\ ToSet(front) \subseteq ToSet(q) /\ ToSet(rest) \subseteq ToSet(q)
               /\ ToSet(front) \cap ToSet(rest) = {}
               /\ Len(front) = n
<1> DEFINE front == SubSeq(q, 1, n)
           rest == SubSeq(q, n + 1, Len(q))
<1>1. Len(q) \in Nat /\ n \in Nat /\ n <= Len(q) /\ \A i \in 1..Len(q) : q[i] \in Msg
  BY Members
<1>2. /\ front \in Seq(Msg) /\ Len(front) = n
      /\ \A i \in 1..n : front[i] = q[i]
  <2>1. \A i \in 1..n : q[i] \in Msg
    BY <1>1
  <2> QED
    BY <1>1, <2>1, SubSeqProperties
<1>3. /\ rest \in Seq(Msg) /\ Len(rest) = Len(q) - n
      /\ \A i \in 1..Len(q) - n : rest[i] = q[n + i]
  <2>1. \A i \in n + 1..Len(q) : q[i] \in Msg
    BY <1>1
  <2>2. /\ rest \in Seq(Msg)
        /\ Len(rest) = IF n + 1 <= Len(q) THEN Len(q) - (n + 1) + 1 ELSE 0
        /\ \A i \in 1..Len(q) - (n + 1) + 1 : rest[i] = q[(n + 1) + i - 1]
    BY <1>1, <2>1, SubSeqProperties
  <2> HIDE DEF rest
  <2> QED
    BY <1>1, <2>2
<1> HIDE DEF front, rest
<1>4. OnceEach(front) /\ OnceEach(rest)
  <2>1. OnceEach(front)
    BY <1>1, <1>2 DEF OnceEach
  <2>2. OnceEach(rest)
    BY <1>1, <1>3 DEF OnceEach
  <2> QED
    BY <2>1, <2>2
<1>5. \A m \in ToSet(front) : \E i \in 1..n : m = q[i]
  BY <1>2, Members
<1>6. \A m \in ToSet(rest) : \E i \in n + 1..Len(q) : m = q[i]
  <2> SUFFICES ASSUME NEW i \in 1..Len(rest)
               PROVE  \E j \in n + 1..Len(q) : rest[i] = q[j]
    BY <1>3, Members
  <2>1. n + i \in n + 1..Len(q) /\ rest[i] = q[n + i]
    BY <1>1, <1>3
  <2> QED
    BY <2>1
<1>7. ToSet(front) \subseteq ToSet(q) /\ ToSet(rest) \subseteq ToSet(q)
  BY <1>1, <1>5, <1>6, Members
<1>8. ToSet(front) \cap ToSet(rest) = {}
  BY <1>1, <1>5, <1>6 DEF OnceEach
<1> QED
  BY <1>2, <1>3, <1>4, <1>7, <1>8 DEF front, rest
-----------------------------------------------------------------------------
(* What a read takes.                                                      *)

\* The handed entries leave the stream.
LEMMA HandedLeave ==
    ASSUME SlotsTypeOK, Sorted, NEW s \in Streams
    PROVE  /\ Handed(s) \in Seq(Msg) /\ Left(s) \in Seq(Msg)
           /\ OnceEach(Handed(s)) /\ OnceEach(Left(s))
           /\ ToSet(Handed(s)) \subseteq ToSet(unread[s])
           /\ ToSet(Left(s)) \subseteq ToSet(unread[s])
           /\ ToSet(Handed(s)) \cap ToSet(Left(s)) = {}
           /\ unread[s] # <<>> => Handed(s) # <<>>
<1>1. unread[s] \in Seq(Msg) /\ OnceEach(unread[s])
  BY DEF SlotsTypeOK, Sorted, Streams
<1>2. /\ Count(s) \in 0..Len(unread[s])
      /\ unread[s] # <<>> => Count(s) # 0
  <2>1. Len(unread[s]) \in Nat /\ (unread[s] # <<>> => Len(unread[s]) # 0)
    BY <1>1, EmptySeq
  <2> QED
    BY <2>1, SlotsAssumption DEF Count
<1>4. Len(Handed(s)) = Count(s)
  BY <1>1, <1>2, Parted, Zenon DEF Handed
<1>5. unread[s] # <<>> => Handed(s) # <<>>
  BY <1>2, <1>4
<1> QED
  BY <1>1, <1>2, <1>5, Parted, Zenon DEF Handed, Left

\* A read of some streams.
LEMMA ReadsApart ==
    ASSUME SlotsTypeOK, Sorted, NEW S \in SUBSET Streams, ReadFrom(S)
    PROVE  /\ unread' \in [Stream \cup {CtrlStream} -> Seq(Msg)] /\ Sorted'
           /\ Waiting' \subseteq Waiting /\ Read(S) \subseteq Waiting
           /\ Read(S) \cap Waiting' = {} /\ Read(S) \subseteq Msg
<1>1. unread \in [Streams -> Seq(Msg)]
  BY DEF SlotsTypeOK, Streams
<1>2. unread' = [s \in Streams |-> IF s \in S THEN Left(s) ELSE unread[s]]
  BY <1>1 DEF ReadFrom
<1>3. \A s \in Streams : unread'[s] = IF s \in S THEN Left(s) ELSE unread[s]
  BY <1>2
<1>4. \A s \in Streams : /\ unread'[s] \in Seq(Msg) /\ OnceEach(unread'[s])
                         /\ ToSet(unread'[s]) \subseteq ToSet(unread[s])
  BY <1>1, <1>3, HandedLeave DEF Sorted
<1>5. unread' \in [Streams -> Seq(Msg)]
  BY <1>2, <1>3, <1>4
<1>6. Sorted'
  BY <1>4 DEF Sorted
<1>7. Waiting = UNION {ToSet(unread[s]) : s \in Streams}
  BY <1>1 DEF Waiting
<1>8. Waiting' = UNION {ToSet(unread'[s]) : s \in Streams}
  BY <1>5 DEF Waiting
<1>9. Waiting' \subseteq Waiting
  BY <1>4, <1>7, <1>8
<1>10. \A s \in S : ToSet(Handed(s)) \subseteq ToSet(unread[s])
  BY HandedLeave
<1>11. Read(S) \subseteq Waiting
  BY <1>7, <1>10 DEF Read
<1>12. \A s \in Streams : ToSet(unread[s]) \subseteq Msg
  BY <1>1, Members
<1>13. Read(S) \subseteq Msg
  BY <1>10, <1>12 DEF Read
<1>14. Read(S) \cap Waiting' = {}
  <2> SUFFICES ASSUME NEW s \in S, NEW t \in Streams, NEW m \in ToSet(Handed(s)),
                      m \in ToSet(unread'[t])
               PROVE  FALSE
    BY <1>8 DEF Read
  <2>1. StreamOf[m] = s /\ StreamOf[m] = t
    BY <1>4, <1>10 DEF Sorted
  <2>2. unread'[t] = Left(s)
    BY <1>3, <2>1
  <2> QED
    BY <2>2, HandedLeave
<1> QED
  BY <1>5, <1>6, <1>9, <1>11, <1>13, <1>14 DEF Streams

\* What is read at once is finite.
LEMMA ReadFinite ==
    ASSUME SlotsTypeOK, Sorted, NEW S \in SUBSET Stream
    PROVE  IsFiniteSet(Read(S))
<1>1. IsFiniteSet(S)
  BY SlotsAssumption, FS_Subset
<1> DEFINE of == [s \in S |-> ToSet(Handed(s))]
           T == {ToSet(Handed(s)) : s \in S}
<1>2. of \in Surjection(S, T)
  BY DEF Surjection
<1>3. IsFiniteSet(T)
  BY <1>1, <1>2, FS_Surjection, Zenon
<1>4. ASSUME NEW s \in S PROVE IsFiniteSet(ToSet(Handed(s)))
  <2> DEFINE q == Handed(s)
  <2>1. q \in Seq(Msg)
    BY HandedLeave DEF Streams
  <2> HIDE DEF q
  <2>2. q \in Surjection(1..Len(q), ToSet(q)) /\ Len(q) \in Nat
    BY <2>1, Members DEF Surjection
  <2>3. IsFiniteSet(1..Len(q))
    BY <2>2, FS_Interval
  <2>4. IsFiniteSet(ToSet(q))
    BY <2>2, <2>3, FS_Surjection, Zenon
  <2> QED
    BY <2>4 DEF q
<1>5. \A x \in T : IsFiniteSet(x)
  BY <1>4
<1> QED
  BY <1>3, <1>5, FS_UNION, Zenon DEF Read

\* A batch holds messages that were read, once each.
LEMMA BatchOfRead ==
    ASSUME SlotsTypeOK, Sorted, NEW S \in SUBSET Stream, Read(S) \subseteq Msg,
           NEW batch \in Parsed(S)
    PROVE  batch \in Seq(Msg) /\ OnceEach(batch) /\ ToSet(batch) \subseteq Read(S)
<1> DEFINE R == Read(S) \ Garbled
           n == Cardinality(R)
<1>1. n \in Nat
  <2>1. IsFiniteSet(R)
    BY ReadFinite, FS_Subset
  <2> QED
    BY <2>1, FS_CardinalityType
<1>2. batch \in [1..n -> R] /\ \A i, j \in 1..n : i # j => batch[i] # batch[j]
  BY Zenon DEF Parsed, SetToSeqs
<1> HIDE DEF n
<1>3. batch \in Seq(R) /\ Len(batch) = n
  BY <1>1, <1>2
<1>4. batch \in Seq(Msg)
  BY <1>3
<1>5. OnceEach(batch)
  BY <1>2, <1>3 DEF OnceEach
<1>6. ToSet(batch) \subseteq R
  BY <1>2 DEF ToSet
<1> QED
  BY <1>4, <1>5, <1>6
-----------------------------------------------------------------------------
(* What a step keeps.                                                      *)

\* Reads that go to the batches leave every message in one place.
LEMMA FlowKept ==
    ASSUME Apart, Unstarted, Waiting' \subseteq Waiting,
           NEW R \in SUBSET Waiting, NEW Q \in SUBSET Waiting,
           R \cap Waiting' = {}, Q \cap Waiting' = {}, Q \cap R = {},
           OnceEach(consumer'.batch), OnceEach(control'.batch),
           ToSet(consumer'.batch) \subseteq ToSet(consumer.batch) \cup R,
           ToSet(control'.batch) \subseteq ToSet(control.batch) \cup Q,
           \A m \in Waiting' \cup ToSet(consumer'.batch) \cup ToSet(control'.batch) :
               task'[m] = task[m]
    PROVE  Apart' /\ Unstarted'
<1>1. InHand = ToSet(consumer.batch) \cup ToSet(control.batch)
  BY DEF InHand
<1>2. InHand' = ToSet(consumer'.batch) \cup ToSet(control'.batch)
  BY DEF InHand
<1>3. Apart'
  BY <1>1, <1>2 DEF Apart
<1>4. Unstarted'
  BY <1>1, <1>2 DEF Unstarted
<1> QED
  BY <1>3, <1>4

\* So do steps that take messages out.
LEMMA FlowLeaves ==
    ASSUME Apart, Unstarted, Waiting' \subseteq Waiting,
           OnceEach(consumer'.batch), OnceEach(control'.batch),
           ToSet(consumer'.batch) \subseteq ToSet(consumer.batch),
           ToSet(control'.batch) \subseteq ToSet(control.batch),
           \A m \in Waiting' \cup ToSet(consumer'.batch) \cup ToSet(control'.batch) :
               task'[m] = task[m]
    PROVE  Apart' /\ Unstarted'
<1> DEFINE none == {}
<1>1. /\ none \in SUBSET Waiting /\ none \cap Waiting' = {} /\ none \cap none = {}
      /\ ToSet(consumer'.batch) \subseteq ToSet(consumer.batch) \cup none
      /\ ToSet(control'.batch) \subseteq ToSet(control.batch) \cup none
  OBVIOUS
<1> HIDE DEF none
<1> QED
  BY <1>1, FlowKept

\* The set of running tasks with one more, and with one less.
LEMMA OneStarts ==
    ASSUME task \in [Msg -> TaskState], NEW h \in Msg, task[h] # "running",
           task'[h] = "running", \A m \in Msg \ {h} : task'[m] = task[m],
           IsFiniteSet(Running)
    PROVE  IsFiniteSet(Running') /\ Cardinality(Running') = Cardinality(Running) + 1
<1>1. Running' = Running \cup {h} /\ h \notin Running
  BY DEF Running
<1> QED
  BY <1>1, FS_AddElement

LEMMA OneEnds ==
    ASSUME task \in [Msg -> TaskState], NEW h \in Msg, task[h] = "running",
           task'[h] # "running", \A m \in Msg \ {h} : task'[m] = task[m],
           IsFiniteSet(Running)
    PROVE  IsFiniteSet(Running') /\ Cardinality(Running') = Cardinality(Running) - 1
<1>1. Running' = Running \ {h} /\ h \in Running
  BY DEF Running
<1> QED
  BY <1>1, FS_RemoveElement

\* One task set.
LEMMA TaskSet ==
    ASSUME task \in [Msg -> TaskState], NEW m \in Msg, NEW t \in TaskState,
           task' = [task EXCEPT ![m] = t]
    PROVE  /\ task' \in [Msg -> TaskState] /\ task'[m] = t
           /\ \A x \in Msg \ {m} : task'[x] = task[x]
BY SMT

\* The consumer goes on.
LEMMA ConsumerAt ==
    ASSUME NEW c \in ConsumerRecord, NEW pc \in ConsumerPc, NEW v,
           v = [c EXCEPT !.pc = pc]
    PROVE  v \in ConsumerRecord /\ v.pc = pc /\ v.batch = c.batch
BY SMT DEF ConsumerRecord
-----------------------------------------------------------------------------
(* The consumer.                                                           *)

\* The head of a batch starts.
LEMMA HeadStarts ==
    ASSUME SlotsTypeOK, NEW batch \in Seq(Msg), batch # <<>>, OnceEach(batch),
           StartHead(batch)
    PROVE  /\ task' \in [Msg -> TaskState] /\ consumer' \in ConsumerRecord
           /\ consumer'.pc \in {"top", "slot"} /\ OnceEach(consumer'.batch)
           /\ \E h \in Msg : /\ h \in ToSet(batch)
                             /\ ToSet(consumer'.batch) \subseteq ToSet(batch) \ {h}
                             /\ task'[h] = "running"
                             /\ \A m \in Msg \ {h} : task'[m] = task[m]
<1> DEFINE h == Head(batch)
<1>1. /\ h \in ToSet(batch) /\ h \in Msg
      /\ Tail(batch) \in Seq(Msg) /\ OnceEach(Tail(batch))
      /\ ToSet(Tail(batch)) \subseteq ToSet(batch) \ {h}
  BY HeadAndTail
<1>2. task' = [task EXCEPT ![h] = "running"]
  BY DEF StartHead
<1>3. /\ consumer' \in ConsumerRecord /\ consumer'.pc \in {"top", "slot"}
      /\ consumer'.batch = Tail(batch)
  BY <1>1 DEF StartHead, ConsumerRecord, ConsumerPc
<1> HIDE DEF h
<1>4. /\ task' \in [Msg -> TaskState] /\ task'[h] = "running"
      /\ \A m \in Msg \ {h} : task'[m] = task[m]
  BY <1>1, <1>2, TaskSet DEF SlotsTypeOK, TaskState
<1> QED
  BY <1>1, <1>3, <1>4

\* A pass over some streams, whatever it brings.
Fetches(S, emptyPc) ==
    /\ HoldsSlot /\ Serving
    /\ ReadFrom(S) /\ stranded' = stranded \cup Unparsed(S)
    /\ \E batch \in Parsed(S) : BatchRead(batch, emptyPc)
    /\ UNCHANGED <<control, lifecycle, denied, mainPc, slotFaults>>

LEMMA FetchesOK ==
    ASSUME SlotsOK, NEW S \in SUBSET Stream, NEW emptyPc \in {"top", "block"},
           Fetches(S, emptyPc)
    PROVE  SlotsOK'
<1>1. /\ SlotsTypeOK /\ Sorted /\ Apart /\ Unstarted /\ Counted
      /\ consumer \in ConsumerRecord /\ permits \in Int
  BY DEF SlotsOK, SlotsTypeOK, ConsumerRecord, ConsumerPc
<1>2. HoldsSlot /\ Serving /\ UNCHANGED <<control, lifecycle, denied, mainPc, slotFaults>>
  BY DEF Fetches
<1>3. /\ unread' \in [Stream \cup {CtrlStream} -> Seq(Msg)] /\ Sorted'
      /\ Waiting' \subseteq Waiting /\ Read(S) \subseteq Waiting
      /\ Read(S) \cap Waiting' = {} /\ Read(S) \subseteq Msg
  BY <1>1, ReadsApart DEF Fetches, Streams
<1>4. PICK batch \in Parsed(S) : BatchRead(batch, emptyPc)
  BY DEF Fetches
<1>5. batch \in Seq(Msg) /\ OnceEach(batch) /\ ToSet(batch) \subseteq Read(S)
  BY <1>1, <1>3, BatchOfRead
<1>6. /\ task' \in [Msg -> TaskState] /\ consumer' \in ConsumerRecord
      /\ permits' \in Int /\ Apart' /\ Unstarted' /\ Counted'
  <2>1. CASE batch = <<>>
    <3>1. /\ consumer' = [consumer EXCEPT !.pc = emptyPc] /\ task' = task
          /\ permits' = IF emptyPc = "top" THEN permits + 1 ELSE permits
      BY <1>4, <2>1 DEF BatchRead
    <3>2. /\ consumer' \in ConsumerRecord /\ consumer'.pc = emptyPc
          /\ consumer'.batch = consumer.batch
      BY <1>1, <3>1, ConsumerAt DEF ConsumerPc
    <3>3. Apart' /\ Unstarted'
      <4>1. OnceEach(consumer'.batch) /\ OnceEach(control'.batch)
        BY <1>1, <1>2, <3>2 DEF Apart
      <4> QED
        BY <1>1, <1>2, <1>3, <3>1, <3>2, <4>1, FlowKept
    <3>4. Running' = Running /\ (HoldsSlot' <=> emptyPc = "block")
      BY <3>1, <3>2 DEF Running, HoldsSlot
    <3>5. Counted'
      <4>1. IsFiniteSet(Running) /\ Cardinality(Running) \in Nat
        BY <1>1, <1>2, FS_CardinalityType DEF Counted
      <4> QED
        BY <1>1, <1>2, <3>1, <3>4, <4>1 DEF Counted, Serving
    <3> QED
      BY <1>1, <3>1, <3>2, <3>3, <3>5 DEF SlotsTypeOK
  <2>2. CASE batch # <<>>
    <3>1. StartHead(batch) /\ permits' = permits
      BY <1>4, <2>2 DEF BatchRead
    <3>2. /\ task' \in [Msg -> TaskState] /\ consumer' \in ConsumerRecord
          /\ consumer'.pc \in {"top", "slot"} /\ OnceEach(consumer'.batch)
      BY <1>1, <1>5, <2>2, <3>1, HeadStarts
    <3>3. PICK h \in Msg : /\ h \in ToSet(batch)
                           /\ ToSet(consumer'.batch) \subseteq ToSet(batch) \ {h}
                           /\ task'[h] = "running"
                           /\ \A m \in Msg \ {h} : task'[m] = task[m]
      BY <1>1, <1>5, <2>2, <3>1, HeadStarts
    <3>4. h \in Read(S) /\ h \in Waiting /\ task[h] = "none"
      BY <1>1, <1>3, <1>5, <3>3 DEF Unstarted
    <3>5. Apart' /\ Unstarted'
      <4>1. \A m \in Waiting' \cup ToSet(consumer'.batch) \cup ToSet(control'.batch) :
                m \in Msg \ {h}
        <5>1. h \notin Waiting' /\ h \notin ToSet(consumer'.batch)
          BY <1>3, <3>3, <3>4
        <5>2. h \notin ToSet(control'.batch)
          BY <1>1, <1>2, <3>4 DEF Apart, InHand
        <5>3. Waiting' \subseteq Msg
          <6>1. \A s \in Streams : unread'[s] \in Seq(Msg)
            BY <1>3 DEF Streams
          <6>2. Waiting' = UNION {ToSet(unread'[s]) : s \in Streams}
            BY <1>3 DEF Waiting, Streams
          <6> QED
            BY <6>1, <6>2, Members
        <5>4. ToSet(consumer'.batch) \subseteq Msg
          BY <1>3, <1>5, <3>3
        <5>5. ToSet(control'.batch) \subseteq Msg
          <6>1. control'.batch \in Seq(Msg)
            BY <1>1, <1>2 DEF SlotsTypeOK
          <6> QED
            BY <6>1, Members
        <5> QED
          BY <5>1, <5>2, <5>3, <5>4, <5>5
      <4>2. ToSet(consumer'.batch) \subseteq Read(S) /\ OnceEach(control'.batch)
        BY <1>1, <1>2, <1>5, <3>3 DEF Apart
      <4> QED
        BY <1>1, <1>2, <1>3, <3>2, <3>3, <4>1, <4>2, FlowKept
    <3>6. ~HoldsSlot'
      BY <3>2 DEF HoldsSlot
    <3>7. Counted'
      <4>1. IsFiniteSet(Running) /\ Cardinality(Running) \in Nat
        BY <1>1, <1>2, FS_CardinalityType DEF Counted
      <4>2. IsFiniteSet(Running') /\ Cardinality(Running') = Cardinality(Running) + 1
        BY <1>1, <3>3, <3>4, <4>1, OneStarts DEF SlotsTypeOK
      <4> QED
        BY <1>1, <1>2, <3>1, <3>6, <4>1, <4>2 DEF Counted, Serving
    <3> QED
      BY <1>1, <3>1, <3>2, <3>5, <3>7
  <2> QED
    BY <2>1, <2>2
<1>7. stranded' = stranded \cup Unparsed(S) /\ Unparsed(S) \subseteq Garbled
  BY DEF Fetches, Unparsed
<1>8. stranded' \subseteq Msg /\ Harmless'
  BY <1>1, <1>2, <1>7, SlotsAssumption DEF SlotsTypeOK, SlotsOK, Harmless, Serving
<1>9. HandlesSome'
  BY <1>2 DEF SlotsOK, HandlesSome
<1>10. SlotsTypeOK'
  BY <1>1, <1>2, <1>3, <1>6, <1>8, Zenon DEF SlotsTypeOK, ConsumerRecord, ConsumerPc
<1> QED
  BY <1>3, <1>6, <1>8, <1>9, <1>10 DEF SlotsOK

\* What is in the streams is messages.
LEMMA WaitingTyped ==
    ASSUME SlotsTypeOK
    PROVE  /\ Waiting \subseteq Msg /\ InHand \subseteq Msg
           /\ Waiting = UNION {ToSet(unread[s]) : s \in Streams}
<1>1. unread \in [Streams -> Seq(Msg)]
  BY DEF SlotsTypeOK, Streams
<1>2. Waiting = UNION {ToSet(unread[s]) : s \in Streams}
  BY <1>1 DEF Waiting
<1>3. \A s \in Streams : ToSet(unread[s]) \subseteq Msg
  BY <1>1, Members
<1>4. ToSet(consumer.batch) \subseteq Msg /\ ToSet(control.batch) \subseteq Msg
  <2>1. consumer.batch \in Seq(Msg) /\ control.batch \in Seq(Msg)
    BY DEF SlotsTypeOK
  <2> QED
    BY <2>1, Members
<1> QED
  BY <1>2, <1>3, <1>4 DEF InHand

\* Steps that move no message.
LEMMA PlacesStay ==
    ASSUME SlotsOK, UNCHANGED <<unread, task, control>>,
           consumer' \in ConsumerRecord, consumer'.batch = consumer.batch
    PROVE  /\ Sorted' /\ Apart' /\ Unstarted' /\ HandlesSome' /\ Running' = Running
<1>1. Waiting' = Waiting /\ InHand' = InHand
  BY DEF Waiting, InHand
<1> QED
  BY <1>1 DEF SlotsOK, Sorted, Apart, Unstarted, HandlesSome, Running

\* The consumer's other steps.
LEMMA ConsumerOK ==
    ASSUME SlotsOK, ConsumerLoops \/ AcquireSlot \/ StartNext
    PROVE  SlotsOK'
<1>1. /\ SlotsTypeOK /\ Sorted /\ Apart /\ Unstarted /\ Counted /\ HandlesSome
      /\ consumer \in ConsumerRecord /\ permits \in Int /\ Harmless
  BY DEF SlotsOK, SlotsTypeOK, ConsumerRecord, ConsumerPc
<1>2. CASE ConsumerLoops
  <2> DEFINE pc == IF lifecycle = "evicted" THEN "exited" ELSE "slot"
  <2>1. /\ consumer.pc = "top" /\ Serving /\ consumer' = [consumer EXCEPT !.pc = pc]
        /\ UNCHANGED <<unread, permits, task, stranded, control, lifecycle, denied,
                       mainPc, slotFaults>>
    BY <1>2 DEF ConsumerLoops
  <2>2. pc \in {"exited", "slot"} /\ pc \in ConsumerPc
    BY DEF ConsumerPc
  <2> HIDE DEF pc
  <2>3. consumer' \in ConsumerRecord /\ consumer'.pc = pc /\ consumer'.batch = consumer.batch
    BY <1>1, <2>1, <2>2, ConsumerAt
  <2>4. Sorted' /\ Apart' /\ Unstarted' /\ HandlesSome' /\ Running' = Running
    BY <2>1, <2>3, PlacesStay
  <2>5. ~HoldsSlot /\ ~HoldsSlot'
    BY <2>1, <2>2, <2>3 DEF HoldsSlot
  <2>6. Counted'
    BY <1>1, <2>1, <2>4, <2>5 DEF Counted, Serving
  <2>7. Harmless'
    BY <1>1, <2>1 DEF Harmless, Serving
  <2>8. SlotsTypeOK'
    BY <1>1, <2>1, <2>3, Zenon DEF SlotsTypeOK, ConsumerRecord, ConsumerPc
  <2> QED
    BY <2>4, <2>6, <2>7, <2>8 DEF SlotsOK
<1>3. CASE AcquireSlot
  <2>1. /\ consumer.pc = "slot" /\ Serving /\ consumer' = [consumer EXCEPT !.pc = "fetch"]
        /\ permits' = permits - 1
        /\ UNCHANGED <<unread, task, stranded, control, lifecycle, denied,
                       mainPc, slotFaults>>
    BY <1>3 DEF AcquireSlot
  <2>2. consumer' \in ConsumerRecord /\ consumer'.pc = "fetch"
        /\ consumer'.batch = consumer.batch
    BY <1>1, <2>1, ConsumerAt DEF ConsumerPc
  <2>3. Sorted' /\ Apart' /\ Unstarted' /\ HandlesSome' /\ Running' = Running
    BY <2>1, <2>2, PlacesStay
  <2>4. ~HoldsSlot /\ HoldsSlot'
    BY <2>1, <2>2 DEF HoldsSlot
  <2>5. IsFiniteSet(Running) /\ Cardinality(Running) \in Nat
    BY <1>1, <2>1, FS_CardinalityType DEF Counted
  <2>6. Counted'
    BY <1>1, <2>1, <2>3, <2>4, <2>5 DEF Counted, Serving
  <2>7. Harmless' /\ permits' \in Int
    BY <1>1, <2>1 DEF Harmless, Serving
  <2>8. SlotsTypeOK'
    BY <1>1, <2>1, <2>2, <2>7, Zenon DEF SlotsTypeOK, ConsumerRecord, ConsumerPc
  <2> QED
    BY <2>3, <2>6, <2>7, <2>8 DEF SlotsOK
<1>4. CASE StartNext
  <2> DEFINE batch == consumer.batch
  <2>1. /\ consumer.pc = "slot" /\ Serving /\ batch # <<>> /\ StartHead(batch)
        /\ permits' = permits - 1
        /\ UNCHANGED <<unread, stranded, control, lifecycle, denied,
                       mainPc, slotFaults>>
    BY <1>4 DEF StartNext
  <2>2. batch \in Seq(Msg) /\ OnceEach(batch) /\ OnceEach(control'.batch)
    BY <1>1, <2>1 DEF Apart, ConsumerRecord
  <2>3. /\ task' \in [Msg -> TaskState] /\ consumer' \in ConsumerRecord
        /\ consumer'.pc \in {"top", "slot"} /\ OnceEach(consumer'.batch)
    BY <1>1, <2>1, <2>2, HeadStarts
  <2>4. PICK h \in Msg : /\ h \in ToSet(batch)
                         /\ ToSet(consumer'.batch) \subseteq ToSet(batch) \ {h}
                         /\ task'[h] = "running"
                         /\ \A m \in Msg \ {h} : task'[m] = task[m]
    BY <1>1, <2>1, <2>2, HeadStarts
  <2>5. task[h] = "none" /\ h \notin Waiting /\ h \notin ToSet(control.batch)
    BY <1>1, <2>4 DEF Unstarted, Apart, InHand
  <2>6. Waiting' = Waiting
    BY <2>1 DEF Waiting
  <2>7. \A m \in Waiting' \cup ToSet(consumer'.batch) \cup ToSet(control'.batch) :
            task'[m] = task[m]
    <3>1. Waiting \subseteq Msg /\ ToSet(batch) \subseteq Msg
          /\ ToSet(control.batch) \subseteq Msg
      BY <1>1, WaitingTyped DEF InHand
    <3> QED
      BY <2>1, <2>4, <2>5, <2>6, <3>1
  <2>8. Apart' /\ Unstarted'
    <3>1. /\ ToSet(consumer'.batch) \subseteq ToSet(consumer.batch)
          /\ ToSet(control'.batch) \subseteq ToSet(control.batch)
      BY <2>1, <2>4
    <3> QED
      BY <1>1, <2>2, <2>3, <2>6, <2>7, <3>1, FlowLeaves
  <2>9. ~HoldsSlot /\ ~HoldsSlot'
    BY <2>1, <2>3 DEF HoldsSlot
  <2>10. IsFiniteSet(Running) /\ Cardinality(Running) \in Nat
    BY <1>1, <2>1, FS_CardinalityType DEF Counted
  <2>11. IsFiniteSet(Running') /\ Cardinality(Running') = Cardinality(Running) + 1
    BY <1>1, <2>4, <2>5, <2>10, OneStarts DEF SlotsTypeOK
  <2>12. Counted'
    BY <1>1, <2>1, <2>9, <2>10, <2>11 DEF Counted, Serving
  <2>13. Harmless' /\ permits' \in Int /\ Sorted' /\ HandlesSome'
    BY <1>1, <2>1 DEF Harmless, Serving, Sorted, HandlesSome
  <2>14. SlotsTypeOK'
    BY <1>1, <2>1, <2>3, <2>13, Zenon DEF SlotsTypeOK, ConsumerRecord, ConsumerPc
  <2> QED
    BY <2>8, <2>12, <2>13, <2>14 DEF SlotsOK
<1> QED
  BY <1>2, <1>3, <1>4

\* A read that fails gives the slot back.
LEMMA FetchFailsOK ==
    ASSUME SlotsOK, FetchFails
    PROVE  SlotsOK'
<1>1. /\ SlotsTypeOK /\ Sorted /\ Apart /\ Unstarted /\ Counted /\ HandlesSome
      /\ consumer \in ConsumerRecord /\ permits \in Int
  BY DEF SlotsOK, SlotsTypeOK, ConsumerRecord, ConsumerPc
<1>2. /\ consumer.pc \in {"fetch", "block"} /\ Serving
      /\ slotFaults < MaxSlotFaults /\ slotFaults' = slotFaults + 1
      /\ consumer' = [consumer EXCEPT !.pc = "top"] /\ permits' = permits + 1
      /\ UNCHANGED <<task, control, lifecycle, denied, mainPc>>
  BY DEF FetchFails, SlotFault
<1>3. PICK S \in SUBSET Stream : ReadFrom(S) /\ stranded' = stranded \cup Read(S)
  BY DEF FetchFails
<1>4. /\ unread' \in [Stream \cup {CtrlStream} -> Seq(Msg)] /\ Sorted'
      /\ Waiting' \subseteq Waiting /\ Read(S) \subseteq Msg
  BY <1>1, <1>3, ReadsApart DEF Streams
<1>5. /\ consumer' \in ConsumerRecord /\ consumer'.pc = "top"
      /\ consumer'.batch = consumer.batch
  BY <1>1, <1>2, ConsumerAt DEF ConsumerPc
<1>6. Apart' /\ Unstarted'
  <2>1. /\ OnceEach(consumer'.batch) /\ OnceEach(control'.batch)
        /\ ToSet(consumer'.batch) \subseteq ToSet(consumer.batch)
        /\ ToSet(control'.batch) \subseteq ToSet(control.batch)
    BY <1>1, <1>2, <1>5 DEF Apart
  <2> QED
    BY <1>1, <1>2, <1>4, <2>1, FlowLeaves
<1>7. HoldsSlot /\ ~HoldsSlot' /\ Running' = Running
  BY <1>2, <1>5 DEF HoldsSlot, Running
<1>8. IsFiniteSet(Running) /\ Cardinality(Running) \in Nat
  BY <1>1, <1>2, FS_CardinalityType DEF Counted
<1>9. Counted'
  BY <1>1, <1>2, <1>7, <1>8 DEF Counted, Serving
<1>10. slotFaults' \in 0..MaxSlotFaults /\ slotFaults' # 0
  BY <1>1, <1>2, SlotsAssumption DEF SlotsTypeOK
<1>11. Harmless' /\ HandlesSome' /\ permits' \in Int /\ stranded' \subseteq Msg
  BY <1>1, <1>2, <1>3, <1>4, <1>10 DEF Harmless, HandlesSome, SlotsTypeOK
<1>12. SlotsTypeOK'
  BY <1>1, <1>2, <1>4, <1>5, <1>10, <1>11, Zenon
     DEF SlotsTypeOK, ConsumerRecord, ConsumerPc
<1> QED
  BY <1>4, <1>6, <1>9, <1>11, <1>12 DEF SlotsOK
-----------------------------------------------------------------------------
(* Messages, tasks and the control loop.                                   *)

LEMMA ArrivesOK ==
    ASSUME SlotsOK, NEW m \in Msg, MessageArrives(m)
    PROVE  SlotsOK'
<1>1. /\ SlotsTypeOK /\ Sorted /\ Apart /\ Unstarted
      /\ unread \in [Streams -> Seq(Msg)] /\ StreamOf[m] \in Streams
  BY SlotsAssumption DEF SlotsOK, SlotsTypeOK, Streams
<1>2. /\ m \notin Waiting \cup InHand /\ task[m] = "none"
      /\ UNCHANGED <<consumer, permits, task, stranded, control, lifecycle,
                     denied, mainPc, slotFaults>>
  BY DEF MessageArrives
<1> DEFINE s == StreamOf[m]
           q == unread[s]
<1>3. m \notin ToSet(q)
  BY <1>1, <1>2, WaitingTyped
<1>4. q \in Seq(Msg) /\ OnceEach(q)
  BY <1>1 DEF Sorted
<1>5. unread' = [unread EXCEPT ![s] = Append(q, m)]
  BY DEF MessageArrives
<1>6. /\ Append(q, m) \in Seq(Msg) /\ OnceEach(Append(q, m))
      /\ ToSet(Append(q, m)) = ToSet(q) \cup {m}
  BY <1>3, <1>4, Appended
<1>7. /\ unread' \in [Streams -> Seq(Msg)] /\ unread'[s] = Append(q, m)
      /\ \A t \in Streams \ {s} : unread'[t] = unread[t]
  BY <1>1, <1>5, <1>6
<1>8. Sorted'
  <2> HIDE DEF q
  <2>1. OnceEach(unread'[s]) /\ \A x \in ToSet(unread'[s]) : StreamOf[x] = s
    BY <1>1, <1>6, <1>7 DEF Sorted, q
  <2> QED
    BY <1>1, <1>7, <2>1 DEF Sorted
<1>9. Waiting' = Waiting \cup {m}
  <2>1. Waiting = UNION {ToSet(unread[t]) : t \in Streams}
    BY <1>1, WaitingTyped
  <2>2. Waiting' = UNION {ToSet(unread'[t]) : t \in Streams}
    BY <1>7 DEF Waiting
  <2>3. \A t \in Streams : ToSet(unread'[t]) \subseteq ToSet(unread[t]) \cup {m}
    BY <1>6, <1>7
  <2>4. \A t \in Streams : ToSet(unread[t]) \subseteq ToSet(unread'[t])
    BY <1>6, <1>7
  <2>5. m \in ToSet(unread'[s])
    BY <1>6, <1>7
  <2> QED
    BY <1>1, <2>1, <2>2, <2>3, <2>4, <2>5
<1>10. InHand' = InHand
  BY <1>2 DEF InHand
<1>11. Apart' /\ Unstarted'
  BY <1>1, <1>2, <1>9, <1>10 DEF Apart, Unstarted
<1>12. HandlesSome' /\ Counted' /\ Harmless'
  BY <1>2 DEF SlotsOK, HandlesSome, Counted, Harmless, Serving, HoldsSlot, Running
<1>13. SlotsTypeOK'
  BY <1>1, <1>2, <1>7 DEF SlotsTypeOK, Streams
<1> QED
  BY <1>8, <1>11, <1>12, <1>13 DEF SlotsOK

LEMMA TaskOK ==
    ASSUME SlotsOK, NEW m \in Msg, TaskStep(m)
    PROVE  SlotsOK'
<1>1. /\ SlotsTypeOK /\ Sorted /\ Apart /\ Unstarted /\ Counted
      /\ task \in [Msg -> TaskState] /\ permits \in Int
  BY DEF SlotsOK, SlotsTypeOK
<1>2. /\ UNCHANGED <<unread, consumer, stranded, control, lifecycle, denied,
                     mainPc, slotFaults>>
      /\ task[m] \in {"running", "ended"}
      /\ \E t \in {"ended", "gone"} : task' = [task EXCEPT ![m] = t]
      /\ permits' \in Int
  BY <1>1 DEF TaskStep, TaskEnds, TaskDiscarded
<1>3. /\ task' \in [Msg -> TaskState] /\ task'[m] # "running"
      /\ \A x \in Msg \ {m} : task'[x] = task[x]
  BY <1>1, <1>2 DEF TaskState
<1>4. Waiting' = Waiting /\ InHand' = InHand
  BY <1>2 DEF Waiting, InHand
<1>5. m \notin Waiting \cup InHand
  BY <1>1, <1>2 DEF Unstarted
<1>6. Waiting \cup InHand \subseteq Msg
  BY <1>1, WaitingTyped
<1>7. Unstarted' /\ Apart' /\ Sorted'
  <2>1. Unstarted'
    BY <1>1, <1>3, <1>4, <1>5, <1>6 DEF Unstarted
  <2> QED
    BY <1>1, <1>2, <1>4, <2>1 DEF Apart, Sorted
<1>8. HoldsSlot' = HoldsSlot /\ Serving' = Serving
  BY <1>2 DEF HoldsSlot, Serving
<1>9. ASSUME Serving
      PROVE  /\ IsFiniteSet(Running')
             /\ permits' + Cardinality(Running') = permits + Cardinality(Running)
  <2>1. IsFiniteSet(Running) /\ Cardinality(Running) \in Nat
    BY <1>1, <1>9, FS_CardinalityType DEF Counted
  <2>2. CASE TaskEnds(m)
    <3>1. task[m] = "running" /\ permits' = permits + 1
      BY <2>2 DEF TaskEnds
    <3>2. IsFiniteSet(Running') /\ Cardinality(Running') = Cardinality(Running) - 1
      BY <1>1, <1>3, <2>1, <3>1, OneEnds
    <3> QED
      BY <1>1, <2>1, <3>1, <3>2
  <2>3. CASE TaskDiscarded(m)
    <3>1. permits' = permits /\ task[m] = "ended"
      BY <2>3 DEF TaskDiscarded
    <3>2. Running' = Running
      BY <1>3, <3>1 DEF Running
    <3> QED
      BY <2>1, <3>1, <3>2
  <2> QED
    BY <2>2, <2>3 DEF TaskStep
<1>10. Counted'
  <2> SUFFICES ASSUME Serving'
               PROVE  /\ IsFiniteSet(Running')
                      /\ permits' + Cardinality(Running') + (IF HoldsSlot' THEN 1 ELSE 0)
                             = MaxConcurrency
    BY DEF Counted
  <2>1. Serving
    BY <1>8
  <2> QED
    BY <1>1, <1>8, <1>9, <2>1 DEF Counted
<1>11. HandlesSome' /\ Harmless'
  BY <1>2 DEF SlotsOK, HandlesSome, Harmless, Serving
<1>12. SlotsTypeOK'
  BY <1>1, <1>2, <1>3 DEF SlotsTypeOK
<1> QED
  BY <1>7, <1>10, <1>11, <1>12 DEF SlotsOK

\* The control loop takes its batch, or one command of it, or dies.
LEMMA ControlOK ==
    ASSUME SlotsOK, ControlReads \/ ControlHandles \/ ControlDies
    PROVE  SlotsOK'
<1>1. /\ SlotsTypeOK /\ Sorted /\ Apart /\ Unstarted /\ Counted /\ HandlesSome
      /\ task \in [Msg -> TaskState] /\ control \in ControlRecord
      /\ OnceEach(consumer.batch) /\ OnceEach(control.batch)
  BY DEF SlotsOK, SlotsTypeOK, ControlRecord, Apart
<1>2. CASE ControlReads
  <2>1. /\ unread[CtrlStream] # <<>> /\ ReadFrom({CtrlStream})
        /\ control' = [pc |-> "handle", batch |-> Handed(CtrlStream)]
        /\ UNCHANGED <<consumer, permits, task, stranded, lifecycle, denied,
                       mainPc, slotFaults>>
    BY <1>2 DEF ControlReads
  <2>2. /\ Handed(CtrlStream) \in Seq(Msg) /\ OnceEach(Handed(CtrlStream))
        /\ Handed(CtrlStream) # <<>>
    BY <1>1, <2>1, HandedLeave DEF Streams
  <2> DEFINE S == {CtrlStream}
  <2>3. Read(S) = ToSet(Handed(CtrlStream))
    BY DEF Read
  <2>4. S \in SUBSET Streams /\ ReadFrom(S)
    BY <2>1 DEF Streams
  <2> HIDE DEF S
  <2>5. /\ unread' \in [Stream \cup {CtrlStream} -> Seq(Msg)] /\ Sorted'
        /\ Waiting' \subseteq Waiting /\ Read(S) \subseteq Waiting
        /\ Read(S) \cap Waiting' = {}
    BY <1>1, <2>4, ReadsApart
  <2>6. Apart' /\ Unstarted'
    <3>1. InHand' = ToSet(consumer.batch) \cup Read(S)
      BY <2>1, <2>3 DEF InHand
    <3> QED
      BY <1>1, <2>1, <2>2, <2>3, <2>5, <3>1 DEF Apart, Unstarted, InHand
  <2>7. HandlesSome' /\ Counted' /\ Harmless'
    BY <2>1, <2>2 DEF SlotsOK, HandlesSome, Counted, Harmless, Serving, HoldsSlot, Running
  <2>8. SlotsTypeOK'
    BY <1>1, <2>1, <2>2, <2>5 DEF SlotsTypeOK
  <2> QED
    BY <2>5, <2>6, <2>7, <2>8 DEF SlotsOK
<1>3. CASE ControlHandles \/ (ControlDies /\ control.pc = "handle")
  <2> DEFINE h == Head(control.batch)
  <2>1. control.pc = "handle"
    BY <1>3 DEF ControlHandles
  <2>2. /\ h \in ToSet(control.batch) /\ h \in Msg
        /\ Tail(control.batch) \in Seq(Msg) /\ OnceEach(Tail(control.batch))
        /\ ToSet(Tail(control.batch)) \subseteq ToSet(control.batch) \ {h}
        /\ Len(control.batch) # 1 => Tail(control.batch) # <<>>
    BY <1>1, <2>1, HeadAndTail DEF HandlesSome, ControlRecord
  <2>3. /\ task' = [task EXCEPT ![h] = "gone"]
        /\ UNCHANGED <<unread, consumer, permits, lifecycle, denied, mainPc>>
    BY <1>3, <2>1 DEF ControlHandles, ControlDies
  <2>4. /\ control' \in ControlRecord
        /\ control'.batch = Tail(control.batch) \/ control'.batch = <<>>
        /\ control'.pc = "handle" => control'.batch # <<>>
    <3>1. CASE ControlHandles
      <4>1. control' = [pc |-> IF Len(control.batch) = 1 THEN "read" ELSE "handle",
                        batch |-> Tail(control.batch)]
        BY <3>1 DEF ControlHandles
      <4> QED
        BY <2>2, <4>1 DEF ControlRecord
    <3>2. CASE ControlDies
      <4>1. control' = [pc |-> "dead", batch |-> <<>>]
        BY <3>2 DEF ControlDies
      <4> QED
        BY <4>1, NoMembers DEF ControlRecord
    <3> QED
      BY <1>3, <3>1, <3>2
  <2>5. /\ stranded' \subseteq Msg
        /\ slotFaults' \in 0..MaxSlotFaults
        /\ slotFaults' = 0 => slotFaults = 0 /\ stranded' = stranded
    <3>1. stranded \subseteq Msg /\ slotFaults \in 0..MaxSlotFaults
          /\ ToSet(Tail(control.batch)) \subseteq Msg /\ MaxSlotFaults \in Nat
      BY <1>1, <2>2, Members, SlotsAssumption DEF SlotsTypeOK
    <3>2. CASE ControlHandles
      BY <3>1, <3>2 DEF ControlHandles
    <3>3. CASE ControlDies
      <4>1. /\ slotFaults < MaxSlotFaults /\ slotFaults' = slotFaults + 1
            /\ stranded' = stranded \cup ToSet(Tail(control.batch))
        BY <2>1, <3>3 DEF ControlDies, SlotFault
      <4> QED
        BY <3>1, <4>1
    <3> QED
      BY <1>3, <3>2, <3>3
  <2> HIDE DEF h
  <2>6. task[h] = "none" /\ h \notin Waiting /\ h \notin ToSet(consumer.batch)
    BY <1>1, <2>2 DEF Unstarted, Apart, InHand
  <2>7. /\ task' \in [Msg -> TaskState] /\ task'[h] = "gone"
        /\ \A x \in Msg \ {h} : task'[x] = task[x]
    BY <1>1, <2>2, <2>3, TaskSet DEF TaskState
  <2>8. Running' = Running
    BY <2>6, <2>7 DEF Running
  <2>9. Waiting' = Waiting
    BY <2>3 DEF Waiting
  <2>10. /\ OnceEach(control'.batch) /\ h \notin ToSet(control'.batch)
         /\ ToSet(control'.batch) \subseteq ToSet(control.batch)
    BY <2>2, <2>4, NoMembers
  <2>11. \A m \in Waiting' \cup ToSet(consumer'.batch) \cup ToSet(control'.batch) :
             task'[m] = task[m]
    <3>1. /\ Waiting \subseteq Msg /\ ToSet(consumer.batch) \subseteq Msg
          /\ ToSet(control.batch) \subseteq Msg
      BY <1>1, WaitingTyped DEF InHand
    <3> QED
      BY <2>3, <2>6, <2>7, <2>9, <2>10, <3>1
  <2>12. Apart' /\ Unstarted'
    BY <1>1, <2>3, <2>9, <2>10, <2>11, FlowLeaves
  <2>13. Sorted' /\ HandlesSome' /\ Counted' /\ Harmless'
    BY <2>3, <2>4, <2>5, <2>8
       DEF SlotsOK, Sorted, HandlesSome, Counted, Harmless, Serving, HoldsSlot
  <2>14. SlotsTypeOK'
    BY <1>1, <2>3, <2>4, <2>5, <2>7 DEF SlotsTypeOK, ControlRecord
  <2> QED
    BY <2>12, <2>13, <2>14 DEF SlotsOK
<1>4. CASE ControlDies /\ control.pc # "handle"
  <2>1. /\ control.pc = "read" /\ control' = [pc |-> "dead", batch |-> <<>>]
        /\ slotFaults < MaxSlotFaults /\ slotFaults' = slotFaults + 1
        /\ UNCHANGED <<unread, consumer, permits, task, stranded, lifecycle, denied,
                       mainPc>>
    BY <1>1, <1>4 DEF ControlDies, SlotFault, ControlRecord
  <2>2. slotFaults' \in 0..MaxSlotFaults /\ slotFaults' # 0
    BY <1>1, <2>1, SlotsAssumption DEF SlotsTypeOK
  <2>3. control' \in ControlRecord /\ control'.batch = <<>> /\ control'.pc = "dead"
    BY <2>1, NoMembers DEF ControlRecord
  <2>4. Waiting' = Waiting
    BY <2>1 DEF Waiting
  <2>5. /\ OnceEach(control'.batch)
        /\ ToSet(control'.batch) \subseteq ToSet(control.batch)
    BY <2>3, NoMembers
  <2>6. Apart' /\ Unstarted'
    BY <1>1, <2>1, <2>4, <2>5, FlowLeaves
  <2>7. Sorted' /\ HandlesSome' /\ Counted' /\ Harmless'
    BY <2>1, <2>2, <2>3
       DEF SlotsOK, Sorted, HandlesSome, Counted, Harmless, Serving, HoldsSlot, Running
  <2>8. SlotsTypeOK'
    BY <1>1, <2>1, <2>2, <2>3 DEF SlotsTypeOK, ControlRecord
  <2> QED
    BY <2>6, <2>7, <2>8 DEF SlotsOK
<1> QED
  BY <1>2, <1>3, <1>4
-----------------------------------------------------------------------------
(* Lifecycle and shutdown.                                                 *)

\* Steps of the lifecycle and of the main coroutine that touch no message.
LEMMA MainOK ==
    ASSUME SlotsOK,
           \/ LifecycleChanges \/ DenylistRefreshes \/ EvictionSeen
           \/ EvictionWaited \/ ShutdownRequested \/ TasksDrained
           \/ UNCHANGED slotVars
    PROVE  SlotsOK'
<1>1. /\ UNCHANGED <<unread, consumer, permits, task, stranded, control, slotFaults>>
      /\ lifecycle' \in {"active", "suspended", "evicted"}
      /\ denied' \subseteq Stream /\ mainPc' \in MainPc
      /\ Serving' => Serving
  BY DEF SlotsOK, SlotsTypeOK, LifecycleChanges, DenylistRefreshes, EvictionSeen,
         EvictionWaited, ShutdownRequested, TasksDrained, slotVars, MainPc, Serving
<1>2. consumer \in ConsumerRecord
  BY DEF SlotsOK, SlotsTypeOK, ConsumerRecord, ConsumerPc
<1>3. Sorted' /\ Apart' /\ Unstarted' /\ HandlesSome' /\ Running' = Running
  BY <1>1, <1>2, PlacesStay
<1>4. HoldsSlot' = HoldsSlot
  BY <1>1 DEF HoldsSlot
<1>5. Counted' /\ Harmless'
  BY <1>1, <1>3, <1>4 DEF SlotsOK, Counted, Harmless
<1>6. SlotsTypeOK'
  BY <1>1 DEF SlotsOK, SlotsTypeOK
<1> QED
  BY <1>3, <1>5, <1>6 DEF SlotsOK

\* The steps after which the consumer no longer serves.
LEMMA ShutdownOK ==
    ASSUME SlotsOK, CancelConsumer \/ DrainInterrupted \/ CancelControl
    PROVE  SlotsOK'
<1>1. /\ SlotsTypeOK /\ Sorted /\ Apart /\ Unstarted /\ HandlesSome
      /\ OnceEach(consumer.batch) /\ OnceEach(control.batch)
      /\ Waiting \subseteq Msg /\ InHand \subseteq Msg
  BY WaitingTyped DEF SlotsOK, Apart
<1>2. ASSUME mainPc' \in {"drain", "down"} PROVE Counted' /\ Harmless'
  BY <1>2 DEF Counted, Harmless, Serving
<1>3. CASE CancelConsumer
  <2>1. /\ consumer' = [pc |-> "exited", batch |-> <<>>] /\ mainPc' = "drain"
        /\ UNCHANGED <<permits, task, control, lifecycle, denied, slotFaults>>
    BY <1>3 DEF CancelConsumer
  <2>2. PICK S \in SUBSET Stream :
            /\ ReadFrom(S)
            /\ stranded' = stranded \cup ToSet(consumer.batch) \cup Read(S)
    BY <1>3 DEF CancelConsumer
  <2>3. /\ unread' \in [Stream \cup {CtrlStream} -> Seq(Msg)] /\ Sorted'
        /\ Waiting' \subseteq Waiting /\ Read(S) \subseteq Msg
    BY <1>1, <2>2, ReadsApart DEF Streams
  <2>4. /\ consumer' \in ConsumerRecord /\ consumer'.batch = <<>>
        /\ OnceEach(consumer'.batch)
        /\ ToSet(consumer'.batch) \subseteq ToSet(consumer.batch)
    BY <2>1, NoMembers DEF ConsumerRecord, ConsumerPc
  <2>5. Apart' /\ Unstarted'
    BY <1>1, <2>1, <2>3, <2>4, FlowLeaves
  <2>6. stranded' \subseteq Msg
    BY <1>1, <2>2, <2>3 DEF SlotsTypeOK, InHand
  <2>7. SlotsTypeOK'
    BY <1>1, <2>1, <2>3, <2>4, <2>6
       DEF SlotsTypeOK, ConsumerRecord, ConsumerPc, MainPc
  <2> QED
    BY <1>1, <1>2, <2>1, <2>3, <2>5, <2>7 DEF SlotsOK, HandlesSome
<1>4. CASE DrainInterrupted
  <2>1. /\ mainPc' = "down" /\ slotFaults < MaxSlotFaults /\ slotFaults' = slotFaults + 1
        /\ UNCHANGED <<unread, consumer, permits, stranded, control, lifecycle, denied>>
        /\ task' = [m \in Msg |-> IF task[m] \in {"running", "ended"} THEN "gone"
                                  ELSE task[m]]
    BY <1>4 DEF DrainInterrupted, SlotFault
  <2>2. task' \in [Msg -> TaskState]
    BY <1>1, <2>1 DEF SlotsTypeOK, TaskState
  <2>3. Waiting' = Waiting /\ InHand' = InHand
    BY <2>1 DEF Waiting, InHand
  <2>4. Unstarted'
    BY <1>1, <2>1, <2>3 DEF Unstarted
  <2>5. Sorted' /\ Apart' /\ HandlesSome'
    BY <1>1, <2>1, <2>3 DEF Sorted, Apart, HandlesSome
  <2>6. slotFaults' \in 0..MaxSlotFaults
    BY <1>1, <2>1, SlotsAssumption DEF SlotsTypeOK
  <2>7. SlotsTypeOK'
    BY <1>1, <2>1, <2>2, <2>6 DEF SlotsTypeOK, MainPc
  <2> QED
    BY <1>2, <2>1, <2>4, <2>5, <2>7 DEF SlotsOK
<1>5. CASE CancelControl
  <2>1. /\ control' = [pc |-> "dead", batch |-> <<>>] /\ mainPc' = "down"
        /\ stranded' = stranded \cup ToSet(control.batch)
        /\ UNCHANGED <<unread, consumer, permits, task, lifecycle, denied, slotFaults>>
    BY <1>5 DEF CancelControl
  <2>2. /\ control' \in ControlRecord /\ control'.batch = <<>> /\ HandlesSome'
        /\ OnceEach(control'.batch)
        /\ ToSet(control'.batch) \subseteq ToSet(control.batch)
    BY <2>1, NoMembers DEF ControlRecord, HandlesSome
  <2>3. Waiting' = Waiting
    BY <2>1 DEF Waiting
  <2>4. Apart' /\ Unstarted'
    BY <1>1, <2>1, <2>2, <2>3, FlowLeaves
  <2>5. stranded' \subseteq Msg
    BY <1>1, <2>1 DEF SlotsTypeOK, InHand
  <2>6. SlotsTypeOK'
    BY <1>1, <2>1, <2>2, <2>5 DEF SlotsTypeOK, ControlRecord, MainPc
  <2> QED
    BY <1>1, <1>2, <2>1, <2>2, <2>4, <2>6 DEF SlotsOK, Sorted
<1> QED
  BY <1>3, <1>4, <1>5
-----------------------------------------------------------------------------
LEMMA SlotsInitOK == SlotsInit => SlotsOK
<1> SUFFICES ASSUME SlotsInit PROVE SlotsOK
  OBVIOUS
<1>1. \A s \in Streams : unread[s] = <<>>
  BY DEF SlotsInit, Streams
<1>2. /\ consumer = [pc |-> "top", batch |-> <<>>]
      /\ control = [pc |-> "read", batch |-> <<>>]
      /\ permits = MaxConcurrency /\ slotFaults = 0 /\ stranded = {} /\ denied = {}
      /\ lifecycle = "active" /\ mainPc = "up"
      /\ \A m \in Msg : task[m] = "none"
  BY DEF SlotsInit
<1>3. SlotsTypeOK
  <2>1. unread \in [Stream \cup {CtrlStream} -> Seq(Msg)] /\ task \in [Msg -> TaskState]
    BY NoMembers DEF SlotsInit, TaskState
  <2>2. /\ consumer \in [pc: ConsumerPc, batch: Seq(Msg)]
        /\ control \in [pc: {"read", "handle", "dead"}, batch: Seq(Msg)]
    BY <1>2, NoMembers DEF ConsumerPc
  <2> QED
    BY <1>2, <2>1, <2>2, SlotsAssumption DEF SlotsTypeOK, ConsumerPc, MainPc
<1>4. Sorted
  BY <1>1, NoMembers DEF Sorted
<1>5. Waiting = {} /\ InHand = {}
  <2>1. Waiting = UNION {ToSet(unread[s]) : s \in Streams}
    BY <1>3, WaitingTyped
  <2> QED
    BY <1>1, <1>2, <2>1, NoMembers DEF InHand
<1>6. Apart /\ Unstarted /\ HandlesSome
  BY <1>2, <1>5, NoMembers DEF Apart, Unstarted, HandlesSome
<1>7. Running = {} /\ ~HoldsSlot
  BY <1>2 DEF Running, HoldsSlot
<1>8. Counted /\ Harmless
  BY <1>2, <1>7, FS_EmptySet, SlotsAssumption DEF Counted, Harmless
<1> QED
  BY <1>3, <1>4, <1>6, <1>8 DEF SlotsOK

LEMMA SlotsStepOK == SlotsOK /\ [SlotsNext]_slotVars => SlotsOK'
<1> SUFFICES ASSUME SlotsOK, [SlotsNext]_slotVars PROVE SlotsOK'
  OBVIOUS
<1>1. CASE FetchFirstPass
  <2>1. Fetches(ActiveStreams, IF ActiveStreams = {} THEN "top" ELSE "block")
    BY <1>1 DEF FetchFirstPass, Fetches, HoldsSlot
  <2>2. ActiveStreams \in SUBSET Stream
    BY DEF ActiveStreams
  <2> QED
    BY <2>1, <2>2, FetchesOK
<1>2. CASE FetchBlocking
  <2>1. PICK s \in Stream : Fetches({s}, "top")
    BY <1>2 DEF FetchBlocking, Fetches, HoldsSlot
  <2>2. {s} \in SUBSET Stream
    OBVIOUS
  <2> QED
    BY <2>1, <2>2, FetchesOK
<1> QED
  BY <1>1, <1>2, ConsumerOK, FetchFailsOK, ArrivesOK, TaskOK, ControlOK, MainOK,
     ShutdownOK
     DEF SlotsNext, ConsumerStep, ShutdownStep

\* The consumer, its batch, its tasks and the control loop keep to their types
\* (runner.py).
THEOREM SlotsTypeCorrect == SlotsSpec => []SlotsTypeOK
<1>1. SlotsOK => SlotsTypeOK
  BY DEF SlotsOK
<1> QED
  BY <1>1, SlotsInitOK, SlotsStepOK, PTL DEF SlotsSpec

\* No path of the consumer leaks a slot or returns one twice, whatever fails
\* and whenever the worker is suspended or evicted; and an eviction starts what
\* has been read (runner.py, _run_once and _process_and_release).
THEOREM ConsumerAlwaysAccounts == SlotsSpec => []ConsumerAccounts
<1>1. SlotsOK => ConsumerAccounts
  <2> SUFFICES ASSUME SlotsOK PROVE SlotsConserved /\ EvictionStartsWhatItRead
    BY DEF ConsumerAccounts
  <2>1. SlotsConserved
    BY DEF SlotsOK, Counted, SlotsConserved, Running
  <2>2. EvictionStartsWhatItRead
    BY DEF SlotsOK, Harmless, EvictionStartsWhatItRead
  <2> QED
    BY <2>1, <2>2
<1> QED
  BY <1>1, SlotsInitOK, SlotsStepOK, PTL DEF SlotsSpec
=============================================================================
