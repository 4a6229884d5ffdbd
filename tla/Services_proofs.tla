------------------------- MODULE Services_proofs -------------------------
(***************************************************************************)
(* The components a worker runs beside its tasks, for every value of their *)
(* constants: the registry of agent configurations (RunsAreBoundOnce,      *)
(* ReloadAlwaysHolds), the Langfuse plugin's table (TableIsLru,            *)
(* OpenIsReclaimable), the native agent loop (TurnsStayWhole), one         *)
(* execution's data stream (StreamClosesOnce, NothingSkipped) and service  *)
(* discovery (BodiesStayWhole, PicksAreRecent).  Each section has the      *)
(* inductive invariant of its component and one lemma per action.          *)
(***************************************************************************)
EXTENDS PluginConfigs, LangfuseWorkflows, HarnessLoop, EventStream,
        ServiceDiscovery, SequenceTheorems, FiniteSetTheorems, TLAPS

-----------------------------------------------------------------------------
(* PluginConfigs: the plugin registry and agent configurations.            *)

\* A set of numbers with 0 that leads from each number to the next reaches N:
\* else the numbers below the gap are mapped one to one onto fewer.
LEMMA UpTo ==
    ASSUME NEW N \in Nat, NEW S, 0 \in S, \A n \in 0..(N - 1) : n \in S => n + 1 \in S
    PROVE  0..N \subseteq S
<1> SUFFICES ASSUME NEW m \in 0..N, m \notin S
             PROVE  FALSE
  OBVIOUS
<1> DEFINE T == S \cap (0..m)
           next == [n \in T |-> n + 1]
<1>1. IsFiniteSet(0..m) /\ T \subseteq 0..m
  BY FS_Interval
<1>2. IsFiniteSet(T)
  BY <1>1, FS_Subset
<1>3. 0 \in T
  OBVIOUS
<1>4. IsFiniteSet(T \ {0}) /\ Cardinality(T \ {0}) = Cardinality(T) - 1
  BY <1>2, <1>3, FS_RemoveElement
<1>5. Cardinality(T) \in Nat
  BY <1>2, FS_CardinalityType
<1>6. next \in [T -> T \ {0}]
  <2> SUFFICES ASSUME NEW n \in T
               PROVE  n + 1 \in T \ {0}
    OBVIOUS
  <2>1. n \in 0..(N - 1) /\ n + 1 \in 0..m
    OBVIOUS
  <2> QED
    BY <2>1
<1>7. \E x, y \in T : x # y /\ next[x] = next[y]
  <2> HIDE DEF T, next
  <2> QED
    BY <1>2, <1>4, <1>5, <1>6, FS_PigeonHole
<1> QED
  BY <1>7

---------------------------------------------------------------------------
\* What staging the first configurations of a list comes to.
Outcome == [ok : BOOLEAN, staged : SUBSET Config]

\* f is the staging of a list, entry by entry, onto configs.
Stages(f, configs, list) ==
    f = [n \in 0..Len(list) |-> IF n = 0 THEN [ok |-> TRUE, staged |-> configs]
                                ELSE StageOne(f[n - 1], list[n])]

\* One configuration staged: nothing but it enters, and no failure is undone.
LEMMA StageOneTyped ==
    ASSUME NEW acc \in Outcome, NEW c \in Listed
    PROVE  /\ StageOne(acc, c) \in Outcome
           /\ StageOne(acc, c).staged \subseteq acc.staged \cup {Plain(c)}
           /\ StageOne(acc, c).ok => acc.ok
<1>1. Plain(c) \in Config
  BY DEF Plain, Config, Listed
<1> DEFINE existing == {d \in acc.staged : IdOf[d.by] = IdOf[c.by]}
           conflict == existing # {} /\ Plain(c) \notin existing
           raises == ~c.valid \/ (conflict /\ ConflictOf[c.by] = "error")
           kept == raises \/ (conflict /\ ConflictOf[c.by] = "skip")
<1>2. StageOne(acc, c) =
         [ok |-> acc.ok /\ ~raises,
          staged |-> IF ~acc.ok \/ kept THEN acc.staged
                                        ELSE (acc.staged \ existing) \cup {Plain(c)}]
  BY Zenon DEF StageOne
<1> HIDE DEF existing, conflict, raises, kept
<1>3. acc.ok \in BOOLEAN /\ acc.staged \subseteq Config
  BY DEF Outcome
<1>4. (acc.ok /\ ~raises) \in BOOLEAN
  OBVIOUS
<1> QED
  BY <1>1, <1>2, <1>3, <1>4 DEF Outcome

\* The staging, read one entry at a time.
LEMMA StagesUnfold ==
    ASSUME NEW configs, NEW list \in Seq(Listed), NEW f, Stages(f, configs, list)
    PROVE  /\ f[0] = [ok |-> TRUE, staged |-> configs]
           /\ \A n \in 1..Len(list) : f[n] = StageOne(f[n - 1], list[n])
<1> DEFINE B(n) == IF n = 0 THEN [ok |-> TRUE, staged |-> configs] ELSE StageOne(f[n - 1], list[n])
<1>1. Len(list) \in Nat
  OBVIOUS
<1>2. f = [n \in 0..Len(list) |-> B(n)]
  BY Zenon DEF Stages
<1>3. B(0) = [ok |-> TRUE, staged |-> configs]
      /\ \A n \in 1..Len(list) : B(n) = StageOne(f[n - 1], list[n])
  OBVIOUS
<1> HIDE DEF B
<1>4. \A n \in 0..Len(list) : f[n] = B(n)
  BY <1>2, Zenon
<1>5. 0 \in 0..Len(list) /\ \A n \in 1..Len(list) : n \in 0..Len(list)
  BY <1>1
<1>6. f[0] = B(0)
  BY <1>4, <1>5
<1>7. \A n \in 1..Len(list) : f[n] = B(n)
  BY <1>4, <1>5
<1> QED
  BY <1>3, <1>6, <1>7

LEMMA StagesMap ==
    ASSUME NEW configs, NEW list, NEW f, Stages(f, configs, list)
    PROVE  f = [n \in 0..Len(list) |-> f[n]]
<1> DEFINE B(n) == IF n = 0 THEN [ok |-> TRUE, staged |-> configs] ELSE StageOne(f[n - 1], list[n])
<1>1. f = [n \in 0..Len(list) |-> B(n)]
  BY Zenon DEF Stages
<1> HIDE DEF B
<1>2. \A n \in 0..Len(list) : f[n] = B(n)
  BY <1>1, Zenon
<1> QED
  BY <1>1, <1>2

\* The staging of a list exists; each of its outcomes is typed, takes only from
\* the list, and fails once an earlier one did.
LEMMA StagesExist ==
    ASSUME NEW configs \in SUBSET Config, NEW list \in Seq(Listed)
    PROVE  /\ \E f : Stages(f, configs, list)
           /\ \A f : Stages(f, configs, list) =>
                 /\ f \in [0..Len(list) -> Outcome]
                 /\ \A n \in 0..Len(list) :
                       f[n].staged \subseteq configs \cup {Plain(list[i]) : i \in 1..Len(list)}
<1> DEFINE N == Len(list)
           first == [ok |-> TRUE, staged |-> configs]
           G(g, n) == g = [k \in 0..n |-> IF k = 0 THEN first ELSE StageOne(g[k - 1], list[k])]
           S == {n \in 0..N : \E g : G(g, n)}
<1>1. N \in Nat
  OBVIOUS
<1>2. 0 \in S
  <2>1. G([k \in 0..0 |-> first], 0)
    OBVIOUS
  <2>2. \E g : G(g, 0)
    <3> HIDE DEF G
    <3> QED
      BY <2>1
  <2> HIDE DEF G
  <2> QED
    BY <1>1, <2>2
<1>3. ASSUME NEW n \in 0..(N - 1), n \in S
      PROVE  n + 1 \in S
  <2>1. PICK g : G(g, n)
    BY <1>3
  <2>a. \A k \in 0..n : g[k] = IF k = 0 THEN first ELSE StageOne(g[k - 1], list[k])
    <3> DEFINE B(k) == IF k = 0 THEN first ELSE StageOne(g[k - 1], list[k])
    <3>1. g = [k \in 0..n |-> B(k)]
      BY <2>1, Zenon
    <3> HIDE DEF B
    <3>2. \A k \in 0..n : g[k] = B(k)
      BY <3>1, Zenon
    <3> QED
      BY <3>2 DEF B
  <2> DEFINE h == [k \in 0..(n + 1) |-> IF k <= n THEN g[k] ELSE StageOne(g[n], list[n + 1])]
  <2>2. \A k \in 0..(n + 1) : h[k] = IF k = 0 THEN first ELSE StageOne(h[k - 1], list[k])
    <3> SUFFICES ASSUME NEW k \in 0..(n + 1)
                 PROVE  h[k] = IF k = 0 THEN first ELSE StageOne(h[k - 1], list[k])
      OBVIOUS
    <3>1. CASE k = 0
      <4>1. h[0] = g[0]
        OBVIOUS
      <4>2. 0 \in 0..n
        OBVIOUS
      <4>3. g[0] = first
        BY <2>a, <4>2, Zenon
      <4> QED
        BY <3>1, <4>1, <4>3, Zenon
    <3>2. CASE k # 0 /\ k <= n
      <4>1. h[k] = g[k] /\ h[k - 1] = g[k - 1] /\ k \in 0..n
        BY <3>2
      <4> HIDE DEF h, first
      <4> QED
        BY <2>a, <3>2, <4>1
    <3>3. CASE k = n + 1
      <4>1. h[k] = StageOne(g[n], list[n + 1]) /\ h[n] = g[n]
        BY <3>3
      <4>2. k # 0 /\ k - 1 = n
        BY <3>3
      <4> HIDE DEF h, first
      <4> QED
        BY <3>3, <4>1, <4>2
    <3> QED
      BY <3>1, <3>2, <3>3
  <2>3. G(h, n + 1)
    <3> DEFINE B(k) == IF k = 0 THEN first ELSE StageOne(h[k - 1], list[k])
    <3>1. \A k \in 0..(n + 1) : h[k] = B(k)
      BY <2>2
    <3>2. h = [k \in 0..(n + 1) |-> h[k]]
      OBVIOUS
    <3> HIDE DEF h, B
    <3>3. h = [k \in 0..(n + 1) |-> B(k)]
      BY <3>1, <3>2
    <3> QED
      BY <3>3, Zenon DEF B
  <2>4. n + 1 \in 0..N
    BY <1>1
  <2> HIDE DEF G, h
  <2> QED
    BY <2>3, <2>4
<1>4. 0..N \subseteq S
  <2> HIDE DEF S
  <2> QED
    BY <1>1, <1>2, <1>3, UpTo
<1>5. \E f : Stages(f, configs, list)
  BY <1>1, <1>4 DEF Stages
<1>6. ASSUME NEW f, Stages(f, configs, list)
      PROVE  /\ f \in [0..N -> Outcome]
             /\ \A n \in 0..N : f[n].staged \subseteq configs \cup {Plain(list[i]) : i \in 1..N}
  <2> DEFINE All == configs \cup {Plain(list[i]) : i \in 1..N}
             Q == {n \in 0..N : f[n] \in Outcome /\ f[n].staged \subseteq All}
  <2>1. f[0] = first /\ \A n \in 1..N : f[n] = StageOne(f[n - 1], list[n])
    BY <1>6, StagesUnfold
  <2>2. 0 \in Q
    <3>1. first \in Outcome /\ first.staged \subseteq All
      BY DEF Outcome
    <3> QED
      BY <1>1, <2>1, <3>1
  <2>3. ASSUME NEW n \in 0..(N - 1), n \in Q
        PROVE  n + 1 \in Q
    <3>1. n + 1 \in 1..N /\ list[n + 1] \in Listed /\ f[n + 1] = StageOne(f[n], list[n + 1])
      BY <1>1, <2>1
    <3>2. Plain(list[n + 1]) \in All
      BY <3>1
    <3>3. f[n] \in Outcome /\ f[n].staged \subseteq All
      BY <2>3
    <3> HIDE DEF All
    <3>4. f[n + 1] \in Outcome /\ f[n + 1].staged \subseteq All
      BY <3>1, <3>2, <3>3, StageOneTyped
    <3> QED
      BY <1>1, <3>1, <3>4
  <2>4. 0..N \subseteq Q
    <3> HIDE DEF Q
    <3> QED
      BY <1>1, <2>2, <2>3, UpTo
  <2>5. f = [n \in 0..N |-> f[n]]
    BY <1>6, StagesMap
  <2> QED
    BY <2>4, <2>5
<1> QED
  BY <1>5, <1>6

\* The staging of a list is Stage: whatever holds of every staging holds of it.
LEMMA StageIs ==
    ASSUME NEW configs \in SUBSET Config, NEW list \in Seq(Listed)
    PROVE  \E f : Stages(f, configs, list) /\ Stage(configs, list) = f[Len(list)]
<1> DEFINE f == CHOOSE f : Stages(f, configs, list)
<1>1. Stages(f, configs, list)
  BY StagesExist
<1>2. Stage(configs, list) = f[Len(list)]
  BY DEF Stage, Stages
<1> QED
  BY <1>1, <1>2

\* What a staging returns.
LEMMA StageTyped ==
    ASSUME NEW configs \in SUBSET Config, NEW list \in Seq(Listed)
    PROVE  /\ Stage(configs, list) \in Outcome
           /\ Stage(configs, list).staged \subseteq
                 configs \cup {Plain(list[i]) : i \in 1..Len(list)}
<1>1. PICK f : Stages(f, configs, list) /\ Stage(configs, list) = f[Len(list)]
  BY StageIs
<1>2. Len(list) \in 0..Len(list) /\ f \in [0..Len(list) -> Outcome]
      /\ f[Len(list)].staged \subseteq configs \cup {Plain(list[i]) : i \in 1..Len(list)}
  <2>1. Len(list) \in 0..Len(list)
    OBVIOUS
  <2> QED
    BY <1>1, <2>1, StagesExist, Zenon
<1> QED
  BY <1>1, <1>2

\* A list whose beginning cannot be staged cannot be staged.
LEMMA StageLonger ==
    ASSUME NEW configs \in SUBSET Config, NEW list \in Seq(Listed), NEW c \in Listed,
           Stage(configs, Append(list, c)).ok
    PROVE  Stage(configs, list).ok
<1> DEFINE N == Len(list)
           longer == Append(list, c)
<1>1. /\ N \in Nat /\ longer \in Seq(Listed) /\ Len(longer) = N + 1
      /\ \A i \in 1..N : longer[i] = list[i]
      /\ longer[N + 1] \in Listed
  BY AppendProperties
<1>2. PICK f : Stages(f, configs, list) /\ Stage(configs, list) = f[N]
  BY StageIs
<1>3. PICK g : Stages(g, configs, longer) /\ Stage(configs, longer) = g[N + 1]
  BY <1>1, StageIs
<1> HIDE DEF longer
<1>a. /\ f[0] = [ok |-> TRUE, staged |-> configs]
      /\ \A n \in 1..N : f[n] = StageOne(f[n - 1], list[n])
  BY <1>2, StagesUnfold
<1>b. /\ g[0] = [ok |-> TRUE, staged |-> configs]
      /\ \A n \in 1..(N + 1) : g[n] = StageOne(g[n - 1], longer[n])
  <2>1. /\ g[0] = [ok |-> TRUE, staged |-> configs]
        /\ \A n \in 1..Len(longer) : g[n] = StageOne(g[n - 1], longer[n])
    <3>1. longer \in Seq(Listed) /\ Stages(g, configs, longer)
      BY <1>1, <1>3
    <3> HIDE DEF N
    <3> QED
      BY <3>1, StagesUnfold
  <2> QED
    BY <1>1, <2>1
<1>4. g \in [0..(N + 1) -> Outcome]
  <2>1. g \in [0..Len(longer) -> Outcome]
    BY <1>1, <1>3, StagesExist, Zenon
  <2> QED
    BY <1>1, <2>1
<1>5. g[N + 1] = StageOne(g[N], longer[N + 1])
  <2>1. N + 1 \in 1..(N + 1) /\ (N + 1) - 1 = N
    BY <1>1
  <2> QED
    BY <1>b, <2>1
<1>6. g[N].ok
  <2>1. g[N] \in Outcome
    BY <1>1, <1>4
  <2>2. StageOne(g[N], longer[N + 1]).ok
    BY <1>3, <1>5 DEF longer
  <2> QED
    BY <1>1, <2>1, <2>2, StageOneTyped
<1>7. f[N] = g[N]
  <2> DEFINE S == {n \in 0..N : f[n] = g[n]}
  <2>1. 0 \in S
    BY <1>1, <1>a, <1>b
  <2>2. ASSUME NEW n \in 0..(N - 1), n \in S
        PROVE  n + 1 \in S
    <3>1. f[n + 1] = StageOne(f[n], list[n + 1]) /\ g[n + 1] = StageOne(g[n], longer[n + 1])
      <4>1. n + 1 \in 1..N /\ n + 1 \in 1..(N + 1) /\ (n + 1) - 1 = n
        BY <1>1
      <4> QED
        BY <1>a, <1>b, <4>1
    <3> QED
      BY <1>1, <2>2, <3>1
  <2>3. 0..N \subseteq S
    <3> HIDE DEF S
    <3> QED
      BY <1>1, <2>1, <2>2, UpTo
  <2> QED
    BY <1>1, <2>3
<1> QED
  BY <1>2, <1>6, <1>7

---------------------------------------------------------------------------
\* How a run is bound to its configurations, and what a registry is replaying.
Binding == [pc : {"new", "taken", "blob", "running", "waiting", "failed", "done"},
            key : BOOLEAN, held : Snapshot, seen : SUBSET Snapshot]
Hot == [id : Reload \cup {Startup}, at : 0..Len(Plugins), working : SUBSET Config]

\* Configurations a registry can account for, reloads in progress aside.
Accounted(reg, cs, pending) ==
    \A c \in cs : IF c.origin = Startup
                  THEN c.by \in reg.initialized
                  ELSE reg.done[c.origin] = "success" \/ c.origin \in pending

\* What the build context still holds of a plugin that failed cannot be staged.
Registering(reg) ==
    /\ Accounted(reg, reg.configs, {})
    /\ reg.up => reg.context = <<>>
    /\ Stage(reg.configs, reg.context).ok =>
          \A i \in 1..Len(reg.context) : reg.context[i].by \in reg.initialized

\* A reload in progress answers for what it stages.
Replaying(reg, hot) ==
    hot # Idle => /\ reg.up /\ hot.id \in Reload /\ reg.done[hot.id] = ""
                  /\ Accounted(reg, hot.working, {hot.id})

\* A run reads the snapshot it took, or the stored one, and no second one.
Bound(b, stored) ==
    /\ b.pc \in {"new", "taken", "blob"} => b.seen = {}
    /\ b.pc = "blob" => stored = b.held
    /\ b.pc \in {"running", "waiting", "done"} =>
          \E s \in Snapshot : b.seen = {s} /\ stored \in {s, Unbound}
    /\ b.pc = "failed" => b.seen = {} \/ \E s \in Snapshot : b.seen = {s}

\* The inductive invariant of PluginConfigs.
ConfigsOK ==
    /\ ConfigsTypeOK
    /\ \A m \in Member : Registering(pluginReg[m]) /\ Replaying(pluginReg[m], hotReload[m])
    /\ AcksAgree
    /\ \A e \in Run : Bound(binding[e], snapshots[e])

\* The plugins, by their places.
LEMMA PluginsListed ==
    Len(Plugins) \in Nat /\ \A i \in 1..Len(Plugins) : Plugins[i] \in Plugin
  BY PluginAssumption DEF Plugin

\* A run that has stored no snapshot.
LEMMA UnboundTyped == Unbound \in Snapshot
  BY DEF Unbound, Snapshot

\* A list that a registration leaves and that can be staged.
LEMMA Registered ==
    ASSUME NEW reg \in RegistryRecord, Registering(reg),
           NEW p \in Plugin, NEW own \in Listed, own.by = p,
           NEW list, list \in {reg.context, <<own>>, Append(reg.context, own)}
    PROVE  /\ list \in Seq(Listed)
           /\ Stage(reg.configs, list).ok =>
                 /\ \A i \in 1..Len(list) : list[i].by \in reg.initialized \cup {p}
                 /\ Stage(reg.configs, list).staged \in SUBSET Config
                 /\ \A c \in Stage(reg.configs, list).staged :
                       IF c.origin = Startup
                       THEN c.by \in reg.initialized \cup {p}
                       ELSE reg.done[c.origin] = "success"
<1>1. reg.context \in Seq(Listed) /\ reg.configs \in SUBSET Config
  BY DEF RegistryRecord
<1>2. list \in Seq(Listed)
  <2>1. <<own>> \in Seq(Listed)
    OBVIOUS
  <2>2. Append(reg.context, own) \in Seq(Listed)
    BY <1>1, AppendProperties
  <2> QED
    BY <1>1, <2>1, <2>2
<1> SUFFICES ASSUME Stage(reg.configs, list).ok
             PROVE  /\ \A i \in 1..Len(list) : list[i].by \in reg.initialized \cup {p}
                    /\ Stage(reg.configs, list).staged \in SUBSET Config
                    /\ \A c \in Stage(reg.configs, list).staged :
                          IF c.origin = Startup
                          THEN c.by \in reg.initialized \cup {p}
                          ELSE reg.done[c.origin] = "success"
  BY <1>2
<1>3. \A i \in 1..Len(list) : list[i].by \in reg.initialized \cup {p}
  <2>1. CASE list = reg.context
    BY <2>1 DEF Registering
  <2>2. CASE list = <<own>>
    BY <2>2
  <2>3. CASE list = Append(reg.context, own)
    <3>1. Stage(reg.configs, reg.context).ok
      BY <1>1, <2>3, StageLonger
    <3>2. \A i \in 1..Len(reg.context) : reg.context[i].by \in reg.initialized
      BY <3>1 DEF Registering
    <3> QED
      BY <1>1, <2>3, <3>2
  <2> QED
    BY <2>1, <2>2, <2>3
<1>4. /\ Stage(reg.configs, list) \in Outcome
      /\ Stage(reg.configs, list).staged \subseteq
            reg.configs \cup {Plain(list[i]) : i \in 1..Len(list)}
  BY <1>1, <1>2, StageTyped
<1>5. ASSUME NEW c \in Stage(reg.configs, list).staged
      PROVE  IF c.origin = Startup THEN c.by \in reg.initialized \cup {p}
                                   ELSE reg.done[c.origin] = "success"
  <2>1. CASE c \in reg.configs
    BY <2>1 DEF Registering, Accounted
  <2>2. CASE \E i \in 1..Len(list) : c = Plain(list[i])
    <3>1. PICK i \in 1..Len(list) : c = Plain(list[i])
      BY <2>2
    <3>2. c.by = list[i].by /\ c.origin = Startup
      <4>1. list[i] \in Listed
        BY <1>2, <3>1
      <4>2. list[i].origin = Startup
        BY <4>1 DEF Listed
      <4> QED
        BY <3>1, <4>2 DEF Plain
    <3>3. list[i].by \in reg.initialized \cup {p}
      BY <1>3, <3>1
    <3> QED
      BY <3>2, <3>3, Zenon
  <2> QED
    BY <1>4, <2>1, <2>2
<1> QED
  BY <1>3, <1>4, <1>5 DEF Outcome

\* Every worker starts with an empty registry and every run unbound.
LEMMA ConfigsStart == ConfigsInit => ConfigsOK
<1> SUFFICES ASSUME ConfigsInit
             PROVE  ConfigsOK
  OBVIOUS
<1>1. Len(Plugins) \in Nat
  BY PluginAssumption
<1>2. ConfigsTypeOK
  <2>1. pluginReg \in [Member -> RegistryRecord]
    <3>1. [at |-> 0, up |-> FALSE, configs |-> {}, version |-> 0, initialized |-> {},
           context |-> <<>>, done |-> [r \in Reload |-> ""]] \in RegistryRecord
      BY <1>1 DEF RegistryRecord
    <3> QED
      BY <3>1, Zenon DEF ConfigsInit
  <2>2. hotReload \in [Member -> [id : Reload \cup {Startup}, at : 0..Len(Plugins),
                                  working : SUBSET Config]]
    <3>1. Idle \in [id : Reload \cup {Startup}, at : 0..Len(Plugins), working : SUBSET Config]
      BY <1>1 DEF Idle
    <3> QED
      BY <3>1, Zenon DEF ConfigsInit
  <2>3. reloadBox \in [Member -> [Reload -> 0..MaxCopies]] /\ reloadAck = {}
    <3>1. [r \in Reload |-> 0] \in [Reload -> 0..MaxCopies]
      BY PluginAssumption
    <3> QED
      BY <3>1, Zenon DEF ConfigsInit
  <2>4. /\ snapshots \in [Run -> Snapshot]
        /\ binding \in [Run -> [pc : {"new", "taken", "blob", "running", "waiting",
                                      "failed", "done"},
                                key : BOOLEAN, held : Snapshot, seen : SUBSET Snapshot]]
    BY UnboundTyped DEF ConfigsInit
  <2> QED
    BY <2>1, <2>2, <2>3, <2>4 DEF ConfigsTypeOK
<1>3. AcksAgree
  BY DEF ConfigsInit, AcksAgree
<1>4. ASSUME NEW m \in Member
      PROVE  Registering(pluginReg[m]) /\ Replaying(pluginReg[m], hotReload[m])
  <2>1. /\ pluginReg[m].configs = {} /\ pluginReg[m].context = <<>>
        /\ hotReload[m] = Idle
    BY DEF ConfigsInit
  <2> QED
    BY <2>1 DEF Registering, Replaying, Accounted
<1>5. ASSUME NEW e \in Run
      PROVE  Bound(binding[e], snapshots[e])
  <2>1. binding[e].pc = "new" /\ binding[e].seen = {}
    BY DEF ConfigsInit
  <2> QED
    BY <2>1 DEF Bound
<1> QED
  BY <1>2, <1>3, <1>4, <1>5 DEF ConfigsOK

\* A step of one worker's registry leaves the executions and the rest alone.
LEMMA OneRegistry ==
    ASSUME ConfigsOK, NEW m \in Member,
           NEW reg \in RegistryRecord, Registering(reg),
           NEW hot \in Hot, Replaying(reg, hot),
           pluginReg' = [pluginReg EXCEPT ![m] = reg],
           hotReload' = [hotReload EXCEPT ![m] = hot],
           reloadBox' \in [Member -> [Reload -> 0..MaxCopies]],
           reloadAck' \subseteq (Member \X Reload \X {"success", "failure"}),
           AcksAgree', UNCHANGED <<binding, snapshots>>
    PROVE  ConfigsOK'
<1>1. ConfigsTypeOK'
  BY DEF ConfigsOK, ConfigsTypeOK, Hot
<1>2. ASSUME NEW n \in Member
      PROVE  Registering(pluginReg[n])' /\ Replaying(pluginReg[n], hotReload[n])'
  <2>1. CASE n = m
    <3>1. pluginReg'[n] = reg /\ hotReload'[n] = hot
      BY <2>1 DEF ConfigsOK, ConfigsTypeOK
    <3> QED
      BY <3>1
  <2>2. CASE n # m
    <3>1. pluginReg'[n] = pluginReg[n] /\ hotReload'[n] = hotReload[n]
      BY <2>2 DEF ConfigsOK, ConfigsTypeOK
    <3> QED
      BY <3>1 DEF ConfigsOK
  <2> QED
    BY <2>1, <2>2
<1>3. \A e \in Run : Bound(binding[e], snapshots[e])'
  BY DEF ConfigsOK
<1> QED
  BY <1>1, <1>2, <1>3 DEF ConfigsOK

\* register_plugin: the context takes one configuration and is staged.
LEMMA RegisterStep ==
    ASSUME ConfigsOK, NEW m \in Member, RegisterPlugin(m)
    PROVE  ConfigsOK'
<1> DEFINE p == Plugins[pluginReg[m].at + 1]
           own(v) == [by |-> p, origin |-> Startup, valid |-> v]
<1>1. PICK reg \in RegistryRecord : reg = pluginReg[m]
  BY DEF ConfigsOK, ConfigsTypeOK
<1>2. PICK hot \in Hot : hot = hotReload[m]
  BY DEF ConfigsOK, ConfigsTypeOK, Hot
<1>3. Registering(reg) /\ Replaying(reg, hot)
  BY <1>1, <1>2 DEF ConfigsOK
<1>4. ~reg.up /\ reg.at < Len(Plugins) /\ hot = Idle
  BY <1>1, <1>3 DEF RegisterPlugin, Replaying
<1>5. p \in Plugin /\ reg.at \in Nat /\ reg.at + 1 \in 0..Len(Plugins)
  <2>1. PICK at \in 0..Len(Plugins) : at = reg.at
    BY DEF RegistryRecord
  <2>2. at \in Nat /\ at + 1 \in 1..Len(Plugins) /\ at + 1 \in 0..Len(Plugins)
    BY <1>4, <2>1, PluginsListed
  <2> QED
    BY <1>1, <2>1, <2>2, PluginsListed
<1>6. own(TRUE) \in Listed /\ own(FALSE) \in Listed /\ own(TRUE).by = p /\ own(FALSE).by = p
  BY <1>5 DEF Listed
<1>7. UNCHANGED <<hotReload, reloadBox, reloadAck, binding, snapshots>>
  BY DEF RegisterPlugin
<1>8. ASSUME NEW after \in RegistryRecord, Registering(after), ~after.up,
             after.done = reg.done,
             pluginReg' = [pluginReg EXCEPT ![m] = after]
      PROVE  ConfigsOK'
  <2>1. Replaying(after, hot)
    BY <1>4 DEF Replaying
  <2>2. hotReload' = [hotReload EXCEPT ![m] = hot]
    BY <1>2, <1>7 DEF ConfigsOK, ConfigsTypeOK
  <2>3. AcksAgree'
    <3>1. \A n \in Member : pluginReg'[n].done = pluginReg[n].done
      BY <1>1, <1>8 DEF ConfigsOK, ConfigsTypeOK
    <3>2. reloadAck' = reloadAck /\ reloadAck \subseteq (Member \X Reload \X {"success", "failure"})
      BY <1>7 DEF ConfigsOK, ConfigsTypeOK
    <3> QED
      BY <3>1, <3>2 DEF ConfigsOK, AcksAgree
  <2> QED
    BY <1>7, <1>8, <2>1, <2>2, <2>3, OneRegistry DEF ConfigsOK, ConfigsTypeOK
<1>9. CASE pluginReg' = [pluginReg EXCEPT ![m].at = @ + 1]
  <2> DEFINE after == [reg EXCEPT !.at = reg.at + 1]
  <2>1. pluginReg' = [pluginReg EXCEPT ![m] = after]
    BY <1>1, <1>9
  <2>2. /\ after \in RegistryRecord /\ after.done = reg.done /\ after.up = reg.up
        /\ after.context = reg.context /\ after.configs = reg.configs
        /\ after.initialized = reg.initialized
    BY <1>5 DEF RegistryRecord
  <2> HIDE DEF after
  <2>3. Registering(after)
    BY <1>3, <2>2 DEF Registering, Accounted
  <2> QED
    BY <1>4, <1>8, <2>1, <2>2, <2>3
<1>10. ASSUME NEW list, NEW v \in BOOLEAN,
              list \in {reg.context, <<own(v)>>, Append(reg.context, own(v))},
              pluginReg' = [pluginReg EXCEPT
                      ![m].at = @ + 1,
                      ![m].context = list,
                      ![m].configs = IF Stage(reg.configs, list).ok
                                     THEN Stage(reg.configs, list).staged ELSE @,
                      ![m].initialized = IF Stage(reg.configs, list).ok
                                         THEN @ \cup {p} ELSE @]
       PROVE  ConfigsOK'
  <2> DEFINE ok == Stage(reg.configs, list).ok
             configs == IF ok THEN Stage(reg.configs, list).staged ELSE reg.configs
             initialized == IF ok THEN reg.initialized \cup {p} ELSE reg.initialized
             after == [reg EXCEPT !.at = reg.at + 1, !.context = list,
                                  !.configs = configs, !.initialized = initialized]
  <2>1. pluginReg' = [pluginReg EXCEPT ![m] = after]
    BY <1>1, <1>10
  <2>2. own(v) \in Listed /\ own(v).by = p
    BY <1>5 DEF Listed
  <2>3. PICK q \in Plugin : q = p
    BY <1>5
  <2>4. PICK o \in Listed : o = own(v)
    BY <2>2
  <2> HIDE DEF own
  <2>5. /\ list \in Seq(Listed)
        /\ ok => /\ \A i \in 1..Len(list) : list[i].by \in reg.initialized \cup {p}
                 /\ Stage(reg.configs, list).staged \in SUBSET Config
                 /\ \A c \in Stage(reg.configs, list).staged :
                       IF c.origin = Startup
                       THEN c.by \in reg.initialized \cup {p}
                       ELSE reg.done[c.origin] = "success"
    <3>1. o.by = q /\ list \in {reg.context, <<o>>, Append(reg.context, o)}
      BY <1>10, <2>2, <2>3, <2>4
    <3> HIDE DEF p
    <3> QED
      BY <1>3, <2>3, <3>1, Registered
  <2>6. /\ after \in RegistryRecord /\ after.done = reg.done /\ after.up = reg.up
        /\ after.context = list /\ after.configs = configs
        /\ after.initialized = initialized
    <3>1. configs \in SUBSET Config /\ initialized \in SUBSET Plugin
      BY <1>5, <2>5 DEF RegistryRecord
    <3> HIDE DEF configs, initialized
    <3> QED
      BY <1>5, <2>5, <3>1 DEF RegistryRecord
  <2> HIDE DEF after
  <2>7. Registering(after)
    <3>1. CASE ok
      <4>1. after.initialized = reg.initialized \cup {p}
            /\ after.configs = Stage(reg.configs, list).staged
        BY <2>6, <3>1
      <4> HIDE DEF configs, initialized, p
      <4>2. Accounted(after, after.configs, {})
        BY <2>5, <2>6, <3>1, <4>1, Zenon DEF Accounted
      <4>3. \A i \in 1..Len(after.context) : after.context[i].by \in after.initialized
        BY <2>5, <2>6, <3>1, <4>1
      <4> QED
        BY <1>4, <2>6, <4>2, <4>3 DEF Registering
    <3>2. CASE ~ok
      <4>1. after.initialized = reg.initialized /\ after.configs = reg.configs
        BY <2>6, <3>2
      <4>2. Accounted(after, after.configs, {})
        BY <1>3, <2>6, <4>1, Zenon DEF Accounted, Registering
      <4>3. ~Stage(after.configs, after.context).ok
        BY <2>6, <3>2, <4>1
      <4> QED
        BY <1>4, <2>6, <4>2, <4>3 DEF Registering
    <3> QED
      BY <3>1, <3>2
  <2> QED
    BY <1>4, <1>8, <2>1, <2>6, <2>7
<1> QED
  <2>1. \/ pluginReg' = [pluginReg EXCEPT ![m].at = @ + 1]
        \/ \E list \in {reg.context, <<own(TRUE)>>, Append(reg.context, own(TRUE)),
                        Append(reg.context, own(FALSE))} :
              pluginReg' = [pluginReg EXCEPT
                      ![m].at = @ + 1,
                      ![m].context = list,
                      ![m].configs = IF Stage(reg.configs, list).ok
                                     THEN Stage(reg.configs, list).staged ELSE @,
                      ![m].initialized = IF Stage(reg.configs, list).ok
                                         THEN @ \cup {p} ELSE @]
    BY <1>1, Zenon DEF RegisterPlugin
  <2>2. ASSUME NEW list
        PROVE  list \in {reg.context, <<own(TRUE)>>, Append(reg.context, own(TRUE)),
                         Append(reg.context, own(FALSE))}
               => \E v \in BOOLEAN :
                     list \in {reg.context, <<own(v)>>, Append(reg.context, own(v))}
    <3> HIDE DEF own
    <3> QED
      BY Zenon
  <2> HIDE DEF own, p
  <2> QED
    BY <1>9, <1>10, <2>1, <2>2, Zenon

\* The plugin is initialised: what was staged by it is accounted for.
LEMMA InitializedStep ==
    ASSUME ConfigsOK, NEW m \in Member, PluginsInitialized(m)
    PROVE  ConfigsOK'
<1>1. PICK reg \in RegistryRecord : reg = pluginReg[m]
  BY DEF ConfigsOK, ConfigsTypeOK
<1>2. PICK hot \in Hot : hot = hotReload[m]
  BY DEF ConfigsOK, ConfigsTypeOK, Hot
<1>3. Registering(reg) /\ Replaying(reg, hot)
  BY <1>1, <1>2 DEF ConfigsOK
<1>4. ~reg.up /\ hot = Idle
  BY <1>1, <1>3 DEF PluginsInitialized, Replaying
<1> DEFINE version == IF reg.configs = {} THEN reg.version ELSE reg.version + 1
           after == [reg EXCEPT !.up = TRUE, !.context = <<>>, !.version = version]
<1>5. pluginReg' = [pluginReg EXCEPT ![m] = after]
  BY <1>1 DEF PluginsInitialized
<1>6. UNCHANGED <<hotReload, reloadBox, reloadAck, binding, snapshots>>
  BY DEF PluginsInitialized
<1>7. /\ after \in RegistryRecord /\ after.done = reg.done /\ after.context = <<>>
      /\ after.configs = reg.configs /\ after.initialized = reg.initialized
  <2>1. version \in Nat
    <3>1. reg.version \in Nat
      BY DEF RegistryRecord
    <3> QED
      BY <3>1
  <2>2. <<>> \in Seq(Listed)
    OBVIOUS
  <2> HIDE DEF version
  <2> QED
    BY <2>1, <2>2 DEF RegistryRecord
<1> HIDE DEF after, version
<1>8. Registering(after)
  <2>1. Accounted(after, after.configs, {})
    BY <1>3, <1>7, Zenon DEF Accounted, Registering
  <2> QED
    BY <1>7, <2>1 DEF Registering
<1>9. Replaying(after, hot)
  BY <1>4 DEF Replaying
<1>10. hotReload' = [hotReload EXCEPT ![m] = hot]
  BY <1>2, <1>6 DEF ConfigsOK, ConfigsTypeOK
<1>11. AcksAgree'
  <2>1. \A n \in Member : pluginReg'[n].done = pluginReg[n].done
    BY <1>1, <1>5, <1>7 DEF ConfigsOK, ConfigsTypeOK
  <2>2. reloadAck' = reloadAck /\ reloadAck \subseteq (Member \X Reload \X {"success", "failure"})
    BY <1>6 DEF ConfigsOK, ConfigsTypeOK
  <2> QED
    BY <2>1, <2>2 DEF ConfigsOK, AcksAgree
<1> QED
  BY <1>5, <1>6, <1>7, <1>8, <1>9, <1>10, <1>11, OneRegistry DEF ConfigsOK, ConfigsTypeOK

\* The control plane broadcasts a reload.
LEMMA SendStep ==
    ASSUME ConfigsOK, NEW m \in Member, NEW r \in Reload, SendReload(m, r)
    PROVE  ConfigsOK'
<1>1. UNCHANGED <<pluginReg, hotReload, reloadAck, binding, snapshots>>
  BY DEF SendReload
<1>2. reloadBox' \in [Member -> [Reload -> 0..MaxCopies]]
  <2>1. reloadBox \in [Member -> [Reload -> 0..MaxCopies]]
    BY DEF ConfigsOK, ConfigsTypeOK
  <2>2. PICK n \in 0..MaxCopies : n = reloadBox[m][r]
    BY <2>1
  <2>3. n + 1 \in 0..MaxCopies /\ reloadBox' = [reloadBox EXCEPT ![m][r] = n + 1]
    BY <2>2, PluginAssumption DEF SendReload
  <2> QED
    BY <2>1, <2>3
<1>3. ConfigsTypeOK'
  BY <1>1, <1>2 DEF ConfigsOK, ConfigsTypeOK
<1> QED
  BY <1>1, <1>3 DEF ConfigsOK, AcksAgree

\* A worker takes the broadcast, unless it has answered it.
LEMMA TakeStep ==
    ASSUME ConfigsOK, NEW m \in Member, NEW r \in Reload, TakeReload(m, r)
    PROVE  ConfigsOK'
<1>1. PICK reg \in RegistryRecord : reg = pluginReg[m]
  BY DEF ConfigsOK, ConfigsTypeOK
<1>2. Registering(reg)
  BY <1>1 DEF ConfigsOK
<1>3. UNCHANGED <<pluginReg, binding, snapshots>> /\ reg.up /\ hotReload[m] = Idle
  BY <1>1 DEF TakeReload
<1>4. pluginReg' = [pluginReg EXCEPT ![m] = reg]
  BY <1>1, <1>3 DEF ConfigsOK, ConfigsTypeOK
<1>5. reloadBox' \in [Member -> [Reload -> 0..MaxCopies]]
  <2>1. reloadBox \in [Member -> [Reload -> 0..MaxCopies]]
    BY DEF ConfigsOK, ConfigsTypeOK
  <2>2. PICK n \in 0..MaxCopies : n = reloadBox[m][r]
    BY <2>1
  <2>3. n > 0 /\ reloadBox' = [reloadBox EXCEPT ![m][r] = n - 1]
    BY <2>2, Zenon DEF TakeReload
  <2>4. n - 1 \in 0..MaxCopies
    BY <2>3, PluginAssumption
  <2> QED
    BY <2>1, <2>3, <2>4
<1>6. reloadAck \subseteq (Member \X Reload \X {"success", "failure"})
  BY DEF ConfigsOK, ConfigsTypeOK
<1>7. CASE reg.done[r] # ""
  <2>1. PICK status \in {"success", "failure"} : status = reg.done[r]
    BY <1>7 DEF RegistryRecord
  <2>2. reloadAck' = reloadAck \cup {<<m, r, status>>} /\ hotReload' = hotReload
    BY <1>1, <1>7, <2>1 DEF TakeReload
  <2>3. reloadAck' \subseteq (Member \X Reload \X {"success", "failure"})
    BY <1>6, <2>2
  <2>4. AcksAgree'
    BY <1>1, <1>3, <2>1, <2>2 DEF ConfigsOK, AcksAgree
  <2>5. PICK hot \in Hot : hot = hotReload[m]
    BY DEF ConfigsOK, ConfigsTypeOK, Hot
  <2>6. Replaying(reg, hot) /\ hotReload' = [hotReload EXCEPT ![m] = hot]
    BY <1>1, <2>2, <2>5 DEF ConfigsOK, ConfigsTypeOK
  <2> QED
    BY <1>2, <1>3, <1>4, <1>5, <2>3, <2>4, <2>6, OneRegistry
<1>8. CASE reg.done[r] = ""
  <2>1. /\ reloadAck' = reloadAck
        /\ hotReload' = [hotReload EXCEPT ![m] = [id |-> r, at |-> 0, working |-> reg.configs]]
    BY <1>1, <1>8 DEF TakeReload
  <2>2. PICK hot \in Hot : hot = [id |-> r, at |-> 0, working |-> reg.configs]
    <3>1. 0 \in 0..Len(Plugins)
      BY PluginsListed
    <3>2. reg.configs \in SUBSET Config
      BY DEF RegistryRecord
    <3> QED
      BY <3>1, <3>2 DEF Hot
  <2>3. Replaying(reg, hot)
    BY <1>2, <1>3, <1>8, <2>2 DEF Replaying, Registering, Accounted
  <2>4. AcksAgree'
    BY <1>3, <2>1 DEF ConfigsOK, AcksAgree
  <2> QED
    BY <1>2, <1>3, <1>4, <1>5, <1>6, <2>1, <2>2, <2>3, <2>4, OneRegistry
<1> QED
  BY <1>7, <1>8

\* One hook of a reload is replayed on the working copy.
LEMMA ReplayStep ==
    ASSUME ConfigsOK, NEW m \in Member, ReplayHook(m)
    PROVE  ConfigsOK'
<1>1. PICK reg \in RegistryRecord : reg = pluginReg[m]
  BY DEF ConfigsOK, ConfigsTypeOK
<1>2. PICK hot \in Hot : hot = hotReload[m]
  BY DEF ConfigsOK, ConfigsTypeOK, Hot
<1>3. Registering(reg) /\ Replaying(reg, hot)
  BY <1>1, <1>2 DEF ConfigsOK
<1>4. /\ hot # Idle /\ hot.at < Len(Plugins)
      /\ UNCHANGED <<pluginReg, reloadBox, reloadAck, binding, snapshots>>
  BY <1>2 DEF ReplayHook
<1>5. reg.up /\ hot.id \in Reload /\ reg.done[hot.id] = "" /\ Accounted(reg, hot.working, {hot.id})
  BY <1>3, <1>4 DEF Replaying
<1>6. PICK at \in 0..Len(Plugins) : at = hot.at
  BY DEF Hot
<1>7. at + 1 \in 1..Len(Plugins) /\ at + 1 \in 0..Len(Plugins)
  BY <1>4, <1>6, PluginsListed
<1>8. PICK p \in Plugin : p = Plugins[hot.at + 1]
  BY <1>6, <1>7, PluginsListed
<1>9. PICK w \in {hot.working, {c \in hot.working : c.by # p} \cup {[by |-> p,
           origin |-> hot.id]}} :
         hotReload' = [hotReload EXCEPT ![m].at = @ + 1, ![m].working = w]
  BY <1>2, <1>8 DEF ReplayHook
<1>10. w \in SUBSET Config /\ Accounted(reg, w, {hot.id})
  <2>1. hot.working \in SUBSET Config /\ [by |-> p, origin |-> hot.id] \in Config
    BY <1>5 DEF Hot, Config
  <2>2. PICK new \in Config : new = [by |-> p, origin |-> hot.id]
    BY <2>1
  <2>3. new.origin = hot.id /\ new.origin # Startup
    BY <1>5, <2>2, PluginAssumption
  <2>4. w \in SUBSET Config /\ \A c \in w : c \in hot.working \/ c = new
    BY <1>9, <2>1, <2>2
  <2> QED
    BY <1>5, <2>3, <2>4 DEF Accounted
<1> DEFINE after == [hot EXCEPT !.at = at + 1, !.working = w]
<1>11. hotReload' = [hotReload EXCEPT ![m] = after]
  BY <1>2, <1>6, <1>9
<1>12. after \in Hot /\ after.id = hot.id /\ after.working = w
  BY <1>7, <1>10 DEF Hot
<1> HIDE DEF after
<1>13. Replaying(reg, after)
  BY <1>5, <1>10, <1>12 DEF Replaying
<1>14. pluginReg' = [pluginReg EXCEPT ![m] = reg]
  BY <1>1, <1>4 DEF ConfigsOK, ConfigsTypeOK
<1>15. AcksAgree'
  BY <1>4 DEF ConfigsOK, AcksAgree
<1> QED
  BY <1>3, <1>4, <1>11, <1>12, <1>13, <1>14, <1>15, OneRegistry DEF ConfigsOK, ConfigsTypeOK

\* A reload ends: the working copy goes live or is dropped, and is answered for.
LEMMA EndStep ==
    ASSUME ConfigsOK, NEW m \in Member, hotReload[m] # Idle,
           NEW status \in {"success", "failure"}, ReloadEnds(m, status)
    PROVE  ConfigsOK'
<1>1. PICK reg \in RegistryRecord : reg = pluginReg[m]
  BY DEF ConfigsOK, ConfigsTypeOK
<1>2. PICK hot \in Hot : hot = hotReload[m]
  BY DEF ConfigsOK, ConfigsTypeOK, Hot
<1>3. Registering(reg) /\ Replaying(reg, hot)
  BY <1>1, <1>2 DEF ConfigsOK
<1>4. reg.up /\ hot.id \in Reload /\ reg.done[hot.id] = "" /\ Accounted(reg, hot.working, {hot.id})
  BY <1>2, <1>3 DEF Replaying
<1>5. PICK r \in Reload : r = hot.id
  BY <1>4
<1> DEFINE done == [reg.done EXCEPT ![r] = status]
           configs == IF status = "success" THEN hot.working ELSE reg.configs
           version == IF status = "success" THEN reg.version + 1 ELSE reg.version
           after == [reg EXCEPT !.done = done, !.configs = configs, !.version = version]
<1>6. /\ pluginReg' = [pluginReg EXCEPT ![m] = after]
      /\ hotReload' = [hotReload EXCEPT ![m] = Idle]
      /\ reloadAck' = reloadAck \cup {<<m, r, status>>}
      /\ UNCHANGED <<reloadBox, binding, snapshots>>
  BY <1>1, <1>2, <1>5 DEF ReloadEnds
<1>7. /\ after \in RegistryRecord /\ after.up = reg.up /\ after.context = reg.context
      /\ after.done = done /\ after.configs = configs /\ after.initialized = reg.initialized
  <2>1. done \in [Reload -> {"", "success", "failure"}]
    BY DEF RegistryRecord
  <2>2. configs \in SUBSET Config
    BY DEF RegistryRecord, Hot
  <2>3. version \in Nat
    <3>1. reg.version \in Nat
      BY DEF RegistryRecord
    <3> QED
      BY <3>1
  <2> HIDE DEF done, configs, version
  <2> QED
    BY <2>1, <2>2, <2>3 DEF RegistryRecord
<1>8. done[r] = status /\ \A o \in Reload : o # r => done[o] = reg.done[o]
  BY DEF RegistryRecord
<1> HIDE DEF after, done, version
<1>9. Registering(after)
  <2>1. ASSUME NEW c \in configs
        PROVE  IF c.origin = Startup THEN c.by \in reg.initialized ELSE done[c.origin] = "success"
    <3>1. c \in Config
      BY DEF RegistryRecord, Hot
    <3>2. CASE c.origin = Startup
      BY <1>3, <1>4, <3>2 DEF Accounted, Registering
    <3>3. CASE c.origin # Startup /\ c.origin = r
      <4>1. reg.done[r] # "success" /\ (status # "success" => configs = reg.configs)
        BY <1>4, <1>5
      <4>2. status = "success"
        BY <1>3, <3>3, <4>1 DEF Accounted, Registering
      <4> QED
        BY <1>8, <3>3, <4>2
    <3>4. CASE c.origin # Startup /\ c.origin # r
      <4>1. reg.done[c.origin] = "success"
        BY <1>3, <1>4, <1>5, <3>4 DEF Accounted, Registering
      <4>2. c.origin \in Reload
        BY <3>1, <3>4 DEF Config
      <4> QED
        BY <1>8, <3>4, <4>1, <4>2
    <3> QED
      BY <3>2, <3>3, <3>4
  <2> HIDE DEF configs
  <2>2. Accounted(after, after.configs, {})
    BY <1>7, <2>1, Zenon DEF Accounted
  <2>3. after.context = <<>>
    BY <1>3, <1>4, <1>7 DEF Registering
  <2> QED
    BY <2>2, <2>3 DEF Registering
<1> HIDE DEF configs
<1>10. PICK idle \in Hot : idle = Idle
  <2>1. 0 \in 0..Len(Plugins)
    BY PluginsListed
  <2> QED
    BY <2>1 DEF Idle, Hot
<1>11. Replaying(after, idle)
  BY <1>10 DEF Replaying
<1>12. AcksAgree'
  <2>1. reloadAck \subseteq (Member \X Reload \X {"success", "failure"})
    BY DEF ConfigsOK, ConfigsTypeOK
  <2>2. ASSUME NEW a \in reloadAck'
        PROVE  pluginReg'[a[1]].done[a[2]] = a[3]
    <3>1. pluginReg'[m].done = done
      BY <1>6, <1>7 DEF ConfigsOK, ConfigsTypeOK
    <3>2. CASE a = <<m, r, status>>
      BY <1>8, <3>1, <3>2
    <3>3. CASE a \in reloadAck
      <4>1. /\ a[1] \in Member /\ a[2] \in Reload /\ a[3] # ""
            /\ pluginReg[a[1]].done[a[2]] = a[3]
        BY <2>1, <3>3 DEF ConfigsOK, AcksAgree
      <4>2. CASE a[1] = m
        BY <1>1, <1>4, <1>5, <1>8, <3>1, <4>1, <4>2
      <4>3. CASE a[1] # m
        BY <1>6, <4>1, <4>3 DEF ConfigsOK, ConfigsTypeOK
      <4> QED
        BY <4>2, <4>3
    <3> QED
      BY <1>6, <3>2, <3>3
  <2> QED
    BY <2>2 DEF AcksAgree
<1>13. reloadAck' \subseteq (Member \X Reload \X {"success", "failure"})
  BY <1>6 DEF ConfigsOK, ConfigsTypeOK
<1> QED
  BY <1>6, <1>7, <1>9, <1>10, <1>11, <1>12, <1>13, OneRegistry DEF ConfigsOK, ConfigsTypeOK

\* A step of one execution leaves the registries and the rest alone.
LEMMA OneRun ==
    ASSUME ConfigsOK, NEW e \in Run, NEW b \in Binding, NEW stored \in Snapshot,
           Bound(b, stored),
           binding' = [binding EXCEPT ![e] = b],
           snapshots' = [snapshots EXCEPT ![e] = stored],
           UNCHANGED <<pluginReg, hotReload, reloadBox, reloadAck>>
    PROVE  ConfigsOK'
<1>1. ConfigsTypeOK'
  BY DEF ConfigsOK, ConfigsTypeOK, Binding
<1>2. ASSUME NEW d \in Run
      PROVE  Bound(binding[d], snapshots[d])'
  <2>1. CASE d = e
    <3>1. binding'[d] = b /\ snapshots'[d] = stored
      BY <2>1 DEF ConfigsOK, ConfigsTypeOK
    <3> QED
      BY <3>1
  <2>2. CASE d # e
    <3>1. binding'[d] = binding[d] /\ snapshots'[d] = snapshots[d]
      BY <2>2 DEF ConfigsOK, ConfigsTypeOK
    <3> QED
      BY <3>1 DEF ConfigsOK
  <2> QED
    BY <2>1, <2>2
<1> QED
  BY <1>1, <1>2 DEF ConfigsOK, AcksAgree

\* The steps of a run.
RunStep(e) ==
    \/ \E m \in Member : TakeSnapshot(m, e) \/ ResumeRestores(m, e)
    \/ PersistSnapshot(e) \/ BindSnapshot(e) \/ BindFails(e)
    \/ RunSuspends(e) \/ RunFinishes(e) \/ SnapshotExpires(e)

\* Each step of a run leaves it bound to one snapshot.
LEMMA RunSteps ==
    ASSUME ConfigsOK, NEW e \in Run, RunStep(e)
    PROVE  ConfigsOK'
<1>1. PICK b \in Binding : b = binding[e]
  BY DEF ConfigsOK, ConfigsTypeOK, Binding
<1>2. PICK stored \in Snapshot : stored = snapshots[e]
  BY DEF ConfigsOK, ConfigsTypeOK
<1>3. Bound(b, stored)
  BY <1>1, <1>2 DEF ConfigsOK
<1>4. UNCHANGED <<pluginReg, hotReload, reloadBox, reloadAck>>
  BY DEF RunStep, TakeSnapshot, ResumeRestores, PersistSnapshot, BindSnapshot, BindFails,
         RunSuspends, RunFinishes, SnapshotExpires
<1>5. /\ binding' = binding => binding' = [binding EXCEPT ![e] = b]
      /\ snapshots' = snapshots => snapshots' = [snapshots EXCEPT ![e] = stored]
  BY <1>1, <1>2 DEF ConfigsOK, ConfigsTypeOK
<1>6. /\ b.pc \in {"new", "taken", "blob", "running", "waiting", "failed", "done"}
      /\ b.seen \in SUBSET Snapshot /\ b.held \in Snapshot
  BY DEF Binding
<1>7. ASSUME NEW m \in Member, TakeSnapshot(m, e)
      PROVE  ConfigsOK'
  <2>1. PICK held \in Snapshot : held = Current(m)
    BY DEF Current, Snapshot, ConfigsOK, ConfigsTypeOK, RegistryRecord
  <2> DEFINE after == [b EXCEPT !.pc = "taken", !.held = held]
  <2>2. binding' = [binding EXCEPT ![e] = after] /\ snapshots' = snapshots /\ b.pc = "new"
    BY <1>1, <1>7, <2>1 DEF TakeSnapshot
  <2>3. after \in Binding /\ after.pc = "taken" /\ after.seen = b.seen
    BY DEF Binding
  <2> HIDE DEF after
  <2>4. Bound(after, stored)
    BY <1>3, <2>2, <2>3 DEF Bound
  <2> QED
    BY <1>4, <1>5, <2>2, <2>3, <2>4, OneRun
<1>8. CASE PersistSnapshot(e)
  <2> DEFINE after == [b EXCEPT !.pc = "blob"]
  <2>1. /\ binding' = [binding EXCEPT ![e] = after] /\ b.pc = "taken"
        /\ snapshots' = [snapshots EXCEPT ![e] = b.held]
    BY <1>1, <1>8 DEF PersistSnapshot
  <2>2. after \in Binding /\ after.pc = "blob" /\ after.seen = b.seen /\ after.held = b.held
    BY DEF Binding
  <2> HIDE DEF after
  <2>3. Bound(after, b.held)
    BY <1>3, <2>1, <2>2 DEF Bound
  <2> QED
    BY <1>4, <1>6, <2>1, <2>2, <2>3, OneRun
<1>9. CASE BindSnapshot(e)
  <2> DEFINE after == [b EXCEPT !.pc = "running", !.key = TRUE, !.held = Unbound,
                                !.seen = b.seen \cup {b.held}]
  <2>1. binding' = [binding EXCEPT ![e] = after] /\ snapshots' = snapshots /\ b.pc = "blob"
    BY <1>1, <1>9 DEF BindSnapshot
  <2>2. after \in Binding /\ after.pc = "running" /\ after.seen = b.seen \cup {b.held}
    BY <1>6, UnboundTyped DEF Binding
  <2> HIDE DEF after
  <2>3. b.seen = {} /\ stored = b.held
    BY <1>3, <2>1 DEF Bound
  <2>4. Bound(after, stored)
    BY <1>6, <2>2, <2>3 DEF Bound
  <2> QED
    BY <1>4, <1>5, <2>1, <2>2, <2>4, OneRun
<1>10. CASE BindFails(e)
  <2> DEFINE after == [b EXCEPT !.pc = "failed"]
  <2>1. /\ binding' = [binding EXCEPT ![e] = after] /\ snapshots' = snapshots
        /\ b.pc \in {"taken", "blob"}
    BY <1>1, <1>10 DEF BindFails
  <2>2. after \in Binding /\ after.pc = "failed" /\ after.seen = b.seen
    BY DEF Binding
  <2> HIDE DEF after
  <2>3. Bound(after, stored)
    BY <1>3, <2>1, <2>2 DEF Bound
  <2> QED
    BY <1>4, <1>5, <2>1, <2>2, <2>3, OneRun
<1>11. CASE RunSuspends(e)
  <2> DEFINE after == [b EXCEPT !.pc = "waiting"]
  <2>1. binding' = [binding EXCEPT ![e] = after] /\ snapshots' = snapshots /\ b.pc = "running"
    BY <1>1, <1>11 DEF RunSuspends
  <2>2. after \in Binding /\ after.pc = "waiting" /\ after.seen = b.seen
    BY DEF Binding
  <2> HIDE DEF after
  <2>3. Bound(after, stored)
    BY <1>3, <2>1, <2>2 DEF Bound
  <2> QED
    BY <1>4, <1>5, <2>1, <2>2, <2>3, OneRun
<1>12. CASE RunFinishes(e)
  <2> DEFINE after == [b EXCEPT !.pc = "done"]
  <2>1. /\ binding' = [binding EXCEPT ![e] = after] /\ b.pc = "running"
        /\ snapshots' = [snapshots EXCEPT ![e] = Unbound]
    BY <1>1, <1>12 DEF RunFinishes
  <2>2. after \in Binding /\ after.pc = "done" /\ after.seen = b.seen
    BY DEF Binding
  <2> HIDE DEF after
  <2>3. Bound(after, Unbound)
    BY <1>3, <2>1, <2>2 DEF Bound
  <2>4. PICK gone \in Snapshot : gone = Unbound
    BY UnboundTyped
  <2> QED
    BY <1>4, <2>1, <2>2, <2>3, <2>4, OneRun
<1>13. CASE SnapshotExpires(e)
  <2>1. /\ binding' = binding /\ b.pc = "waiting"
        /\ snapshots' = [snapshots EXCEPT ![e] = Unbound]
    BY <1>1, <1>13 DEF SnapshotExpires
  <2>2. Bound(b, Unbound)
    BY <1>3, <2>1 DEF Bound
  <2>3. PICK gone \in Snapshot : gone = Unbound
    BY UnboundTyped
  <2> QED
    BY <1>4, <1>5, <2>1, <2>2, <2>3, OneRun
<1>14. ASSUME NEW m \in Member, ResumeRestores(m, e)
       PROVE  ConfigsOK'
  <2>1. snapshots' = snapshots /\ b.pc \in {"waiting", "done"}
    BY <1>1, <1>14 DEF ResumeRestores, Resumable
  <2>2. PICK s \in Snapshot : b.seen = {s} /\ stored \in {s, Unbound}
    BY <1>3, <2>1 DEF Bound
  <2>3. CASE b.key /\ stored # Unbound
    <3> DEFINE after == [b EXCEPT !.pc = "running", !.seen = b.seen \cup {stored}]
    <3>1. binding' = [binding EXCEPT ![e] = after]
      BY <1>1, <1>2, <1>14, <2>3 DEF ResumeRestores
    <3>2. after \in Binding /\ after.pc = "running" /\ after.seen = b.seen \cup {stored}
      BY <1>6 DEF Binding
    <3> HIDE DEF after
    <3>3. Bound(after, stored)
      BY <2>2, <2>3, <3>2 DEF Bound
    <3> QED
      BY <1>4, <1>5, <2>1, <3>1, <3>2, <3>3, OneRun
  <2>4. CASE ~(b.key /\ stored # Unbound)
    <3> DEFINE after == [b EXCEPT !.pc = "failed", !.seen = b.seen]
    <3>1. binding' = [binding EXCEPT ![e] = after]
      BY <1>1, <1>2, <1>14, <2>4 DEF ResumeRestores
    <3>2. after \in Binding /\ after.pc = "failed" /\ after.seen = b.seen
      BY <1>6 DEF Binding
    <3> HIDE DEF after
    <3>3. Bound(after, stored)
      BY <2>2, <3>2 DEF Bound
    <3> QED
      BY <1>4, <1>5, <2>1, <3>1, <3>2, <3>3, OneRun
  <2> QED
    BY <2>3, <2>4
<1> QED
  BY <1>7, <1>8, <1>9, <1>10, <1>11, <1>12, <1>13, <1>14 DEF RunStep

\* Each step of the registries and the runs preserves the invariant.
LEMMA ConfigsStep == ConfigsOK /\ [ConfigsNext]_configVars => ConfigsOK'
<1> SUFFICES ASSUME ConfigsOK, [ConfigsNext]_configVars
             PROVE  ConfigsOK'
  OBVIOUS
<1>1. CASE UNCHANGED configVars
  BY <1>1 DEF configVars, ConfigsOK, ConfigsTypeOK, AcksAgree
<1>2. ASSUME NEW m \in Member,
             \/ RegisterPlugin(m) \/ PluginsInitialized(m) \/ ReplayHook(m)
             \/ ReloadSucceeds(m) \/ ReloadFails(m)
      PROVE  ConfigsOK'
  <2>1. ASSUME ReloadSucceeds(m)
        PROVE  ConfigsOK'
    BY <2>1, EndStep DEF ReloadSucceeds
  <2>2. ASSUME ReloadFails(m)
        PROVE  ConfigsOK'
    BY <2>2, EndStep DEF ReloadFails
  <2> QED
    BY <1>2, <2>1, <2>2, RegisterStep, InitializedStep, ReplayStep
<1>3. ASSUME NEW m \in Member, NEW r \in Reload, SendReload(m, r) \/ TakeReload(m, r)
      PROVE  ConfigsOK'
  BY <1>3, SendStep, TakeStep
<1>4. ASSUME NEW e \in Run, RunStep(e)
      PROVE  ConfigsOK'
  BY <1>4, RunSteps
<1>5. ConfigsNext => \/ \E m \in Member : \/ RegisterPlugin(m) \/ PluginsInitialized(m)
                                         \/ ReplayHook(m)
                                         \/ ReloadSucceeds(m) \/ ReloadFails(m)
                     \/ \E m \in Member, r \in Reload : SendReload(m, r) \/ TakeReload(m, r)
                     \/ \E e \in Run : RunStep(e)
  BY Zenon DEF ConfigsNext, RunStep
<1> QED
  BY <1>1, <1>2, <1>3, <1>4, <1>5

\* In every reachable state each registry accounts for its configurations, each
\* acknowledgement says what the reload did, and each run is bound to one snapshot at
\* most (registry.py).
THEOREM ConfigsInvariant == ConfigsSpec => []ConfigsOK
  BY ConfigsStart, ConfigsStep, PTL DEF ConfigsSpec

LEMMA BoundOnce == ConfigsOK => OneSnapshotPerRun
<1> SUFFICES ASSUME ConfigsOK, NEW e \in Run
             PROVE  Cardinality(binding[e].seen) <= 1
  BY DEF OneSnapshotPerRun
<1>1. binding[e].pc \in {"new", "taken", "blob", "running", "waiting", "failed", "done"}
  BY DEF ConfigsOK, ConfigsTypeOK
<1>2. binding[e].seen = {} \/ \E s \in Snapshot : binding[e].seen = {s}
  BY <1>1 DEF ConfigsOK, Bound
<1> QED
  BY <1>2, FS_EmptySet, FS_Singleton

LEMMA HeldForGood == ConfigsOK => ReloadHolds
<1> SUFFICES ASSUME ConfigsOK
             PROVE  ReloadHolds
  OBVIOUS
<1>1. \A m \in Member : Accounted(pluginReg[m], pluginReg[m].configs, {})
  BY DEF ConfigsOK, Registering
<1>2. ReloadIsAtomic /\ OnlyInitializedContribute
  BY <1>1, PluginAssumption DEF Accounted, ReloadIsAtomic, OnlyInitializedContribute
<1> QED
  BY <1>2 DEF ConfigsOK, ReloadHolds

\* Every activation of an execution runs with one snapshot of the configurations, on
\* whatever worker it resumes and whatever was reloaded in between.
THEOREM RunsAreBoundOnce == ConfigsSpec => []OneSnapshotPerRun
  BY ConfigsInvariant, BoundOnce, PTL

\* A registry holds configurations of plugins that registered as a whole and of reloads
\* that succeeded as a whole, and its acknowledgements say so (registry.py).
THEOREM ReloadAlwaysHolds == ConfigsSpec => []ReloadHolds
  BY ConfigsInvariant, HeldForGood, PTL

-----------------------------------------------------------------------------
(* LangfuseWorkflows: the table of open workflow observations.             *)

\* A set of positions has a least one: the scan that starts at the head stops.
LEMMA LeastOf ==
    ASSUME NEW N \in Nat, NEW T \in SUBSET (1..N), T # {}
    PROVE  \E i \in T : \A j \in T : i <= j
<1> SUFFICES ASSUME ~\E i \in T : \A j \in T : i <= j
             PROVE  FALSE
  OBVIOUS
<1> DEFINE S == {n \in 0..N : \A j \in T : n < j}
<1>1. 0 \in S
  OBVIOUS
<1>2. ASSUME NEW n \in 0..(N - 1), n \in S
      PROVE  n + 1 \in S
  <2>1. \A j \in T : n + 1 <= j
    BY <1>2
  <2>2. n + 1 \notin T
    BY <2>1
  <2> QED
    BY <2>1, <2>2
<1>3. 0..N \subseteq S
  <2> HIDE DEF S
  <2> QED
    BY <1>1, <1>2, UpTo
<1>4. N \in S
  <2> HIDE DEF S
  <2> QED
    BY <1>3
<1>5. PICK i \in T : TRUE
  OBVIOUS
<1>6. N < i /\ i \in 1..N
  BY <1>4, <1>5
<1> QED
  BY <1>6

\* An entry of the table; the table as _active_workflows keeps it.
WorkflowEntry == [task : Tasks, obs : Activation, expires : Nat]

OneEach(tab) == \A i, j \in 1..Len(tab) : tab[i].task = tab[j].task => i = j
ByExpiry(tab) == \A i, j \in 1..Len(tab) : i < j => tab[i].expires <= tab[j].expires
WithinTtl(tab) == \A i \in 1..Len(tab) : tab[i].expires <= lfNow + WorkflowTtl
Ordered(tab) == tab \in Seq(WorkflowEntry) /\ OneEach(tab) /\ ByExpiry(tab) /\ WithinTtl(tab)

\* What is left of a table from some place on, and what went.
LEMMA SuffixOf ==
    ASSUME NEW tab, Ordered(tab), NEW k \in 1..Len(tab)
    PROVE  LET rest == SubSeq(tab, k, Len(tab))
           IN  /\ Ordered(rest) /\ Len(rest) = Len(tab) - k + 1
               /\ ObsIn(rest) \subseteq ObsIn(tab)
<1> DEFINE rest == SubSeq(tab, k, Len(tab))
<1>1. tab \in Seq(WorkflowEntry) /\ Len(tab) \in Nat
  BY DEF Ordered
<1>2. /\ rest \in Seq(WorkflowEntry) /\ Len(rest) = Len(tab) - k + 1
      /\ \A i \in 1..Len(rest) : rest[i] = tab[k + i - 1] /\ k + i - 1 \in 1..Len(tab)
  BY <1>1
<1> HIDE DEF rest
<1>3. Ordered(rest)
  <2>1. OneEach(rest)
    <3> SUFFICES ASSUME NEW i \in 1..Len(rest), NEW j \in 1..Len(rest), rest[i].task = rest[j].task
                 PROVE  i = j
      BY DEF OneEach
    <3>1. PICK p \in 1..Len(tab), q \in 1..Len(tab) :
             p = k + i - 1 /\ q = k + j - 1 /\ tab[p].task = tab[q].task
      BY <1>2
    <3>2. p = q
      BY <3>1 DEF Ordered, OneEach
    <3> QED
      BY <1>1, <1>2, <3>1, <3>2
  <2>2. ByExpiry(rest)
    <3> SUFFICES ASSUME NEW i \in 1..Len(rest), NEW j \in 1..Len(rest), i < j
                 PROVE  rest[i].expires <= rest[j].expires
      BY DEF ByExpiry
    <3>1. k + i - 1 < k + j - 1
      BY <1>1, <1>2
    <3> QED
      BY <1>2, <3>1 DEF Ordered, ByExpiry
  <2>3. WithinTtl(rest)
    BY <1>2 DEF Ordered, WithinTtl
  <2> QED
    BY <1>2, <2>1, <2>2, <2>3 DEF Ordered
<1>4. ObsIn(rest) \subseteq ObsIn(tab)
  BY <1>2 DEF ObsIn
<1> QED
  BY <1>2, <1>3, <1>4 DEF rest

\* What the table holds are observations.
LEMMA ObsTyped ==
    ASSUME NEW tab \in Seq(WorkflowEntry)
    PROVE  ObsIn(tab) \subseteq Activation
<1> SUFFICES ASSUME NEW i \in 1..Len(tab)
             PROVE  tab[i].obs \in Activation
  BY DEF ObsIn
<1>1. tab[i] \in WorkflowEntry
  OBVIOUS
<1> QED
  BY <1>1 DEF WorkflowEntry

LEMMA EmptyOrdered == Ordered(<<>>) /\ Len(<<>>) = 0 /\ ObsIn(<<>>) = {}
  BY DEF Ordered, OneEach, ByExpiry, WithinTtl, ObsIn

\* _expire_active_workflows leaves a suffix.
LEMMA Expired ==
    ASSUME NEW tab, Ordered(tab)
    PROVE  /\ Ordered(ExpireActiveWorkflows(tab))
           /\ Len(ExpireActiveWorkflows(tab)) <= Len(tab)
           /\ ObsIn(ExpireActiveWorkflows(tab)) \subseteq ObsIn(tab)
<1> DEFINE live == {i \in 1..Len(tab) : tab[i].expires > lfNow}
           k == CHOOSE i \in live : \A j \in live : i <= j
<1>1. Len(tab) \in Nat
  BY DEF Ordered
<1>2. CASE live = {}
  BY <1>1, <1>2, EmptyOrdered DEF ExpireActiveWorkflows
<1>3. CASE live # {}
  <2>1. \E i \in live : \A j \in live : i <= j
    <3>1. live \in SUBSET (1..Len(tab))
      OBVIOUS
    <3> HIDE DEF live
    <3> QED
      BY <1>1, <1>3, <3>1, LeastOf
  <2>2. k \in 1..Len(tab)
    BY <2>1
  <2>3. ExpireActiveWorkflows(tab) = SubSeq(tab, k, Len(tab))
    BY <1>3 DEF ExpireActiveWorkflows
  <2> HIDE DEF k, live
  <2> QED
    BY <1>1, <2>2, <2>3, SuffixOf
<1> QED
  BY <1>2, <1>3

\* _evict_active_workflows_if_needed leaves a suffix within the limit.
LEMMA Evicted ==
    ASSUME NEW tab, Ordered(tab), maxWorkflows \in Nat \ {0}
    PROVE  /\ Ordered(EvictActiveWorkflows(tab))
           /\ Len(EvictActiveWorkflows(tab)) <= maxWorkflows
           /\ ObsIn(EvictActiveWorkflows(tab)) \subseteq ObsIn(tab)
<1>1. Len(tab) \in Nat
  BY DEF Ordered
<1>2. CASE Len(tab) > maxWorkflows
  <2>1. PICK k \in 1..Len(tab) : k = Len(tab) - maxWorkflows + 1
    BY <1>1, <1>2
  <2>2. EvictActiveWorkflows(tab) = SubSeq(tab, k, Len(tab))
    BY <1>2, <2>1 DEF EvictActiveWorkflows
  <2> QED
    BY <1>1, <2>1, <2>2, SuffixOf
<1>3. CASE ~(Len(tab) > maxWorkflows)
  BY <1>1, <1>3 DEF EvictActiveWorkflows
<1> QED
  BY <1>2, <1>3

\* pop(key): the others keep their order.
LEMMA Popped ==
    ASSUME NEW tab, Ordered(tab), NEW t \in Tasks
    PROVE  /\ Ordered(Without(tab, t))
           /\ \A i \in 1..Len(Without(tab, t)) : Without(tab, t)[i].task # t
           /\ Place(tab, t) # {} => Len(Without(tab, t)) = Len(tab) - 1
           /\ Place(tab, t) = {} => Without(tab, t) = tab
           /\ ObsIn(tab) \subseteq ObsIn(Without(tab, t)) \cup {TrackedObs(tab, t)}
           /\ ObsIn(Without(tab, t)) \subseteq ObsIn(tab)
           /\ TrackedObs(tab, t) \in ObsIn(tab) \cup {NoObs}
           /\ TrackedObs(tab, t) = NoObs => Place(tab, t) = {}
<1>1. tab \in Seq(WorkflowEntry) /\ Len(tab) \in Nat
  BY DEF Ordered
<1>2. CASE Place(tab, t) = {}
  <2>1. Without(tab, t) = tab /\ TrackedObs(tab, t) = NoObs
    BY <1>2 DEF Without, TrackedObs
  <2> QED
    BY <1>2, <2>1 DEF Place
<1>3. CASE Place(tab, t) # {}
  <2> DEFINE k == CHOOSE i \in Place(tab, t) : TRUE
             rest == SubSeq(tab, 1, k - 1) \o SubSeq(tab, k + 1, Len(tab))
  <2>1. k \in 1..Len(tab) /\ tab[k].task = t
    BY <1>3 DEF Place
  <2>2. Without(tab, t) = rest /\ TrackedObs(tab, t) = tab[k].obs
    BY <1>3 DEF Without, TrackedObs, RemoveAt
  <2> HIDE DEF k
  <2>3. /\ rest \in Seq(WorkflowEntry) /\ Len(rest) = Len(tab) - 1
        /\ \A i \in 1..Len(rest) : rest[i] = IF i < k THEN tab[i] ELSE tab[i + 1]
    <3>1. k \in Nat /\ k - 1 \in 0..Len(tab) /\ k + 1 \in 1..(Len(tab) + 1)
      BY <1>1, <2>1
    <3> DEFINE front == SubSeq(tab, 1, k - 1)
               back  == SubSeq(tab, k + 1, Len(tab))
    <3>a. front \in Seq(WorkflowEntry) /\ Len(front) = k - 1
      BY <1>1, <2>1, <3>1
    <3>b. \A i \in 1..(k - 1) : front[i] = tab[i]
      BY <1>1, <2>1, <3>1
    <3>c. back \in Seq(WorkflowEntry) /\ Len(back) = Len(tab) - k
      BY <1>1, <2>1, <3>1
    <3>d. \A i \in 1..(Len(tab) - k) : back[i] = tab[k + i]
      BY <1>1, <2>1, <3>1
    <3> HIDE DEF front, back
    <3>2. PICK before \in Seq(WorkflowEntry) :
             /\ before = front /\ Len(before) = k - 1
             /\ \A i \in 1..(k - 1) : before[i] = tab[i]
      BY <3>a, <3>b
    <3>3. PICK behind \in Seq(WorkflowEntry) :
             /\ behind = back /\ Len(behind) = Len(tab) - k
             /\ \A i \in 1..(Len(tab) - k) : behind[i] = tab[k + i]
      BY <3>c, <3>d
    <3>4. rest = before \o behind
      BY <3>2, <3>3 DEF front, back
    <3> HIDE DEF rest
    <3>5. /\ rest \in Seq(WorkflowEntry) /\ Len(rest) = Len(before) + Len(behind)
          /\ \A i \in 1..Len(rest) :
                rest[i] = IF i <= Len(before) THEN before[i] ELSE behind[i - Len(before)]
      BY <3>4, ConcatProperties
    <3>6. Len(rest) = Len(tab) - 1
      BY <1>1, <3>1, <3>2, <3>3, <3>5
    <3>7. ASSUME NEW i \in 1..Len(rest)
          PROVE  rest[i] = IF i < k THEN tab[i] ELSE tab[i + 1]
      <4>1. CASE i < k
        <5>1. i \in 1..(k - 1) /\ i <= Len(before)
          BY <1>1, <3>1, <3>2, <3>6, <4>1
        <5> QED
          BY <3>2, <3>5, <4>1, <5>1
      <4>2. CASE ~(i < k)
        <5>1. i - Len(before) \in 1..(Len(tab) - k) /\ k + (i - Len(before)) = i + 1
              /\ ~(i <= Len(before))
          BY <1>1, <3>1, <3>2, <3>6, <4>2
        <5> QED
          BY <3>3, <3>5, <4>2, <5>1
      <4> QED
        BY <4>1, <4>2
    <3> QED
      BY <3>5, <3>6, <3>7
  <2> HIDE DEF rest
  <2> DEFINE old(i) == IF i < k THEN i ELSE i + 1
  <2>4. \A i \in 1..Len(rest) : /\ old(i) \in 1..Len(tab) /\ old(i) # k
                                /\ rest[i] = tab[old(i)]
    BY <1>1, <2>1, <2>3
  <2>5. \A i, j \in 1..Len(rest) : (i < j => old(i) < old(j)) /\ (old(i) = old(j) => i = j)
    BY <1>1, <2>1, <2>3
  <2>6. \A j \in 1..Len(tab) : j # k => \E i \in 1..Len(rest) : old(i) = j
    <3> SUFFICES ASSUME NEW j \in 1..Len(tab), j # k
                 PROVE  \E i \in 1..Len(rest) : old(i) = j
      OBVIOUS
    <3>1. CASE j < k
      <4>1. j \in 1..Len(rest) /\ old(j) = j
        BY <1>1, <2>1, <2>3, <3>1
      <4> HIDE DEF old
      <4> QED
        BY <4>1
    <3>2. CASE j > k
      <4>1. j - 1 \in 1..Len(rest) /\ old(j - 1) = j
        BY <1>1, <2>1, <2>3, <3>2
      <4> HIDE DEF old
      <4> QED
        BY <4>1
    <3> QED
      BY <1>1, <2>1, <3>1, <3>2
  <2> HIDE DEF old
  <2>7. Ordered(rest)
    <3>1. OneEach(rest)
      BY <2>4, <2>5 DEF Ordered, OneEach
    <3>2. ByExpiry(rest)
      BY <2>4, <2>5 DEF Ordered, ByExpiry
    <3>3. WithinTtl(rest)
      BY <2>4 DEF Ordered, WithinTtl
    <3> QED
      BY <2>3, <3>1, <3>2, <3>3 DEF Ordered
  <2>8. \A i \in 1..Len(rest) : rest[i].task # t
    BY <2>1, <2>4 DEF Ordered, OneEach
  <2>9. ObsIn(rest) \subseteq ObsIn(tab) /\ tab[k].obs \in ObsIn(tab)
    BY <2>1, <2>4 DEF ObsIn
  <2>10. ObsIn(tab) \subseteq ObsIn(rest) \cup {tab[k].obs}
    <3> SUFFICES ASSUME NEW j \in 1..Len(tab), tab[j].obs # tab[k].obs
                 PROVE  tab[j].obs \in ObsIn(rest)
      BY DEF ObsIn
    <3>1. PICK i \in 1..Len(rest) : old(i) = j
      BY <2>6
    <3> QED
      BY <2>4, <3>1 DEF ObsIn
  <2>11. tab[k].obs # NoObs
    <3>1. tab[k] \in WorkflowEntry
      BY <1>1, <2>1
    <3>2. tab[k].obs \in Activation
      BY <3>1 DEF WorkflowEntry
    <3> QED
      BY <3>2, LangfuseAssumption
  <2> QED
    BY <1>3, <2>2, <2>3, <2>7, <2>8, <2>9, <2>10, <2>11
<1> QED
  BY <1>2, <1>3

\* _track_active_workflow: the entry moves to the tail, or enters there.
LEMMA Tracked ==
    ASSUME NEW tab, Ordered(tab), NEW t \in Tasks, NEW o \in Activation, lfNow \in Nat
    PROVE  LET after == TrackActiveWorkflow(tab, t, o)
           IN  /\ Ordered(after)
               /\ Len(after) = Len(tab) + (IF TrackedObs(tab, t) = NoObs THEN 1 ELSE 0)
               /\ ObsIn(after) = ObsIn(Without(tab, t)) \cup {o}
               /\ ObsIn(tab) \subseteq ObsIn(after) \cup {TrackedObs(tab, t)}
<1> DEFINE rest == Without(tab, t)
           entry == [task |-> t, obs |-> o, expires |-> lfNow + WorkflowTtl]
           after == TrackActiveWorkflow(tab, t, o)
<1>1. /\ Ordered(rest) /\ \A i \in 1..Len(rest) : rest[i].task # t
      /\ Place(tab, t) # {} => Len(rest) = Len(tab) - 1
      /\ Place(tab, t) = {} => rest = tab
      /\ ObsIn(tab) \subseteq ObsIn(rest) \cup {TrackedObs(tab, t)}
      /\ TrackedObs(tab, t) = NoObs => Place(tab, t) = {}
      /\ Place(tab, t) = {} => TrackedObs(tab, t) = NoObs
  BY Popped DEF TrackedObs
<1>2. after = Append(rest, entry)
  BY DEF TrackActiveWorkflow
<1>3. entry \in WorkflowEntry /\ lfNow + WorkflowTtl \in Nat
  BY LangfuseAssumption DEF WorkflowEntry
<1>4. entry.task = t /\ entry.obs = o /\ entry.expires = lfNow + WorkflowTtl
  OBVIOUS
<1> HIDE DEF entry, rest, after
<1>5. /\ rest \in Seq(WorkflowEntry) /\ Len(rest) \in Nat /\ Len(tab) \in Nat
      /\ after \in Seq(WorkflowEntry) /\ Len(after) = Len(rest) + 1
      /\ after[Len(rest) + 1] = entry /\ \A i \in 1..Len(rest) : after[i] = rest[i]
  BY <1>1, <1>2, <1>3, AppendProperties DEF Ordered
<1>6. \A i \in 1..Len(after) : i \in 1..Len(rest) \/ i = Len(rest) + 1
  BY <1>5
<1>7. Ordered(after)
  <2>1. OneEach(after)
    BY <1>1, <1>4, <1>5, <1>6 DEF Ordered, OneEach
  <2>2. ByExpiry(after)
    <3> SUFFICES ASSUME NEW i \in 1..Len(after), NEW j \in 1..Len(after), i < j
                 PROVE  after[i].expires <= after[j].expires
      BY DEF ByExpiry
    <3>1. i \in 1..Len(rest)
      BY <1>5
    <3>2. CASE j \in 1..Len(rest)
      BY <1>1, <1>5, <3>1, <3>2 DEF Ordered, ByExpiry
    <3>3. CASE j = Len(rest) + 1
      BY <1>1, <1>4, <1>5, <3>1, <3>3 DEF Ordered, WithinTtl
    <3> QED
      BY <1>6, <3>2, <3>3
  <2>3. WithinTtl(after)
    BY <1>1, <1>3, <1>4, <1>5, <1>6 DEF Ordered, WithinTtl
  <2> QED
    BY <1>5, <2>1, <2>2, <2>3 DEF Ordered
<1>8. ObsIn(after) = ObsIn(rest) \cup {o}
  <2>1. Len(rest) + 1 \in 1..Len(after) /\ \A i \in 1..Len(rest) : i \in 1..Len(after)
    BY <1>5
  <2> QED
    BY <1>4, <1>5, <1>6, <2>1 DEF ObsIn
<1>9. Len(after) = Len(tab) + (IF TrackedObs(tab, t) = NoObs THEN 1 ELSE 0)
  <2>1. CASE Place(tab, t) = {}
    BY <1>1, <1>5, <2>1
  <2>2. CASE Place(tab, t) # {}
    BY <1>1, <1>5, <2>2
  <2> QED
    BY <2>1, <2>2
<1> QED
  BY <1>1, <1>7, <1>8, <1>9 DEF after, rest

WorkflowStates == {"none", "open", "completed", "discarded"}

\* What can still end a workflow observation: its entry, or nothing.
EveryOpenIsHeld ==
    \A o \in Activation : workflow[o] = "open" => o \in ObsIn(table) \cup displaced

\* The inductive invariant of LangfuseWorkflows.
WorkflowsOK ==
    /\ LangfuseTypeOK
    /\ Ordered(table)
    /\ Len(table) <= maxWorkflows
    /\ IsFiniteSet(uploads)
    /\ Cardinality(uploads) <= MaxPending
    /\ EveryOpenIsHeld

\* The numbers it speaks of.
LEMMA Numbers ==
    ASSUME WorkflowsOK
    PROVE  /\ lfNow \in Nat /\ maxWorkflows \in Nat \ {0} /\ MaxPending \in Nat
           /\ Len(table) \in Nat /\ Cardinality(uploads) \in Nat
  BY LangfuseAssumption, FS_CardinalityType DEF WorkflowsOK, LangfuseTypeOK, Ordered

\* What a hook may do to the plugin's state without spoiling it.
LEMMA OneHook ==
    ASSUME WorkflowsOK, NEW tab, NEW held,
           Ordered(tab), Len(tab) <= maxWorkflows, table' = tab,
           maxWorkflows' = maxWorkflows, lfNow' \in 0..Horizon, lfNow <= lfNow',
           phase' \in [Activation -> {"idle", "resolving", "running", "cancelled", "done"}],
           workflow' \in [Activation -> WorkflowStates],
           displaced' \subseteq Activation,
           ctxWorkflow' \in [Activation -> Activation \cup {NoObs}],
           traced' \subseteq Activation, suspended' \subseteq Activation,
           lfStage' \in {"up", "flushing", "down"},
           uploads' = held, held \subseteq Activation, IsFiniteSet(held),
           Cardinality(held) <= MaxPending,
           \A o \in Activation : workflow'[o] = "open" => o \in ObsIn(tab) \cup displaced'
    PROVE  WorkflowsOK'
<1>1. tab \in Seq(WorkflowEntry)
  BY DEF Ordered
<1>2. LangfuseTypeOK'
  BY <1>1, Numbers DEF WorkflowsOK, LangfuseTypeOK, WorkflowEntry, WorkflowStates
<1>3. Ordered(table)'
  <2>1. OneEach(table)' /\ ByExpiry(table)' /\ table' \in Seq(WorkflowEntry)
    BY <1>1 DEF Ordered, OneEach, ByExpiry
  <2>2. WithinTtl(table)'
    <3>1. lfNow \in Nat /\ lfNow' \in Nat /\ WorkflowTtl \in Nat
      BY LangfuseAssumption, Numbers
    <3> SUFFICES ASSUME NEW i \in 1..Len(tab)
                 PROVE  tab[i].expires <= lfNow' + WorkflowTtl
      BY DEF WithinTtl
    <3>2. tab[i] \in WorkflowEntry
      BY <1>1
    <3>3. tab[i].expires \in Nat
      BY <3>2 DEF WorkflowEntry
    <3>4. tab[i].expires <= lfNow + WorkflowTtl
      BY DEF Ordered, WithinTtl
    <3> QED
      BY <3>1, <3>3, <3>4
  <2> QED
    BY <2>1, <2>2 DEF Ordered
<1>4. EveryOpenIsHeld'
  BY DEF EveryOpenIsHeld, ObsIn
<1> QED
  BY <1>2, <1>3, <1>4 DEF WorkflowsOK

\* _finish_workflow closes what left the table and opens nothing.
LEMMA Finished ==
    ASSUME NEW wf \in [Activation -> WorkflowStates], NEW gone
    PROVE  /\ Finish(wf, gone) \in [Activation -> WorkflowStates]
           /\ \A o \in Activation :
                 Finish(wf, gone)[o] = "open" => wf[o] = "open" /\ o \notin gone
  BY DEF Finish, WorkflowStates

\* _update_trace_output sheds before the set is over its limit.
LEMMA UploadsBounded ==
    ASSUME WorkflowsOK, NEW a \in Activation
    PROVE  \A held \in {uploads, UpdateTraceOutput(a)} :
              held \subseteq Activation /\ IsFiniteSet(held) /\ Cardinality(held) <= MaxPending
<1>1. uploads \subseteq Activation /\ IsFiniteSet(uploads) /\ Cardinality(uploads) <= MaxPending
  BY DEF WorkflowsOK, LangfuseTypeOK
<1>2. CASE Cardinality(uploads) >= MaxPending
  BY <1>1, <1>2 DEF UpdateTraceOutput
<1>3. CASE ~(Cardinality(uploads) >= MaxPending)
  <2>1. UpdateTraceOutput(a) = uploads \cup {a}
    BY <1>3 DEF UpdateTraceOutput
  <2>2. IsFiniteSet(uploads \cup {a}) /\ Cardinality(uploads \cup {a}) <= Cardinality(uploads) + 1
    BY <1>1, Numbers, FS_AddElement
  <2>3. Cardinality(uploads \cup {a}) \in Nat
    BY <2>2, FS_CardinalityType
  <2>4. Cardinality(uploads \cup {a}) <= MaxPending
    BY <1>3, <2>2, <2>3, Numbers
  <2> QED
    BY <1>1, <2>1, <2>2, <2>4
<1> QED
  BY <1>2, <1>3

LEMMA StartOk ==
    ASSUME WorkflowsOK, NEW a \in Activation, NEW obs \in Activation, NEW raises \in BOOLEAN,
           SegmentsStart(a, obs, raises)
    PROVE  ctxWorkflow' \in [Activation -> Activation \cup {NoObs}] /\ traced' \subseteq Activation
  BY DEF WorkflowsOK, LangfuseTypeOK, SegmentsStart

LEMMA ReturnsOk ==
    ASSUME WorkflowsOK, NEW a \in Activation, Returns(a)
    PROVE  /\ ctxWorkflow' \in [Activation -> Activation \cup {NoObs}]
           /\ traced' \subseteq Activation
           /\ phase' \in [Activation -> {"idle", "resolving", "running", "cancelled", "done"}]
  BY DEF WorkflowsOK, LangfuseTypeOK, Returns

\* on_task_start, the head of the table expired first.
LEMMA HeadExpired ==
    ASSUME WorkflowsOK, NEW wf,
           wf = Finish(workflow, ObsIn(table) \ ObsIn(ExpireActiveWorkflows(table)))
    PROVE  /\ Ordered(ExpireActiveWorkflows(table))
           /\ Len(ExpireActiveWorkflows(table)) \in Nat
           /\ Len(ExpireActiveWorkflows(table)) <= maxWorkflows
           /\ wf \in [Activation -> WorkflowStates]
           /\ \A o \in Activation :
                 wf[o] = "open" => o \in ObsIn(ExpireActiveWorkflows(table)) \cup displaced
<1>1. PICK tab \in Seq(WorkflowEntry) :
         /\ tab = ExpireActiveWorkflows(table) /\ Ordered(tab)
         /\ Len(tab) <= Len(table) /\ ObsIn(tab) \subseteq ObsIn(table)
  BY Expired DEF WorkflowsOK, Ordered
<1>2. Len(tab) <= maxWorkflows
  BY <1>1, Numbers DEF WorkflowsOK
<1>3. PICK before \in [Activation -> WorkflowStates] : before = workflow
  BY DEF WorkflowsOK, LangfuseTypeOK, WorkflowStates
<1>4. /\ wf \in [Activation -> WorkflowStates]
      /\ \A o \in Activation :
            wf[o] = "open" => workflow[o] = "open" /\ o \notin ObsIn(table) \ ObsIn(tab)
  BY <1>1, <1>3, Finished
<1>5. \A o \in Activation : wf[o] = "open" => o \in ObsIn(tab) \cup displaced
  BY <1>4 DEF WorkflowsOK, EveryOpenIsHeld
<1>6. Len(tab) \in Nat
  BY <1>1
<1> QED
  BY <1>1, <1>2, <1>4, <1>5, <1>6

\* The task has a tracked workflow.
LEMMA StartsTracked ==
    ASSUME WorkflowsOK, NEW a \in Activation, NEW raises \in BOOLEAN, TaskStartsTracked(a, raises)
    PROVE  WorkflowsOK'
<1>1. PICK tab \in Seq(WorkflowEntry) :
         /\ tab = ExpireActiveWorkflows(table) /\ Ordered(tab)
         /\ Len(tab) <= maxWorkflows
         /\ workflow' \in [Activation -> WorkflowStates]
         /\ \A o \in Activation : workflow'[o] = "open" => o \in ObsIn(tab) \cup displaced
  BY HeadExpired DEF TaskStartsTracked, Ordered
<1>2. PICK t \in Tasks : t = TaskOf[a]
  BY DEF Tasks
<1>3. PICK obs \in Activation : obs = TrackedObs(tab, t)
  <2>1. TrackedObs(tab, t) # NoObs
    BY <1>1, <1>2 DEF TaskStartsTracked
  <2>2. TrackedObs(tab, t) \in ObsIn(tab)
    BY <1>1, <2>1, Popped
  <2>3. ObsIn(tab) \subseteq Activation
    BY <1>1, ObsTyped
  <2> QED
    BY <2>2, <2>3
<1>4. PICK after : after = TrackActiveWorkflow(tab, t, obs)
  OBVIOUS
<1>5. obs # NoObs
  BY <1>3, LangfuseAssumption
<1>6. /\ Ordered(after) /\ Len(after) = Len(tab) + (IF obs = NoObs THEN 1 ELSE 0)
      /\ ObsIn(after) = ObsIn(Without(tab, t)) \cup {obs}
      /\ ObsIn(tab) \subseteq ObsIn(after) \cup {obs}
  BY <1>1, <1>3, <1>4, Tracked, Numbers
<1>7. Len(after) <= maxWorkflows
  BY <1>1, <1>5, <1>6
<1>8. /\ table' = after /\ SegmentsStart(a, obs, raises)
      /\ phase' = [phase EXCEPT ![a] = "running"]
      /\ UNCHANGED <<maxWorkflows, lfNow, displaced, suspended, uploads, lfStage>>
  BY <1>1, <1>2, <1>3, <1>4 DEF TaskStartsTracked
<1>9. ctxWorkflow' \in [Activation -> Activation \cup {NoObs}] /\ traced' \subseteq Activation
  BY <1>8, StartOk
<1>10. \A o \in Activation : workflow'[o] = "open" => o \in ObsIn(after) \cup displaced'
  BY <1>1, <1>6, <1>8
<1>11. /\ phase' \in [Activation -> {"idle", "resolving", "running", "cancelled", "done"}]
       /\ displaced' \subseteq Activation /\ suspended' \subseteq Activation
       /\ lfStage' \in {"up", "flushing", "down"} /\ lfNow' \in 0..Horizon
  BY <1>8 DEF WorkflowsOK, LangfuseTypeOK
<1>12. PICK held \in {uploads} : held = uploads'
  BY <1>8
<1>13. lfNow <= lfNow' /\ held \subseteq Activation /\ IsFiniteSet(held)
       /\ Cardinality(held) <= MaxPending
  BY <1>8, <1>12, Numbers, UploadsBounded
<1> QED
  BY <1>1, <1>6, <1>7, <1>8, <1>9, <1>10, <1>11, <1>12, <1>13, OneHook

\* It has none: the hook goes to look its parent up.
LEMMA StartsUntracked ==
    ASSUME WorkflowsOK, NEW a \in Activation, TaskStartsUntracked(a)
    PROVE  WorkflowsOK'
<1>1. PICK tab \in Seq(WorkflowEntry) :
         /\ tab = ExpireActiveWorkflows(table) /\ Ordered(tab)
         /\ Len(tab) <= maxWorkflows
         /\ workflow' \in [Activation -> WorkflowStates]
         /\ \A o \in Activation : workflow'[o] = "open" => o \in ObsIn(tab) \cup displaced
  BY HeadExpired DEF TaskStartsUntracked, Ordered
<1>2. /\ table' = tab /\ phase' = [phase EXCEPT ![a] = "resolving"]
      /\ UNCHANGED <<maxWorkflows, lfNow, displaced, ctxWorkflow, traced, suspended, uploads,
                     lfStage>>
  BY <1>1 DEF TaskStartsUntracked
<1>3. /\ phase' \in [Activation -> {"idle", "resolving", "running", "cancelled", "done"}]
      /\ displaced' \subseteq Activation /\ suspended' \subseteq Activation
      /\ ctxWorkflow' \in [Activation -> Activation \cup {NoObs}] /\ traced' \subseteq Activation
      /\ lfStage' \in {"up", "flushing", "down"} /\ lfNow' \in 0..Horizon
  BY <1>2 DEF WorkflowsOK, LangfuseTypeOK
<1>4. PICK held \in {uploads} : held = uploads'
  BY <1>2
<1>5. lfNow <= lfNow' /\ held \subseteq Activation /\ IsFiniteSet(held)
      /\ Cardinality(held) <= MaxPending
  BY <1>2, <1>4, Numbers, UploadsBounded
<1> QED
  BY <1>1, <1>2, <1>3, <1>4, <1>5, OneHook

\* The observation enters over whatever the task has by now: what it replaces is
\* remembered, what the limit sheds is discarded.
LEMMA StartsResolved ==
    ASSUME WorkflowsOK, NEW a \in Activation, NEW raises \in BOOLEAN, ParentResolved(a, raises)
    PROVE  WorkflowsOK'
<1>1. PICK t \in Tasks : t = TaskOf[a]
  BY DEF Tasks
<1>2. PICK tab \in Seq(WorkflowEntry) : tab = table /\ Ordered(tab)
  BY DEF WorkflowsOK, Ordered
<1>3. PICK tracked \in Seq(WorkflowEntry) :
         /\ tracked = TrackActiveWorkflow(tab, t, a) /\ Ordered(tracked)
         /\ ObsIn(tracked) = ObsIn(Without(tab, t)) \cup {a}
  <2>1. PICK tracked : tracked = TrackActiveWorkflow(tab, t, a)
    OBVIOUS
  <2>2. Ordered(tracked) /\ ObsIn(tracked) = ObsIn(Without(tab, t)) \cup {a}
    BY <1>2, <2>1, Tracked, Numbers
  <2> QED
    BY <2>1, <2>2 DEF Ordered
<1>4. PICK kept \in Seq(WorkflowEntry) :
         /\ kept = EvictActiveWorkflows(tracked) /\ Ordered(kept)
         /\ Len(kept) <= maxWorkflows /\ ObsIn(kept) \subseteq ObsIn(tracked)
  BY <1>3, Evicted, Numbers DEF Ordered
<1>5. /\ table' = kept /\ phase' = [phase EXCEPT ![a] = "running"]
      /\ workflow' = [Finish(workflow, ObsIn(tracked) \ ObsIn(kept)) EXCEPT ![a] =
                         IF a \in ObsIn(kept) THEN "open" ELSE "discarded"]
      /\ displaced' = displaced \cup (ObsIn(tab) \ ObsIn(tracked))
      /\ SegmentsStart(a, a, raises)
      /\ UNCHANGED <<maxWorkflows, lfNow, suspended, uploads, lfStage>>
  BY <1>1, <1>2, <1>3, <1>4 DEF ParentResolved
<1>6. PICK before \in [Activation -> WorkflowStates] : before = workflow
  BY DEF WorkflowsOK, LangfuseTypeOK, WorkflowStates
<1>7. PICK wf \in [Activation -> WorkflowStates] :
         /\ wf = Finish(before, ObsIn(tracked) \ ObsIn(kept))
         /\ \A o \in Activation :
               wf[o] = "open" => before[o] = "open" /\ o \notin ObsIn(tracked) \ ObsIn(kept)
  BY Finished
<1>8. workflow' = [wf EXCEPT ![a] = IF a \in ObsIn(kept) THEN "open" ELSE "discarded"]
  BY <1>5, <1>6, <1>7
<1>9. workflow' \in [Activation -> WorkflowStates]
  BY <1>8 DEF WorkflowStates
<1>10. ObsIn(tab) \subseteq Activation
  BY ObsTyped
<1>11. \A o \in Activation : workflow'[o] = "open" => o \in ObsIn(kept) \cup displaced'
  <2> SUFFICES ASSUME NEW o \in Activation, workflow'[o] = "open"
               PROVE  o \in ObsIn(kept) \cup displaced'
    OBVIOUS
  <2>1. CASE o = a
    BY <1>7, <1>8, <2>1
  <2>2. CASE o # a
    <3>1. wf[o] = "open"
      BY <1>7, <1>8, <2>2
    <3>2. before[o] = "open" /\ o \notin ObsIn(tracked) \ ObsIn(kept)
      BY <1>7, <3>1
    <3>3. o \in ObsIn(tab) \cup displaced
      BY <1>2, <1>6, <3>2 DEF WorkflowsOK, EveryOpenIsHeld
    <3> QED
      BY <1>5, <3>2, <3>3
  <2> QED
    BY <2>1, <2>2
<1>12. ctxWorkflow' \in [Activation -> Activation \cup {NoObs}] /\ traced' \subseteq Activation
  BY <1>5, StartOk
<1>13. /\ phase' \in [Activation -> {"idle", "resolving", "running", "cancelled", "done"}]
       /\ displaced' \subseteq Activation /\ suspended' \subseteq Activation
       /\ lfStage' \in {"up", "flushing", "down"} /\ lfNow' \in 0..Horizon
  BY <1>5, <1>10 DEF WorkflowsOK, LangfuseTypeOK
<1>14. PICK held \in {uploads} : held = uploads'
  BY <1>5
<1>15. lfNow <= lfNow' /\ held \subseteq Activation /\ IsFiniteSet(held)
       /\ Cardinality(held) <= MaxPending
  BY <1>5, <1>14, Numbers, UploadsBounded
<1> QED
  BY <1>4, <1>5, <1>9, <1>11, <1>12, <1>13, <1>14, <1>15, OneHook

\* _end_workflow_observation takes the entry out only with the observation it ends.
LEMMA EndedInOrder ==
    ASSUME WorkflowsOK, NEW a \in Activation, WorkflowEnds(a)
    PROVE  \E tab \in Seq(WorkflowEntry) :
              /\ table' = tab /\ Ordered(tab) /\ Len(tab) <= maxWorkflows
              /\ workflow' \in [Activation -> WorkflowStates]
              /\ \A o \in Activation : workflow'[o] = "open" => o \in ObsIn(tab) \cup displaced
<1>1. PICK t \in Tasks : t = TaskOf[a]
  BY DEF Tasks
<1>2. PICK tab \in Seq(WorkflowEntry) : tab = table /\ Ordered(tab) /\ Len(tab) <= maxWorkflows
  BY DEF WorkflowsOK, Ordered
<1>3. PICK target : target = EndTarget(a)
  OBVIOUS
<1>4. /\ workflow' = [o \in Activation |-> IF o = target /\ workflow[o] = "open"
                                           THEN "completed" ELSE workflow[o]]
      /\ table' = IF target # NoObs /\ TrackedObs(tab, t) = target
                  THEN Without(tab, t) ELSE tab
  BY <1>1, <1>2, <1>3 DEF WorkflowEnds
<1>5. workflow \in [Activation -> WorkflowStates]
  BY DEF WorkflowsOK, LangfuseTypeOK, WorkflowStates
<1>6. workflow' \in [Activation -> WorkflowStates]
  BY <1>4, <1>5 DEF WorkflowStates
<1>7. \A o \in Activation :
         workflow'[o] = "open" => o # target /\ o \in ObsIn(tab) \cup displaced
  BY <1>2, <1>4 DEF WorkflowsOK, EveryOpenIsHeld
<1>8. CASE target # NoObs /\ TrackedObs(tab, t) = target
  <2>1. PICK rest : rest = Without(tab, t)
    OBVIOUS
  <2>2. /\ Ordered(rest) /\ ObsIn(tab) \subseteq ObsIn(rest) \cup {target}
        /\ (Len(rest) = Len(tab) - 1 \/ rest = tab)
    BY <1>2, <1>8, <2>1, Popped
  <2>3. Len(rest) <= maxWorkflows
    BY <1>2, <2>2, Numbers
  <2>4. table' = rest /\ rest \in Seq(WorkflowEntry)
    BY <1>4, <1>8, <2>1, <2>2 DEF Ordered
  <2> QED
    BY <1>6, <1>7, <2>2, <2>3, <2>4
<1>9. CASE ~(target # NoObs /\ TrackedObs(tab, t) = target)
  BY <1>2, <1>4, <1>6, <1>7, <1>9
<1> QED
  BY <1>8, <1>9

\* A hook at the end of an activation: the table as it was, or as the end of a
\* workflow leaves it.
LEMMA EndHook ==
    ASSUME WorkflowsOK, NEW a \in Activation, Returns(a),
           WorkflowEnds(a) \/ UNCHANGED <<workflow, table>>,
           uploads' \in {uploads, UpdateTraceOutput(a)},
           suspended' \in {suspended, suspended \cup {a}},
           UNCHANGED <<maxWorkflows, lfNow, displaced, lfStage>>
    PROVE  WorkflowsOK'
<1>1. PICK tab \in Seq(WorkflowEntry) :
         /\ table' = tab /\ Ordered(tab) /\ Len(tab) <= maxWorkflows
         /\ workflow' \in [Activation -> WorkflowStates]
         /\ \A o \in Activation : workflow'[o] = "open" => o \in ObsIn(tab) \cup displaced
  <2>1. CASE WorkflowEnds(a)
    BY <2>1, EndedInOrder
  <2>2. CASE UNCHANGED <<workflow, table>>
    BY <2>2 DEF WorkflowsOK, LangfuseTypeOK, Ordered, EveryOpenIsHeld, WorkflowStates
  <2> QED
    BY <2>1, <2>2
<1>2. PICK held \in {uploads, UpdateTraceOutput(a)} : held = uploads'
  OBVIOUS
<1>3. held \subseteq Activation /\ IsFiniteSet(held) /\ Cardinality(held) <= MaxPending
  BY UploadsBounded
<1>4. /\ displaced' \subseteq Activation /\ suspended' \subseteq Activation
      /\ lfStage' \in {"up", "flushing", "down"} /\ lfNow' \in 0..Horizon
  BY DEF WorkflowsOK, LangfuseTypeOK
<1>5. lfNow <= lfNow'
  BY Numbers
<1>6. /\ ctxWorkflow' \in [Activation -> Activation \cup {NoObs}]
      /\ traced' \subseteq Activation
      /\ phase' \in [Activation -> {"idle", "resolving", "running", "cancelled", "done"}]
  BY ReturnsOk
<1> QED
  BY <1>1, <1>2, <1>3, <1>4, <1>5, <1>6, OneHook

\* A step that leaves the table and its observations alone.
LEMMA OtherStep ==
    ASSUME WorkflowsOK,
           phase' \in [Activation -> {"idle", "resolving", "running", "cancelled", "done"}],
           uploads' \subseteq uploads, lfStage' \in {"up", "flushing", "down"},
           lfNow' \in 0..Horizon, lfNow <= lfNow',
           UNCHANGED <<maxWorkflows, table, workflow, displaced, ctxWorkflow, traced, suspended>>
    PROVE  WorkflowsOK'
<1>1. PICK tab \in Seq(WorkflowEntry) : tab = table /\ Ordered(tab) /\ Len(tab) <= maxWorkflows
  BY DEF WorkflowsOK, Ordered
<1>2. PICK held \in SUBSET uploads : held = uploads'
  OBVIOUS
<1>3. held \subseteq Activation /\ IsFiniteSet(held) /\ Cardinality(held) <= MaxPending
  <2>1. IsFiniteSet(held) /\ Cardinality(held) <= Cardinality(uploads)
    BY <1>2, FS_Subset DEF WorkflowsOK
  <2>2. Cardinality(held) \in Nat
    BY <2>1, FS_CardinalityType
  <2> QED
    BY <2>1, <2>2, Numbers DEF WorkflowsOK, LangfuseTypeOK
<1>4. /\ displaced' \subseteq Activation /\ suspended' \subseteq Activation
      /\ workflow' \in [Activation -> WorkflowStates]
      /\ ctxWorkflow' \in [Activation -> Activation \cup {NoObs}]
      /\ traced' \subseteq Activation
  BY DEF WorkflowsOK, LangfuseTypeOK, WorkflowStates
<1>5. \A o \in Activation : workflow'[o] = "open" => o \in ObsIn(tab) \cup displaced'
  BY <1>1 DEF WorkflowsOK, EveryOpenIsHeld
<1> QED
  BY <1>1, <1>2, <1>3, <1>4, <1>5, OneHook

\* Each hook, upload and tick preserves the invariant.
LEMMA LangfuseStep ==
    ASSUME WorkflowsOK, [LangfuseNext]_langfuseVars
    PROVE  WorkflowsOK'
<1>0. /\ lfNow \in 0..Horizon /\ lfNow <= lfNow /\ lfStage \in {"up", "flushing", "down"}
      /\ phase \in [Activation -> {"idle", "resolving", "running", "cancelled", "done"}]
  BY Numbers DEF WorkflowsOK, LangfuseTypeOK
<1>1. ASSUME NEW a \in Activation, StartHookFails(a) \/ TaskCancelled(a)
      PROVE  WorkflowsOK'
  <2>1. phase' \in [Activation -> {"idle", "resolving", "running", "cancelled", "done"}]
    BY <1>0, <1>1 DEF StartHookFails, TaskCancelled
  <2>2. UNCHANGED <<maxWorkflows, lfNow, table, workflow, displaced, ctxWorkflow, traced,
                    suspended, uploads, lfStage>>
    BY <1>1 DEF StartHookFails, TaskCancelled
  <2> QED
    BY <1>0, <2>1, <2>2, OtherStep
<1>2. ASSUME NEW a \in Activation, UploadEnds(a)
      PROVE  WorkflowsOK'
  BY <1>0, <1>2, OtherStep DEF UploadEnds
<1>3. ASSUME NEW a \in Activation, NEW result, TaskCompletes(a, result)
      PROVE  WorkflowsOK'
  <2>1. WorkflowEnds(a) \/ UNCHANGED <<workflow, table>>
    BY <1>3 DEF TaskCompletes
  <2>2. /\ Returns(a) /\ uploads' \in {uploads, UpdateTraceOutput(a)}
        /\ suspended' \in {suspended, suspended \cup {a}}
        /\ UNCHANGED <<maxWorkflows, lfNow, displaced, lfStage>>
    BY <1>3 DEF TaskCompletes
  <2> QED
    BY <2>1, <2>2, EndHook
<1>4. ASSUME NEW a \in Activation, TaskErrors(a) \/ CancelHookRuns(a)
      PROVE  WorkflowsOK'
  <2>1. /\ Returns(a) /\ WorkflowEnds(a) /\ uploads' \in {uploads, UpdateTraceOutput(a)}
        /\ suspended' = suspended
        /\ UNCHANGED <<maxWorkflows, lfNow, displaced, lfStage>>
    BY <1>4 DEF TaskErrors, CancelHookRuns
  <2> QED
    BY <2>1, EndHook
<1>5. ASSUME NEW a \in Activation, GroupReturnsEarly(a)
      PROVE  WorkflowsOK'
  BY <1>5, EndHook DEF GroupReturnsEarly
<1>6. CASE FlushBegins
  BY <1>0, <1>6, OtherStep DEF FlushBegins
<1>7. CASE FlushEnds
  BY <1>0, <1>7, OtherStep DEF FlushEnds
<1>8. CASE LangfuseTick
  <2>1. lfNow' \in 0..Horizon /\ lfNow <= lfNow'
    BY <1>0, <1>8, LangfuseAssumption DEF LangfuseTick
  <2> QED
    BY <1>0, <1>8, <2>1, OtherStep DEF LangfuseTick
<1>9. CASE UNCHANGED langfuseVars
  BY <1>0, <1>9, OtherStep DEF langfuseVars
<1> QED
  BY <1>1, <1>2, <1>3, <1>4, <1>5, <1>6, <1>7, <1>8, <1>9,
     StartsTracked, StartsUntracked, StartsResolved DEF LangfuseNext

LEMMA LangfuseStart ==
    ASSUME LangfuseInit
    PROVE  WorkflowsOK
<1>1. LangfuseTypeOK
  BY LangfuseAssumption DEF LangfuseInit, LangfuseTypeOK
<1>2. Ordered(table) /\ Len(table) = 0
  BY EmptyOrdered DEF LangfuseInit
<1>3. IsFiniteSet(uploads) /\ Cardinality(uploads) = 0
  BY FS_EmptySet DEF LangfuseInit
<1>4. Len(table) <= maxWorkflows /\ Cardinality(uploads) <= MaxPending
  BY <1>2, <1>3, LangfuseAssumption DEF LangfuseInit
<1>5. EveryOpenIsHeld
  BY DEF LangfuseInit, EveryOpenIsHeld
<1> QED
  BY <1>1, <1>2, <1>3, <1>4, <1>5 DEF WorkflowsOK

\* In every reachable state the table is within its limit and in order, and an open
\* workflow observation is in it or was replaced there (langfuse.py).
THEOREM LangfuseInvariant == LangfuseSpec => []WorkflowsOK
<1>1. LangfuseInit => WorkflowsOK
  BY LangfuseStart
<1>2. WorkflowsOK /\ [LangfuseNext]_langfuseVars => WorkflowsOK'
  BY LangfuseStep
<1> QED
  BY <1>1, <1>2, PTL DEF LangfuseSpec

\* The order of the open workflows is the order of their deadlines, one entry per task
\* and no more of them than max_active_workflows, and no more uploads are in flight
\* than the plugin allows: the expiry that stops at the first live entry misses none.
THEOREM TableIsLru == LangfuseSpec => []WorkflowLruHolds
<1>1. WorkflowsOK => WorkflowLruHolds
  <2> SUFFICES ASSUME WorkflowsOK PROVE WorkflowLruHolds
    OBVIOUS
  <2>1. LruIsExpiryOrder
    BY DEF WorkflowsOK, Ordered, ByExpiry, LruIsExpiryOrder
  <2>2. PICK n \in Nat : n = Len(table)
    BY Numbers
  <2> DEFINE at   == [i \in 1..n |-> table[i].task]
             keys == {table[i].task : i \in 1..n}
  <2>3. at \in Bijection(1..n, keys)
    <3>1. at \in [1..n -> keys]
      OBVIOUS
    <3>2. \A i, j \in 1..n : at[i] = at[j] => i = j
      BY <2>2 DEF WorkflowsOK, Ordered, OneEach
    <3>3. \A k \in keys : \E i \in 1..n : at[i] = k
      OBVIOUS
    <3> HIDE DEF at, keys
    <3> QED
      BY <3>1, <3>2, <3>3 DEF Bijection, Injection, Surjection, IsInjective
  <2>4. Cardinality(keys) = n
    <3> HIDE DEF at, keys
    <3> QED
      BY <2>2, <2>3, FS_CountingElements DEF ExistsBijection
  <2> QED
    BY <2>1, <2>2, <2>4 DEF WorkflowLruHolds, HoldsAreBounded, WorkflowsOK
<1> QED
  BY <1>1, LangfuseInvariant, PTL

\* An open workflow observation always has something left that will end it, but for
\* one a concurrent activation of its own task replaced.
THEOREM OpenIsReclaimable == LangfuseSpec => []WorkflowReclaimable
<1>1. WorkflowsOK => WorkflowReclaimable
  BY DEF WorkflowsOK, EveryOpenIsHeld, WorkflowReclaimable
<1> QED
  BY <1>1, LangfuseInvariant, PTL

-----------------------------------------------------------------------------
(* HarnessLoop: the model and tool loop across activations.                *)

\* An activation that may still save, ask or dispatch.
AtWork(a) ==
    acts[a].pc \in {"clear", "model", "tools", "dispatch", "suspend", "asksave", "asksend",
                    "raise"}

\* A wait whose reply will start an activation that loads the state.
Awaited(n) == waits[n].state \in {"out", "replied"} \/ acts[n].pc = "load"

\* One activation works at most, and one reply is awaited at most.
OneAtWork == \A a, b \in Acts : AtWork(a) /\ AtWork(b) => a = b
OneAwaited == \A n, m \in Acts : Awaited(n) /\ Awaited(m) => n = m

\* The one overlap: sub-agents have the work and nothing is saved yet.
Overlap ==
    \A a, n \in Acts : AtWork(a) /\ Awaited(n) =>
        acts[a].pc \in {"suspend", "raise"} /\ waits[n].kind = "sub" /\ harness = {}

\* The loop runs with whole messages and without a saved state.
InTheLoop ==
    \A a \in Acts : acts[a].pc \in {"model", "tools", "dispatch", "suspend", "asksave"} =>
        harness = {} /\ acts[a].open = {}

\* What lacks a result in a saved conversation is what is pending.
SavedIsPending ==
    /\ \A h \in harness : h.open = h.pending
    /\ \A a \in Acts : acts[a].pc = "clear" => acts[a].open = acts[a].turn

\* A question that is about to be asked, or was, has its state.
AskedIsSaved ==
    \A a \in Acts :
        acts[a].pc = "asksend" \/ (Awaited(a) /\ waits[a].kind = "ask") =>
            harness # {} \/ expired \/ cancelled

\* An activation that resumes has taken its reply.
TakenOnce ==
    \A a \in Acts : /\ acts[a].pc \in {"load", "missing"} => waits[a].state = "taken"
                    /\ acts[a].pc = "dropped" => cancelled

\* Only a live activation is cancelled, and each once.
EndedActs == {a \in Acts : acts[a].pc = "end"}
CancelsCounted ==
    /\ deletes > 0 => cancelled
    /\ deletes <= Cardinality(EndedActs)

\* The inductive invariant of HarnessLoop.
HarnessOK ==
    /\ HarnessTypeOK /\ OneAtWork /\ OneAwaited /\ Overlap /\ InTheLoop /\ SavedIsPending
    /\ AskedIsSaved /\ TakenOnce /\ CancelsCounted /\ AskAnswerFindsState

ControlOK == OneAtWork /\ OneAwaited /\ Overlap /\ InTheLoop /\ SavedIsPending
    /\ AskedIsSaved /\ TakenOnce /\ AskAnswerFindsState

\* One activation moves on, the others stay.
LEMMA WentTo ==
    ASSUME acts \in [Acts -> ActRecord], NEW a \in Acts, NEW pc \in LoopPc, Goes(a, pc)
    PROVE  /\ acts' \in [Acts -> ActRecord]
           /\ acts'[a].pc = pc /\ acts'[a].open = acts[a].open /\ acts'[a].turn = acts[a].turn
           /\ \A b \in Acts \ {a} : acts'[b] = acts[b]
BY DEF Goes, ActRecord

\* A cancelled activation is counted once.
LEMMA EndedGrows ==
    ASSUME acts \in [Acts -> ActRecord], MaxActivations \in Nat,
           \A a \in Acts : acts[a].pc = "end" => acts'[a].pc = "end"
    PROVE  /\ Cardinality(EndedActs) <= Cardinality(EndedActs')
           /\ Cardinality(EndedActs) \in Nat /\ Cardinality(EndedActs') \in Nat
           /\ Cardinality(EndedActs') <= MaxActivations
           /\ \A a \in Acts : acts[a].pc # "end" /\ acts'[a].pc = "end" =>
                 Cardinality(EndedActs) + 1 <= Cardinality(EndedActs')
<1>1. IsFiniteSet(Acts) /\ Cardinality(Acts) = MaxActivations
  BY FS_Interval DEF Acts
<1>2. EndedActs \subseteq EndedActs' /\ EndedActs' \subseteq Acts
  BY DEF EndedActs
<1>3. IsFiniteSet(EndedActs') /\ IsFiniteSet(EndedActs)
  BY <1>1, <1>2, FS_Subset
<1>4. /\ Cardinality(EndedActs) <= Cardinality(EndedActs')
      /\ Cardinality(EndedActs') <= MaxActivations
  BY <1>1, <1>2, <1>3, FS_Subset
<1>5. Cardinality(EndedActs) \in Nat /\ Cardinality(EndedActs') \in Nat
  BY <1>3, FS_CardinalityType
<1>6. ASSUME NEW a \in Acts, acts[a].pc # "end", acts'[a].pc = "end"
      PROVE  Cardinality(EndedActs) + 1 <= Cardinality(EndedActs')
  <2>1. a \in EndedActs' /\ a \notin EndedActs
    BY <1>6 DEF EndedActs
  <2> QED
    BY <1>2, <1>3, <1>4, <1>5, <2>1, FS_Subset
<1> QED
  BY <1>4, <1>5, <1>6

\* The first activation runs, nothing is saved, nothing awaited.
LEMMA HarnessInitOK ==
    ASSUME HarnessAssumption, HarnessInit
    PROVE  HarnessOK
<1>1. HarnessTypeOK
  <2>1. acts \in [Acts -> ActRecord]
    BY DEF HarnessInit, NewAct, ActRecord, LoopPc
  <2>2. waits \in [Acts -> WaitRecord]
    BY DEF HarnessInit, NoWait, WaitRecord
  <2>3. harness \in SUBSET HarnessState /\ Cardinality(harness) <= 1
    BY FS_EmptySet DEF HarnessInit
  <2>4. deletes \in 0..MaxActivations /\ loopFaults \in 0..MaxLoopFaults
    BY DEF HarnessAssumption, HarnessInit
  <2>5. unused \subseteq ToolCall /\ cancelled \in BOOLEAN /\ expired \in BOOLEAN
    BY DEF HarnessInit
  <2> QED
    BY <2>1, <2>2, <2>3, <2>4, <2>5 DEF HarnessTypeOK
<1>2. ControlOK
  BY DEF HarnessAssumption, HarnessInit, NewAct, NoWait, Acts, ControlOK, OneAtWork, OneAwaited,
     Overlap, InTheLoop, SavedIsPending, AskedIsSaved, TakenOnce, AskAnswerFindsState, AtWork,
       Awaited
<1>3. CancelsCounted
  <2>1. IsFiniteSet(EndedActs)
    <3>1. IsFiniteSet(Acts) /\ EndedActs \subseteq Acts
      BY FS_Interval DEF EndedActs, Acts, HarnessAssumption
    <3> QED
      BY <3>1, FS_Subset
  <2> QED
    BY <2>1, FS_CardinalityType DEF CancelsCounted, HarnessInit
<1> QED
  BY <1>1, <1>2, <1>3 DEF HarnessOK, ControlOK


TypedStep ==
    /\ acts' \in [Acts -> ActRecord] /\ waits' \in [Acts -> WaitRecord]
    /\ harness' \in SUBSET HarnessState /\ Cardinality(harness') <= 1
    /\ unused' \subseteq ToolCall /\ cancelled' \in BOOLEAN /\ expired' \in BOOLEAN
    /\ loopFaults' \in 0..MaxLoopFaults
    /\ \A b \in Acts : acts[b].pc = "end" => acts'[b].pc = "end"

LEMMA OneState == (\A h : Cardinality({h}) <= 1) /\ Cardinality({}) <= 1
<1>1. Cardinality({}) <= 1
  BY FS_EmptySet
<1>2. ASSUME NEW h
      PROVE  Cardinality({h}) <= 1
  <2>1. Cardinality({h}) = 1
    BY FS_Singleton
  <2> QED
    BY <2>1
<1> QED
  BY <1>1, <1>2

LEMMA SubCalls ==
    ASSUME acts \in [Acts -> ActRecord], NEW a \in Acts
    PROVE  acts[a].open \in SUBSET ToolCall /\ acts[a].turn \in SUBSET ToolCall
           /\ Calls(a, "sub") \in SUBSET ToolCall
BY DEF ActRecord, Calls

LEMMA AskWait ==
    ASSUME NEW w, w = [NoWait EXCEPT !.state = "out", !.kind = "ask"]
    PROVE  w = [state |-> "out", kind |-> "ask", got |-> {}]
BY DEF NoWait

\* A wait that goes out is the only one that did.
LEMMA WaitOut ==
    ASSUME waits \in [Acts -> WaitRecord], NEW n \in Acts, NEW k \in {"sub", "ask"},
           NEW got \in SUBSET ToolCall,
           waits' = [waits EXCEPT ![n] = [state |-> "out", kind |-> k, got |-> got]]
    PROVE  /\ waits' \in [Acts -> WaitRecord]
           /\ waits'[n].state = "out" /\ waits'[n].kind = k
           /\ \A b \in Acts \ {n} : waits'[b] = waits[b]
BY DEF WaitRecord

\* Every step of the loop, by what it does to who works and what is saved.
LEMMA TurnSteps ==
    ASSUME HarnessAssumption, HarnessTypeOK, ControlOK, CancelsCounted, HarnessNext
    PROVE  TypedStep /\ ControlOK'
<1> USE DEF HarnessTypeOK, ControlOK, OneAtWork, OneAwaited, Overlap, InTheLoop, SavedIsPending,
            AskedIsSaved, TakenOnce, AskAnswerFindsState, AtWork, Awaited
<1>1. ASSUME NEW a \in Acts, NEW calls \in SUBSET unused, ModelTurn(a, calls)
      PROVE  TypedStep /\ ControlOK'
  <2>1. PICK turn \in SUBSET ToolCall, pc \in {"end", "tools", "asksave"} :
           acts' = [acts EXCEPT ![a].turn = turn, ![a].pc = pc]
    BY <1>1 DEF ModelTurn
  <2>2. /\ acts' \in [Acts -> ActRecord] /\ acts'[a].pc = pc /\ acts'[a].open = acts[a].open
        /\ \A b \in Acts \ {a} : acts'[b] = acts[b]
    <3> HIDE DEF ControlOK
    <3> QED
      BY <2>1 DEF ActRecord, LoopPc
  <2>3. TypedStep
    BY <1>1, <2>2 DEF ModelTurn, TypedStep
  <2>4. ControlOK'
    BY <1>1, <2>2 DEF ModelTurn
  <2> QED BY <2>3, <2>4
<1>2. ASSUME NEW a \in Acts, RunTools(a)
      PROVE  TypedStep /\ ControlOK'
  <2>1. PICK pc \in {"model", "dispatch"} : /\ acts' \in [Acts -> ActRecord]
        /\ acts'[a].pc = pc /\ acts'[a].open = acts[a].open
        /\ \A b \in Acts \ {a} : acts'[b] = acts[b]
    BY <1>2 DEF RunTools, Goes, ActRecord, LoopPc
  <2>2. TypedStep
    BY <1>2, <2>1, OneState DEF RunTools, TypedStep
  <2>3. ControlOK'
    BY <1>2, <2>1 DEF RunTools
  <2> QED BY <2>2, <2>3
<1>3. ASSUME NEW a \in Acts, DispatchSucceeds(a)
      PROVE  TypedStep /\ ControlOK'
  <2>1. /\ acts' \in [Acts -> ActRecord]
        /\ acts'[a].pc = "suspend" /\ acts'[a].open = acts[a].open /\ acts'[a].turn = acts[a].turn
        /\ \A b \in Acts \ {a} : acts'[b] = acts[b]
    BY <1>3, WentTo DEF LoopPc, DispatchSucceeds
  <2>2. PICK m \in NextWait : waits' = [waits EXCEPT ![m] = [state |-> "out", kind |-> "sub",
             got |-> Calls(a, "sub")]]
    BY <1>3 DEF DispatchSucceeds
  <2>3. m \in Acts /\ waits[m].state = "no"
    BY <2>2 DEF NextWait
  <2>4. Calls(a, "sub") \in SUBSET ToolCall
    BY SubCalls
  <2>5. /\ waits' \in [Acts -> WaitRecord]
        /\ waits'[m].state = "out" /\ waits'[m].kind = "sub"
        /\ \A b \in Acts \ {m} : waits'[b] = waits[b]
    BY <2>2, <2>3, <2>4, WaitOut
  <2>6. TypedStep
    BY <1>3, <2>1, <2>2, <2>3, <2>4, <2>5, OneState DEF DispatchSucceeds, TypedStep
  <2>7. ControlOK'
    BY <1>3, <2>1, <2>2, <2>3, <2>4, <2>5 DEF DispatchSucceeds
  <2> QED BY <2>6, <2>7
<1>4. ASSUME NEW a \in Acts, DispatchFails(a)
      PROVE  TypedStep /\ ControlOK'
  <2>1. /\ acts' \in [Acts -> ActRecord]
        /\ acts'[a].pc = "model" /\ acts'[a].open = acts[a].open
        /\ \A b \in Acts \ {a} : acts'[b] = acts[b]
    <3> HIDE DEF ControlOK
    <3> QED
      BY <1>4 DEF DispatchFails, ActRecord, LoopPc
  <2>2. TypedStep
    BY <1>4, <2>1, OneState DEF DispatchFails, TypedStep, LoopFault
  <2>3. ControlOK'
    BY <1>4, <2>1 DEF DispatchFails, LoopFault
  <2> QED BY <2>2, <2>3
<1>5. ASSUME NEW a \in Acts, SuspendTurn(a)
      PROVE  TypedStep /\ ControlOK'
  <2>1. /\ acts' \in [Acts -> ActRecord]
        /\ acts'[a].pc = "end" /\ acts'[a].open = acts[a].open /\ acts'[a].turn = acts[a].turn
        /\ \A b \in Acts \ {a} : acts'[b] = acts[b]
    BY <1>5, WentTo DEF LoopPc, SuspendTurn
  <2>2. PICK h \in HarnessState : harness' = {h} /\ h.open = acts[a].open \cup Calls(a, "sub")
             /\ h.pending = Calls(a, "sub")
    <3>1. [open |-> acts[a].open \cup Calls(a, "sub"), pending |-> Calls(a, "sub")] \in HarnessState
      BY SubCalls DEF HarnessState
    <3> QED
      BY <1>5, <3>1 DEF SuspendTurn
  <2>3. TypedStep
    BY <1>5, <2>1, <2>2, OneState DEF SuspendTurn, TypedStep
  <2>4. ControlOK'
    BY <1>5, <2>1, <2>2 DEF SuspendTurn
  <2> QED BY <2>3, <2>4
<1>6. ASSUME NEW a \in Acts, AskSaves(a)
      PROVE  TypedStep /\ ControlOK'
  <2>1. /\ acts' \in [Acts -> ActRecord]
        /\ acts'[a].pc = "asksend" /\ acts'[a].open = acts[a].open /\ acts'[a].turn = acts[a].turn
        /\ \A b \in Acts \ {a} : acts'[b] = acts[b]
    BY <1>6, WentTo DEF LoopPc, AskSaves
  <2>2. PICK h \in HarnessState : harness' = {h} /\ h.open = acts[a].open \cup acts[a].turn
             /\ h.pending = acts[a].turn
    <3>1. [open |-> acts[a].open \cup acts[a].turn, pending |-> acts[a].turn] \in HarnessState
      BY SubCalls DEF HarnessState
    <3> QED
      BY <1>6, <3>1 DEF AskSaves
  <2>3. TypedStep
    BY <1>6, <2>1, <2>2, OneState DEF AskSaves, TypedStep
  <2>4. ControlOK'
    BY <1>6, <2>1, <2>2 DEF AskSaves
  <2> QED BY <2>3, <2>4
<1>7. ASSUME NEW a \in Acts, AskSends(a)
      PROVE  TypedStep /\ ControlOK'
  <2>1. /\ acts' \in [Acts -> ActRecord]
        /\ acts'[a].pc = "end" /\ acts'[a].open = acts[a].open /\ acts'[a].turn = acts[a].turn
        /\ \A b \in Acts \ {a} : acts'[b] = acts[b]
    BY <1>7, WentTo DEF LoopPc, AskSends
  <2>2. PICK m \in NextWait : waits' = [waits EXCEPT ![m] = [state |-> "out", kind |-> "ask",
             got |-> {}]]
    <3>1. [NoWait EXCEPT !.state = "out", !.kind = "ask"] = [state |-> "out", kind |-> "ask",
          got |-> {}]
      BY AskWait
    <3> QED
      BY <1>7, <3>1, Zenon DEF AskSends
  <2>3. m \in Acts /\ waits[m].state = "no"
    BY <2>2 DEF NextWait
  <2>4. /\ waits' \in [Acts -> WaitRecord]
        /\ waits'[m].state = "out" /\ waits'[m].kind = "ask"
        /\ \A b \in Acts \ {m} : waits'[b] = waits[b]
    <3> DEFINE none == {}
    <3>1. none \in SUBSET ToolCall
      OBVIOUS
    <3> HIDE DEF none
    <3> QED
      BY <2>2, <2>3, <3>1, WaitOut DEF none
  <2>x. acts[a].pc = "asksend"
        /\ UNCHANGED <<harness, unused, cancelled, deletes, expired, loopFaults>>
    BY <1>7 DEF AskSends
  <2>5. TypedStep
    BY <2>1, <2>3, <2>4, <2>x DEF TypedStep
  <2>6. ControlOK'
    BY <2>1, <2>3, <2>4, <2>x DEF AskSends
  <2> QED BY <2>5, <2>6
<1>8. ASSUME NEW a \in Acts, LoopRaises(a)
      PROVE  TypedStep /\ ControlOK'
  <2>1. /\ acts' \in [Acts -> ActRecord]
        /\ acts'[a].pc = "raise" /\ acts'[a].open = acts[a].open /\ acts'[a].turn = acts[a].turn
        /\ \A b \in Acts \ {a} : acts'[b] = acts[b]
    BY <1>8, WentTo DEF LoopPc, LoopRaises
  <2>2. TypedStep
    BY <1>8, <2>1, OneState DEF LoopRaises, TypedStep, LoopFault
  <2>3. ControlOK'
    BY <1>8, <2>1 DEF LoopRaises, LoopFault
  <2> QED BY <2>2, <2>3
<1>9. ASSUME NEW a \in Acts, RaiseClears(a)
      PROVE  TypedStep /\ ControlOK'
  <2>1. /\ acts' \in [Acts -> ActRecord]
        /\ acts'[a].pc = "end" /\ acts'[a].open = acts[a].open /\ acts'[a].turn = acts[a].turn
        /\ \A b \in Acts \ {a} : acts'[b] = acts[b]
    BY <1>9, WentTo DEF LoopPc, RaiseClears
  <2>2. TypedStep
    BY <1>9, <2>1, OneState DEF RaiseClears, TypedStep
  <2>3. ControlOK'
    BY <1>9, <2>1 DEF RaiseClears
  <2> QED BY <2>2, <2>3
<1>10. ASSUME NEW a \in Acts, NEW got \in SUBSET waits[a].got, Replies(a, got)
      PROVE  TypedStep /\ ControlOK'
  <2>1. /\ waits' \in [Acts -> WaitRecord]
        /\ waits'[a].state = "replied" /\ waits'[a].kind = waits[a].kind
        /\ \A b \in Acts \ {a} : waits'[b] = waits[b]
    <3> HIDE DEF ControlOK
    <3> QED
      BY <1>10 DEF Replies, WaitRecord
  <2>2. TypedStep
    BY <1>10, <2>1, OneState DEF Replies, TypedStep
  <2>3. ControlOK'
    BY <1>10, <2>1 DEF Replies
  <2> QED BY <2>2, <2>3
<1>11. ASSUME NEW a \in Acts, ResumeBegins(a)
      PROVE  TypedStep /\ ControlOK'
  <2>1. PICK pc \in {"dropped", "load"} : Goes(a, pc) /\ (pc = "dropped" <=> cancelled)
    BY <1>11 DEF ResumeBegins
  <2>2. /\ acts' \in [Acts -> ActRecord]
        /\ acts'[a].pc = pc /\ acts'[a].open = acts[a].open /\ acts'[a].turn = acts[a].turn
        /\ \A b \in Acts \ {a} : acts'[b] = acts[b]
    BY <2>1, WentTo DEF LoopPc
  <2>3. /\ waits' \in [Acts -> WaitRecord]
        /\ waits'[a].state = "taken" /\ waits'[a].kind = waits[a].kind
        /\ \A b \in Acts \ {a} : waits'[b] = waits[b]
    BY <1>11 DEF ResumeBegins, WaitRecord
  <2>4. TypedStep
    BY <1>11, <2>1, <2>2, <2>3, OneState DEF ResumeBegins, TypedStep
  <2>5. ControlOK'
    BY <1>11, <2>1, <2>2, <2>3 DEF ResumeBegins
  <2> QED BY <2>4, <2>5
<1>12. ASSUME NEW a \in Acts, DroppedClears(a)
      PROVE  TypedStep /\ ControlOK'
  <2>1. /\ acts' \in [Acts -> ActRecord]
        /\ acts'[a].pc = "end" /\ acts'[a].open = acts[a].open /\ acts'[a].turn = acts[a].turn
        /\ \A b \in Acts \ {a} : acts'[b] = acts[b]
    BY <1>12, WentTo DEF LoopPc, DroppedClears
  <2>2. TypedStep
    BY <1>12, <2>1, OneState DEF DroppedClears, TypedStep
  <2>3. ControlOK'
    BY <1>12, <2>1 DEF DroppedClears
  <2> QED BY <2>2, <2>3
<1>13. ASSUME NEW a \in Acts, LoadState(a)
      PROVE  TypedStep /\ ControlOK'
  <2>1. CASE harness = {}
    <3>1. /\ acts' \in [Acts -> ActRecord]
          /\ acts'[a].pc = "missing" /\ acts'[a].open = acts[a].open /\ acts'[a].turn = acts[a].turn
          /\ \A b \in Acts \ {a} : acts'[b] = acts[b]
      BY <1>13, <2>1, WentTo DEF LoopPc, LoadState
    <3>2. TypedStep
      BY <1>13, <2>1, <3>1 DEF LoadState, TypedStep
    <3>3. ControlOK'
      BY <1>13, <2>1, <3>1 DEF LoadState
    <3> QED BY <3>2, <3>3
  <2>2. CASE harness # {}
    <3>1. PICK h \in harness : acts' = [acts EXCEPT ![a].pc = "clear", ![a].open = h.open,
               ![a].turn = h.pending]
      BY <1>13, <2>2 DEF LoadState
    <3>2. h.open \in SUBSET ToolCall /\ h.pending \in SUBSET ToolCall
      BY DEF HarnessState
    <3>3. /\ acts' \in [Acts -> ActRecord] /\ acts'[a].pc = "clear"
          /\ acts'[a].open = h.open /\ acts'[a].turn = h.pending
          /\ \A b \in Acts \ {a} : acts'[b] = acts[b]
      <4> HIDE DEF ControlOK
      <4> QED
        BY <3>1, <3>2 DEF ActRecord, LoopPc
    <3>x. UNCHANGED <<waits, harness, unused, cancelled, deletes, expired, loopFaults>>
          /\ acts[a].pc = "load"
      BY <1>13 DEF LoadState
    <3>4. TypedStep
      BY <3>3, <3>x DEF TypedStep
    <3>5. ControlOK'
      BY <2>2, <3>3, <3>x DEF LoadState
    <3> QED BY <3>4, <3>5
  <2> QED BY <2>1, <2>2
<1>14. ASSUME NEW a \in Acts, ClearState(a)
      PROVE  TypedStep /\ ControlOK'
  <2>1. ResultsFor(acts[a].turn, waits[a].got) = acts[a].turn
    BY DEF ResultsFor
  <2>2. acts' = [acts EXCEPT ![a].open = @ \ acts[a].turn, ![a].turn = {}, ![a].pc = "model"]
    BY <1>14, <2>1 DEF ClearState
  <2>3. /\ acts' \in [Acts -> ActRecord] /\ acts'[a].pc = "model"
        /\ acts'[a].open = acts[a].open \ acts[a].turn
        /\ \A b \in Acts \ {a} : acts'[b] = acts[b]
    <3> HIDE DEF ControlOK
    <3> QED
      BY <2>2 DEF ActRecord, LoopPc
  <2>4. TypedStep
    BY <1>14, <2>1, <2>2, <2>3, OneState DEF ClearState, TypedStep
  <2>5. ControlOK'
    BY <1>14, <2>1, <2>2, <2>3 DEF ClearState
  <2> QED BY <2>4, <2>5
<1>15. ASSUME NEW a \in Acts, MissingRaises(a)
      PROVE  TypedStep /\ ControlOK'
  <2>1. /\ acts' \in [Acts -> ActRecord]
        /\ acts'[a].pc = "end" /\ acts'[a].open = acts[a].open /\ acts'[a].turn = acts[a].turn
        /\ \A b \in Acts \ {a} : acts'[b] = acts[b]
    BY <1>15, WentTo DEF LoopPc, MissingRaises
  <2>2. TypedStep
    BY <1>15, <2>1, OneState DEF MissingRaises, TypedStep
  <2>3. ControlOK'
    BY <1>15, <2>1 DEF MissingRaises
  <2> QED BY <2>2, <2>3
<1>16. ASSUME NEW a \in Acts, CancelArrives(a)
      PROVE  TypedStep /\ ControlOK'
  <2>1. /\ acts' \in [Acts -> ActRecord]
        /\ acts'[a].pc = "end" /\ acts'[a].open = acts[a].open /\ acts'[a].turn = acts[a].turn
        /\ \A b \in Acts \ {a} : acts'[b] = acts[b]
    BY <1>16, WentTo DEF LoopPc, CancelArrives
  <2>2. TypedStep
    BY <1>16, <2>1, OneState DEF CancelArrives, TypedStep, Live
  <2>3. ControlOK'
    BY <1>16, <2>1 DEF CancelArrives, Live
  <2> QED BY <2>2, <2>3
<1>17. ASSUME NEW a \in Acts, WorkerDies(a)
      PROVE  TypedStep /\ ControlOK'
  <2>1. /\ acts' \in [Acts -> ActRecord]
        /\ acts'[a].pc = "end" /\ acts'[a].open = acts[a].open /\ acts'[a].turn = acts[a].turn
        /\ \A b \in Acts \ {a} : acts'[b] = acts[b]
    BY <1>17, WentTo DEF LoopPc, WorkerDies
  <2>2. TypedStep
    BY <1>17, <2>1, OneState DEF WorkerDies, TypedStep, Live, LoopFault
  <2>3. ControlOK'
    BY <1>17, <2>1 DEF WorkerDies, Live, LoopFault
  <2> QED BY <2>2, <2>3
<1>18. ASSUME CancelRequested
      PROVE  TypedStep /\ ControlOK'
  <2>1. TypedStep
    BY <1>18, OneState DEF CancelRequested, TypedStep, CancelsCounted
  <2>2. ControlOK'
    BY <1>18 DEF CancelRequested, CancelsCounted
  <2> QED BY <2>1, <2>2
<1>19. ASSUME OnCancelTask
      PROVE  TypedStep /\ ControlOK'
  <2>1. TypedStep
    BY <1>19, OneState DEF OnCancelTask, TypedStep, CancelsCounted
  <2>2. ControlOK'
    BY <1>19 DEF OnCancelTask, CancelsCounted
  <2> QED BY <2>1, <2>2
<1>20. ASSUME StateExpires
      PROVE  TypedStep /\ ControlOK'
  <2>1. TypedStep
    BY <1>20, OneState DEF StateExpires, TypedStep, CancelsCounted
  <2>2. ControlOK'
    BY <1>20 DEF StateExpires, CancelsCounted
  <2> QED BY <2>1, <2>2
<1> QED
  BY <1>1, <1>2, <1>3, <1>4, <1>5, <1>6, <1>7, <1>8, <1>9, <1>10, <1>11, <1>12, <1>13, <1>14,
     <1>15, <1>16, <1>17, <1>18, <1>19, <1>20 DEF HarnessNext

\* Each step of the loop preserves the invariant.
LEMMA HarnessStepOK ==
    ASSUME HarnessAssumption, HarnessOK, [HarnessNext]_loopVars
    PROVE  HarnessOK'
<1>1. CASE HarnessNext
  <2>1. TypedStep /\ ControlOK'
    BY <1>1, TurnSteps DEF HarnessOK, ControlOK
  <2>2. MaxActivations \in Nat /\ acts \in [Acts -> ActRecord] /\ deletes \in 0..MaxActivations
    BY DEF HarnessAssumption, HarnessOK, HarnessTypeOK
  <2>3. /\ Cardinality(EndedActs) <= Cardinality(EndedActs')
        /\ Cardinality(EndedActs) \in Nat /\ Cardinality(EndedActs') \in Nat
        /\ Cardinality(EndedActs') <= MaxActivations
        /\ \A a \in Acts : acts[a].pc # "end" /\ acts'[a].pc = "end" =>
              Cardinality(EndedActs) + 1 <= Cardinality(EndedActs')
    BY <2>1, <2>2, EndedGrows DEF TypedStep
  <2>4. deletes <= Cardinality(EndedActs) /\ (deletes > 0 => cancelled)
    BY DEF HarnessOK, CancelsCounted
  <2>5. ASSUME NEW a \in Acts, CancelArrives(a)
        PROVE  deletes' \in Nat /\ CancelsCounted'
    <3>1. acts[a].pc # "end" /\ acts'[a].pc = "end"
      BY <2>2, <2>5, WentTo DEF CancelArrives, Live, LoopPc
    <3>2. deletes' = deletes + 1 /\ cancelled'
      BY <2>5 DEF CancelArrives
    <3> QED
      BY <2>2, <2>3, <2>4, <3>1, <3>2 DEF CancelsCounted
  <2>6. ASSUME OnCancelTask
        PROVE  deletes' \in Nat /\ CancelsCounted'
    <3>1. deletes' \in Nat /\ deletes' <= deletes /\ cancelled' = cancelled
      BY <2>2, <2>6 DEF OnCancelTask
    <3> QED
      BY <2>2, <2>3, <2>4, <3>1 DEF CancelsCounted
  <2>7. ASSUME (cancelled => cancelled') /\ deletes' = deletes
        PROVE  deletes' \in Nat /\ CancelsCounted'
    BY <2>2, <2>3, <2>4, <2>7 DEF CancelsCounted
  <2>8. \/ OnCancelTask
        \/ \E a \in Acts : CancelArrives(a)
        \/ (cancelled => cancelled') /\ deletes' = deletes
    BY <1>1 DEF HarnessNext, ModelTurn, RunTools, DispatchSucceeds, DispatchFails, SuspendTurn,
       AskSaves,
       AskSends, LoopRaises, RaiseClears, Replies, ResumeBegins, DroppedClears, LoadState,
         ClearState,
       MissingRaises, WorkerDies, CancelRequested, StateExpires
  <2>9. deletes' \in Nat /\ CancelsCounted'
    BY <2>2, <2>5, <2>6, <2>7, <2>8
  <2>10. deletes' \in 0..MaxActivations
    BY <2>2, <2>3, <2>9 DEF CancelsCounted
  <2> QED
    BY <2>1, <2>9, <2>10 DEF HarnessOK, ControlOK, HarnessTypeOK, TypedStep
<1>2. CASE UNCHANGED loopVars
  BY <1>2 DEF loopVars, HarnessOK, HarnessTypeOK, OneAtWork, OneAwaited, Overlap, InTheLoop,
     SavedIsPending, AskedIsSaved, TakenOnce, CancelsCounted, EndedActs, AskAnswerFindsState,
       AtWork, Awaited
<1> QED
  BY <1>1, <1>2

\* In every reachable state one activation works at most, one reply is awaited at most,
\* and a saved conversation lacks exactly the results that are pending (loop.py).
THEOREM HarnessInvariant == HarnessSpec => []HarnessOK
<1>1. HarnessInit => HarnessOK
  BY HarnessInitOK, HarnessAssumption
<1>2. HarnessOK /\ [HarnessNext]_loopVars => HarnessOK'
  BY HarnessStepOK, HarnessAssumption
<1> QED
  BY <1>1, <1>2, PTL DEF HarnessSpec

\* The model is never called with a tool call that has no result, and the answer to a
\* question finds the state saved before it was asked, unless that expired or the
\* execution was cancelled (loop.py).
THEOREM TurnsStayWhole == HarnessSpec => []TurnsAreWhole
<1>1. HarnessOK => TurnsAreWhole
  BY DEF HarnessOK, TurnsAreWhole, ToolCallsAnswered, InTheLoop
<1> QED
  BY <1>1, HarnessInvariant, PTL

-----------------------------------------------------------------------------
(* EventStream: one execution's data stream and who reads it.              *)

\* The end has been appended; it is there once; it is the last entry.
StreamEnded == \E i \in 1..Len(entries) : entries[i] = "end"
OneEnd == \A i, j \in 1..Len(entries) : entries[i] = "end" /\ entries[j] = "end" => i = j
EndAtTail == \A i \in 1..Len(entries) : entries[i] = "end" => i = Len(entries)

\* Who is at work for the root, and what the root knows of it.
CalleeKnown ==
    /\ sub = "runs" => root.suspended /\ root.run < MaxRootRuns
    /\ sub = "heir" => root.transferred
    /\ root.suspended /\ root.pc # "done" => sub = "runs"
    /\ root.cancelled => root.pc \in {"failing", "done"}

\* Until the right to close was used twice, nobody appends after the end.
EndsOnce ==
    cut \/
    /\ root.transferred => ~root.suspended
    /\ root.suspended => root.pc # "failing" /\ ~root.cancelled
    /\ sub = "heir" => ~StreamEnded
    /\ StreamEnded => sub = "none" /\ (root.transferred \/ (root.pc = "done" /\ ~root.suspended))
    /\ OneEnd
    /\ root.transferred \/ EndAtTail

\* Unless an append failed, what should have closed the stream did.
EndComes ==
    dropped \/
    /\ root.transferred => sub = "heir" \/ StreamEnded
    /\ root.finished => StreamEnded
    /\ root.pc = "done" /\ root.cancelled => sub = "heir" \/ StreamEnded
    /\ root.pc = "done" /\ sub = "none" => StreamEnded

Writing == CalleeKnown /\ EndsOnce /\ EndComes

\* A reader holds the entries that follow the ones it has seen processed.
Fetched(r) ==
    /\ readers[r].at + Len(readers[r].todo) <= Len(entries)
    /\ \A i \in 1..Len(readers[r].todo) : readers[r].todo[i] = readers[r].at + i
    /\ 1..readers[r].at \subseteq processed
    /\ readers[r].pc \in {"body", "commit"} => readers[r].todo # <<>>
    /\ readers[r].pc = "commit" => readers[r].at + 1 \in processed

\* What was committed was processed.
Reading ==
    /\ \A r \in Reader : Fetched(r)
    /\ checkpoint <= Len(entries) /\ processed \subseteq 1..Len(entries)
    /\ CommittedWasProcessed

\* The inductive invariant of EventStream.
StreamOK == StreamTypeOK /\ Writing /\ Reading

Entry == {"delta", "log", "final", "end"}

\* EmitEvent appends one entry.
LEMMA Emitted ==
    ASSUME entries \in Seq(Entry), MaxEntries \in Nat, NEW t \in Entry, EmitEvent(t)
    PROVE  /\ entries' \in Seq(Entry) /\ Len(entries') = Len(entries) + 1
           /\ Len(entries') <= MaxEntries
           /\ StreamEnded' <=> StreamEnded \/ t = "end"
           /\ t = "end" /\ ~StreamEnded => OneEnd' /\ EndAtTail'
           /\ t # "end" /\ OneEnd => OneEnd'
           /\ ~StreamEnded' => OneEnd' /\ EndAtTail'
<1>1. /\ entries' \in Seq(Entry) /\ Len(entries') = Len(entries) + 1
      /\ Len(entries) \in Nat /\ Len(entries') <= MaxEntries
      /\ entries'[Len(entries) + 1] = t
      /\ \A i \in 1..Len(entries) : entries'[i] = entries[i]
  BY AppendProperties, LenProperties DEF EmitEvent, Room
<1>2. \A i \in 1..Len(entries') : i = Len(entries) + 1 \/ i \in 1..Len(entries)
  BY <1>1
<1>3. Len(entries) + 1 \in 1..Len(entries') /\ \A i \in 1..Len(entries) : i \in 1..Len(entries')
  BY <1>1
<1> QED
  BY <1>1, <1>2, <1>3 DEF StreamEnded, OneEnd, EndAtTail

TypedWriting ==
    /\ entries' \in Seq(Entry) /\ Len(entries') <= MaxEntries
    /\ root' \in RootRun /\ sub' \in {"none", "runs", "heir"}
    /\ dropped' \in BOOLEAN /\ cut' \in BOOLEAN /\ streamFaults' \in 0..MaxStreamFaults
    /\ Len(entries) <= Len(entries')

\* Every step of who writes the stream.
LEMMA WritingSteps ==
    ASSUME StreamAssumption, StreamTypeOK, Writing,
           \/ RootEmits \/ FinalAnswer \/ CloseStream \/ CloseFails \/ SubReplies \/ HeirCloses
           \/ \E t \in {"delta", "end"} : CalleeEmits(t)
           \/ \E b \in BOOLEAN : RootDispatches(b) \/ RootReturns(b) \/ RootRaises(b)
    PROVE  TypedWriting /\ Writing'
<1>a. /\ entries \in Seq(Entry) /\ Len(entries) <= MaxEntries /\ MaxEntries \in Nat
         /\ Len(entries) \in Nat
      /\ root \in RootRun /\ sub \in {"none", "runs", "heir"} /\ dropped \in BOOLEAN
         /\ cut \in BOOLEAN
      /\ streamFaults \in 0..MaxStreamFaults /\ MaxStreamFaults \in Nat /\ MaxRootRuns \in Nat \ {0}
  BY LenProperties DEF StreamAssumption, StreamTypeOK, Entry
<1>b. /\ root.transferred \in BOOLEAN /\ root.suspended \in BOOLEAN /\ root.finished \in BOOLEAN
      /\ root.cancelled \in BOOLEAN /\ root.pc \in RootPc /\ root.run \in 1..MaxRootRuns
  BY <1>a DEF RootRun
<1>1. ASSUME RootEmits
      PROVE  TypedWriting /\ Writing'
  <2>1. /\ entries' \in Seq(Entry) /\ Len(entries') = Len(entries) + 1
        /\ Len(entries') <= MaxEntries
        /\ StreamEnded' <=> StreamEnded \/ "delta" = "end"
        /\ "delta" = "end" /\ ~StreamEnded => OneEnd' /\ EndAtTail'
        /\ "delta" # "end" /\ OneEnd => OneEnd'
        /\ ~StreamEnded' => OneEnd' /\ EndAtTail'
    BY <1>a, <1>b, <1>1, Emitted DEF RootEmits, EventType, Entry
  <2>2. TypedWriting
    BY <1>a, <1>b, <1>1, <2>1 DEF RootEmits, TypedWriting
  <2>3. Writing'
    BY <1>a, <1>b, <1>1, <2>1 DEF RootEmits, Writing, CalleeKnown, EndsOnce, EndComes
  <2> QED BY <2>2, <2>3
<1>2. ASSUME FinalAnswer
      PROVE  TypedWriting /\ Writing'
  <2>1. /\ entries' \in Seq(Entry) /\ Len(entries') = Len(entries) + 1
        /\ Len(entries') <= MaxEntries
        /\ StreamEnded' <=> StreamEnded \/ "final" = "end"
        /\ "final" = "end" /\ ~StreamEnded => OneEnd' /\ EndAtTail'
        /\ "final" # "end" /\ OneEnd => OneEnd'
        /\ ~StreamEnded' => OneEnd' /\ EndAtTail'
    BY <1>a, <1>b, <1>2, Emitted DEF FinalAnswer, Entry
  <2>2. /\ root' \in RootRun
        /\ root'.pc = "close"
        /\ root'.run = root.run
        /\ root'.transferred = root.transferred
        /\ root'.suspended = root.suspended
        /\ root'.finished = root.finished
        /\ root'.cancelled = root.cancelled
    BY <1>a, <1>b, <1>2 DEF FinalAnswer, RootRun, RootPc
  <2>3. TypedWriting
    BY <1>a, <1>b, <1>2, <2>1, <2>2 DEF FinalAnswer, TypedWriting
  <2>4. Writing'
    BY <1>a, <1>b, <1>2, <2>1, <2>2 DEF FinalAnswer, Writing, CalleeKnown, EndsOnce, EndComes
  <2> QED BY <2>3, <2>4
<1>3. ASSUME CloseStream
      PROVE  TypedWriting /\ Writing'
  <2>1. /\ root' \in RootRun
        /\ root'.pc = "done"
        /\ root'.run = root.run
        /\ root'.transferred = root.transferred
        /\ root'.suspended = root.suspended
        /\ root'.finished = (root.finished \/ MayEnd)
        /\ root'.cancelled = root.cancelled
    <3>1. MayEnd \in BOOLEAN
      BY <1>b DEF MayEnd
    <3> QED
      BY <1>a, <1>b, <3>1, <1>3 DEF CloseStream, RootRun, RootPc
  <2>2. CASE MayEnd
    <3>1. /\ entries' \in Seq(Entry) /\ Len(entries') = Len(entries) + 1
          /\ Len(entries') <= MaxEntries
          /\ StreamEnded' <=> StreamEnded \/ "end" = "end"
          /\ "end" = "end" /\ ~StreamEnded => OneEnd' /\ EndAtTail'
          /\ "end" # "end" /\ OneEnd => OneEnd'
          /\ ~StreamEnded' => OneEnd' /\ EndAtTail'
      BY <1>a, <2>2, <1>3, Emitted DEF CloseStream, Entry
    <3>2. TypedWriting
      BY <1>a, <1>3, <2>1, <2>2, <3>1 DEF CloseStream, TypedWriting
    <3>3. Writing'
      BY <1>a, <1>b, <1>3, <2>1, <2>2, <3>1 DEF CloseStream, MayEnd, Writing, CalleeKnown,
         EndsOnce, EndComes
    <3> QED BY <3>2, <3>3
  <2>3. CASE ~MayEnd
    <3>1. UNCHANGED <<StreamEnded, OneEnd, EndAtTail>>
      BY <2>3, <1>3 DEF CloseStream, StreamEnded, OneEnd, EndAtTail
    <3>2. TypedWriting
      BY <1>a, <1>3, <2>1, <2>3 DEF CloseStream, TypedWriting
    <3>3. Writing'
      <4>1. /\ root'.finished = root.finished /\ root.pc \in {"close", "failing"}
            /\ root.transferred \/ root.finished \/ (root.pc = "close" /\ root.suspended)
        BY <1>a, <1>b, <1>3, <2>1, <2>3 DEF CloseStream, MayEnd
      <4>2. UNCHANGED <<sub, dropped, cut>>
        BY <1>3 DEF CloseStream
      <4> QED
        BY <1>a, <1>b, <2>1, <3>1, <4>1, <4>2 DEF Writing, CalleeKnown, EndsOnce, EndComes
    <3> QED BY <3>2, <3>3
  <2> QED BY <2>2, <2>3
<1>4. ASSUME CloseFails
      PROVE  TypedWriting /\ Writing'
  <2>1. UNCHANGED <<StreamEnded, OneEnd, EndAtTail>>
    BY <1>a, <1>b, <1>4 DEF CloseFails, StreamEnded, OneEnd, EndAtTail
  <2>2. /\ root' \in RootRun
        /\ root'.pc = (IF root.pc = "close" THEN "failing" ELSE "done")
        /\ root'.run = root.run
        /\ root'.transferred = root.transferred
        /\ root'.suspended = root.suspended
        /\ root'.finished = TRUE
        /\ root'.cancelled = root.cancelled
    BY <1>a, <1>b, <1>4 DEF CloseFails, RootRun, RootPc
  <2>3. TypedWriting
    BY <1>a, <1>b, <1>4, <2>1, <2>2 DEF CloseFails, TypedWriting, StreamFault, MayEnd
  <2>4. Writing'
    BY <1>a, <1>b, <1>4, <2>1, <2>2 DEF CloseFails, Writing, CalleeKnown, EndsOnce, EndComes,
       StreamFault, MayEnd
  <2> QED BY <2>3, <2>4
<1>5. ASSUME SubReplies
      PROVE  TypedWriting /\ Writing'
  <2>1. UNCHANGED <<StreamEnded, OneEnd, EndAtTail>>
    BY <1>a, <1>b, <1>5 DEF SubReplies, StreamEnded, OneEnd, EndAtTail
  <2>2. CASE root.cancelled
    <3>1. TypedWriting
      BY <1>a, <1>5, <2>2 DEF SubReplies, TypedWriting
    <3>2. Writing'
      BY <1>a, <1>b, <1>5, <2>1, <2>2 DEF SubReplies, Writing, CalleeKnown, EndsOnce, EndComes
    <3> QED BY <3>1, <3>2
  <2>3. CASE ~root.cancelled
    <3>1. /\ root' \in RootRun
          /\ root'.pc = "running"
          /\ root'.run = root.run + 1
          /\ root'.transferred = FALSE
          /\ root'.suspended = FALSE
          /\ root'.finished = FALSE
          /\ root'.cancelled = FALSE
      BY <1>a, <1>b, <1>5, <2>3 DEF SubReplies, NewRun, RootRun, RootPc, Writing, CalleeKnown
    <3>2. TypedWriting
      BY <1>a, <1>5, <3>1 DEF SubReplies, TypedWriting
    <3>3. Writing'
      BY <1>a, <1>b, <1>5, <2>1, <3>1 DEF SubReplies, Writing, CalleeKnown, EndsOnce, EndComes
    <3> QED BY <3>2, <3>3
  <2> QED BY <2>2, <2>3
<1>6. ASSUME HeirCloses
      PROVE  TypedWriting /\ Writing'
  <2>1. /\ entries' \in Seq(Entry) /\ Len(entries') = Len(entries) + 1
        /\ Len(entries') <= MaxEntries
        /\ StreamEnded' <=> StreamEnded \/ "end" = "end"
        /\ "end" = "end" /\ ~StreamEnded => OneEnd' /\ EndAtTail'
        /\ "end" # "end" /\ OneEnd => OneEnd'
        /\ ~StreamEnded' => OneEnd' /\ EndAtTail'
    BY <1>a, <1>b, <1>6, Emitted DEF HeirCloses, Entry
  <2>2. TypedWriting
    BY <1>a, <1>b, <1>6, <2>1 DEF HeirCloses, TypedWriting
  <2>3. Writing'
    BY <1>a, <1>b, <1>6, <2>1 DEF HeirCloses, Writing, CalleeKnown, EndsOnce, EndComes
  <2> QED BY <2>2, <2>3
<1>7. ASSUME NEW t \in {"delta", "end"}, CalleeEmits(t)
      PROVE  TypedWriting /\ Writing'
  <2>1. PICK e \in Entry \ {"end"} : EmitEvent(e)
    BY <1>a, <1>b, <1>7, <1>a DEF CalleeEmits, EventType, Entry
  <2>2. /\ entries' \in Seq(Entry) /\ Len(entries') = Len(entries) + 1
        /\ Len(entries') <= MaxEntries
        /\ StreamEnded' <=> StreamEnded \/ e = "end"
        /\ e = "end" /\ ~StreamEnded => OneEnd' /\ EndAtTail'
        /\ e # "end" /\ OneEnd => OneEnd'
        /\ ~StreamEnded' => OneEnd' /\ EndAtTail'
    BY <2>1, <1>a, Emitted
  <2>3. TypedWriting
    BY <1>a, <1>b, <1>7, <2>1, <2>2 DEF CalleeEmits, TypedWriting
  <2>4. Writing'
    BY <1>a, <1>b, <1>7, <2>1, <2>2 DEF CalleeEmits, Writing, CalleeKnown, EndsOnce, EndComes
  <2> QED BY <2>3, <2>4
<1>8. ASSUME NEW b \in BOOLEAN, RootDispatches(b)
      PROVE  TypedWriting /\ Writing'
  <2>1. UNCHANGED <<StreamEnded, OneEnd, EndAtTail>>
    BY <1>a, <1>b, <1>8 DEF RootDispatches, StreamEnded, OneEnd, EndAtTail
  <2>2. CASE b
    <3>1. /\ root' \in RootRun
          /\ root'.pc = root.pc
          /\ root'.run = root.run
          /\ root'.transferred = root.transferred
          /\ root'.suspended = TRUE
          /\ root'.finished = root.finished
          /\ root'.cancelled = root.cancelled
      BY <1>a, <1>b, <1>8, <2>2 DEF RootDispatches, RootRun
    <3>2. TypedWriting
      BY <1>a, <1>8, <2>2, <3>1 DEF RootDispatches, TypedWriting
    <3>3. Writing'
      <4>1. /\ sub' = "runs" /\ sub = "none" /\ root.pc = "running" /\ root.run < MaxRootRuns
            /\ dropped' = dropped
        BY <1>8, <2>2 DEF RootDispatches
      <4>2. cut' <=> cut \/ root.transferred
        BY <1>8 DEF RootDispatches
      <4> QED
        BY <1>a, <1>b, <2>1, <3>1, <4>1, <4>2 DEF Writing, CalleeKnown, EndsOnce, EndComes
    <3> QED BY <3>2, <3>3
  <2>3. CASE ~b
    <3>1. /\ root' \in RootRun
          /\ root'.pc = root.pc
          /\ root'.run = root.run
          /\ root'.transferred = TRUE
          /\ root'.suspended = root.suspended
          /\ root'.finished = root.finished
          /\ root'.cancelled = root.cancelled
      BY <1>a, <1>b, <1>8, <2>3 DEF RootDispatches, RootRun
    <3>2. TypedWriting
      BY <1>a, <1>8, <2>3, <3>1 DEF RootDispatches, TypedWriting
    <3>3. Writing'
      BY <1>a, <1>b, <1>8, <2>1, <2>3, <3>1 DEF RootDispatches, Writing, CalleeKnown, EndsOnce,
         EndComes
    <3> QED BY <3>2, <3>3
  <2> QED BY <2>2, <2>3
<1>9. ASSUME NEW b \in BOOLEAN, RootReturns(b)
      PROVE  TypedWriting /\ Writing'
  <2>1. UNCHANGED <<StreamEnded, OneEnd, EndAtTail>>
    BY <1>a, <1>b, <1>9 DEF RootReturns, StreamEnded, OneEnd, EndAtTail
  <2>2. /\ root' \in RootRun
        /\ root'.pc = (IF b THEN "reply" ELSE "close")
        /\ root'.run = root.run
        /\ root'.transferred = root.transferred
        /\ root'.suspended = root.suspended
        /\ root'.finished = root.finished
        /\ root'.cancelled = root.cancelled
    BY <1>a, <1>b, <1>9 DEF RootReturns, RootRun, RootPc
  <2>3. TypedWriting
    BY <1>a, <1>b, <1>9, <2>1, <2>2 DEF RootReturns, TypedWriting
  <2>4. Writing'
    BY <1>a, <1>b, <1>9, <2>1, <2>2 DEF RootReturns, Writing, CalleeKnown, EndsOnce, EndComes
  <2> QED BY <2>3, <2>4
<1>10. ASSUME NEW b \in BOOLEAN, RootRaises(b)
      PROVE  TypedWriting /\ Writing'
  <2>1. UNCHANGED <<StreamEnded, OneEnd, EndAtTail>>
    BY <1>a, <1>b, <1>10 DEF RootRaises, StreamEnded, OneEnd, EndAtTail
  <2>2. /\ root' \in RootRun
        /\ root'.pc = "failing"
        /\ root'.run = root.run
        /\ root'.transferred = root.transferred
        /\ root'.suspended = root.suspended
        /\ root'.finished = root.finished
        /\ root'.cancelled = b
    BY <1>a, <1>b, <1>10 DEF RootRaises, RootRun, RootPc
  <2>3. TypedWriting
    <3>1. streamFaults' \in 0..MaxStreamFaults
      <4>1. StreamFault \/ UNCHANGED streamFaults
        BY <1>10, Zenon DEF RootRaises
      <4> QED
        BY <1>a, <4>1 DEF StreamFault
    <3>2. cut' \in BOOLEAN /\ UNCHANGED <<entries, sub, dropped>>
      BY <1>10 DEF RootRaises
    <3> QED
      BY <1>a, <2>2, <3>1, <3>2 DEF TypedWriting
  <2>4. Writing'
    BY <1>a, <1>b, <1>10, <2>1, <2>2 DEF RootRaises, Writing, CalleeKnown, EndsOnce, EndComes,
       StreamFault
  <2> QED BY <2>3, <2>4
<1> QED
  BY <1>1, <1>2, <1>3, <1>4, <1>5, <1>6, <1>7, <1>8, <1>9, <1>10
LEMMA TailOf ==
    ASSUME NEW q \in Seq(Nat), q # <<>>
    PROVE  /\ Tail(q) \in Seq(Nat) /\ Len(q) \in Nat \ {0} /\ Len(Tail(q)) = Len(q) - 1
           /\ \A i \in 1..Len(Tail(q)) : Tail(q)[i] = q[i + 1]
           /\ Head(q) = q[1] /\ Head(q) \in Nat
           /\ Tail(q) = <<>> <=> Len(q) = 1
<1>1. /\ Tail(q) \in Seq(Nat) /\ Len(Tail(q)) = Len(q) - 1
      /\ \A i \in 1..Len(Tail(q)) : Tail(q)[i] = q[i + 1]
      /\ Head(q) \in Nat
  BY HeadTailProperties
<1>2. Len(q) \in Nat \ {0} /\ Head(q) = q[1]
  BY EmptySeq
<1>3. Tail(q) = <<>> <=> Len(q) = 1
  <2>1. Len(<<>>) = 0
    OBVIOUS
  <2>2. Tail(q) = <<>> => Len(Tail(q)) = 0
    BY <2>1, Zenon
  <2>3. Tail(q) # <<>> => Len(Tail(q)) \in Nat \ {0}
    BY <1>1, EmptySeq
  <2> QED
    BY <1>1, <1>2, <2>2, <2>3
<1> QED
  BY <1>1, <1>2, <1>3

\* What a read returns follows the id it was given.
LEMMA ReadFollows ==
    ASSUME NEW id \in Nat, Len(entries) \in Nat, id < Len(entries), BatchCount \in Nat \ {0}
    PROVE  LET got == ReadAfter(id) IN
           /\ got \in Seq(Nat) /\ Len(got) \in Nat \ {0} /\ id + Len(got) <= Len(entries)
           /\ \A i \in 1..Len(got) : got[i] = id + i
           /\ DOMAIN got = 1..Len(got)
<1> DEFINE n == IF Len(entries) - id < BatchCount THEN Len(entries) - id ELSE BatchCount
           got == [i \in 1..n |-> id + i]
<1>1. n \in Nat \ {0} /\ id + n <= Len(entries)
  OBVIOUS
<1>2. ReadAfter(id) = got
  BY DEF ReadAfter
<1> HIDE DEF n
<1>3. got \in Seq(Nat) /\ Len(got) = n /\ DOMAIN got = 1..n
  BY <1>1
<1> QED
  BY <1>1, <1>2, <1>3

TypedReading ==
    /\ checkpoint' \in 0..MaxEntries /\ readers' \in [Reader -> ReaderRecord]
    /\ processed' \subseteq 1..MaxEntries /\ watch' \in WatchRecord
    /\ streamFaults' \in 0..MaxStreamFaults

ReaderPc == {"never", "off", "read", "body", "commit"}

\* What it takes when one reader moves.
LEMMA ReaderMoves ==
    ASSUME StreamAssumption, StreamTypeOK, Reading, NEW r \in Reader,
           NEW pc \in ReaderPc, NEW at \in Nat, NEW todo \in Seq(Nat),
           readers' \in [Reader -> ReaderRecord],
           readers'[r].pc = pc, readers'[r].at = at, readers'[r].todo = todo,
           \A q \in Reader \ {r} : readers'[q] = readers[q],
           entries' = entries, watch' = watch,
           processed \subseteq processed', processed' \subseteq 1..Len(entries),
           checkpoint' \in 0..Len(entries), 1..checkpoint' \subseteq processed',
           streamFaults' \in 0..MaxStreamFaults,
           at + Len(todo) <= Len(entries),
           \A i \in 1..Len(todo) : todo[i] = at + i,
           1..at \subseteq processed',
           pc \in {"body", "commit"} => todo # <<>>,
           pc = "commit" => at + 1 \in processed'
    PROVE  TypedReading /\ Reading'
<1>1. /\ MaxEntries \in Nat /\ Len(entries) \in Nat /\ Len(entries) <= MaxEntries
      /\ watch \in WatchRecord
  BY LenProperties DEF StreamAssumption, StreamTypeOK
<1>2. TypedReading
  BY <1>1 DEF TypedReading
<1>3. Fetched(r)'
  BY DEF Fetched
<1>4. ASSUME NEW q \in Reader \ {r}
      PROVE  Fetched(q)'
  <2>1. Fetched(q) /\ readers'[q] = readers[q]
    BY DEF Reading
  <2> QED
    BY <2>1 DEF Fetched
<1> QED
  BY <1>3, <1>4, <1>2 DEF Reading, CommittedWasProcessed

\* Every step of who reads it.
LEMMA ReadingSteps ==
    ASSUME StreamAssumption, StreamTypeOK, Reading, NEW r \in Reader,
           \/ GetCheckpoint(r) \/ ReadDataMessages(r) \/ BodyCompletes(r)
           \/ CommitDataMessage(r) \/ ReaderStops(r)
    PROVE  TypedReading /\ Reading'
<1>a. /\ MaxEntries \in Nat /\ BatchCount \in Nat \ {0} /\ MaxStreamFaults \in Nat
      /\ entries \in Seq(Entry) /\ Len(entries) \in Nat /\ Len(entries) <= MaxEntries
      /\ checkpoint \in 0..MaxEntries /\ readers \in [Reader -> ReaderRecord]
      /\ streamFaults \in 0..MaxStreamFaults
  BY LenProperties DEF StreamAssumption, StreamTypeOK, Entry
<1>b. PICK pc \in ReaderPc, at \in Nat, todo \in Seq(Nat) :
         readers[r].pc = pc /\ readers[r].at = at /\ readers[r].todo = todo
  BY <1>a DEF ReaderRecord, ReaderPc
<1>c. /\ at + Len(todo) <= Len(entries) /\ 1..at \subseteq processed
      /\ \A i \in 1..Len(todo) : todo[i] = at + i
      /\ pc \in {"body", "commit"} => todo # <<>>
      /\ pc = "commit" => at + 1 \in processed
      /\ checkpoint \in 0..Len(entries) /\ processed \subseteq 1..Len(entries)
      /\ 1..checkpoint \subseteq processed /\ Len(todo) \in Nat
  <2>1. Fetched(r)
    BY DEF Reading
  <2>2. checkpoint <= Len(entries) /\ processed \subseteq 1..Len(entries)
        /\ 1..checkpoint \subseteq processed
    BY DEF Reading, CommittedWasProcessed
  <2>3. checkpoint \in 0..Len(entries) /\ Len(todo) \in Nat
    BY <1>a, <2>2, LenProperties
  <2> QED
    BY <1>b, <2>1, <2>2, <2>3 DEF Fetched
\* A body is at work on the entry after the last one it has seen.
<1>d. ASSUME pc \in {"body", "commit"}
      PROVE  /\ Tail(todo) \in Seq(Nat) /\ Len(todo) \in Nat \ {0}
                /\ Len(Tail(todo)) = Len(todo) - 1
             /\ Head(todo) = at + 1 /\ at + 1 \in 1..Len(entries)
             /\ \A i \in 1..Len(Tail(todo)) : Tail(todo)[i] = at + 1 + i
             /\ at + 1 + Len(Tail(todo)) <= Len(entries)
  <2>1. /\ Tail(todo) \in Seq(Nat) /\ Len(todo) \in Nat \ {0} /\ Len(Tail(todo)) = Len(todo) - 1
        /\ \A i \in 1..Len(Tail(todo)) : Tail(todo)[i] = todo[i + 1]
        /\ Head(todo) = todo[1]
    BY <1>c, <1>d, TailOf
  <2>2. Head(todo) = at + 1 /\ at + 1 \in 1..Len(entries)
    BY <1>a, <1>c, <2>1
  <2>3. \A i \in 1..Len(Tail(todo)) : Tail(todo)[i] = at + 1 + i
    <3> SUFFICES ASSUME NEW i \in 1..Len(Tail(todo))
                 PROVE  Tail(todo)[i] = at + 1 + i
      OBVIOUS
    <3>1. i + 1 \in 1..Len(todo) /\ Tail(todo)[i] = todo[i + 1]
      BY <2>1
    <3> QED
      BY <1>c, <3>1
  <2> QED
    BY <1>a, <1>c, <2>1, <2>2, <2>3
<1>1. ASSUME GetCheckpoint(r)
      PROVE  TypedReading /\ Reading'
  <2>1. PICK c \in Nat : c = checkpoint
    BY <1>c
  <2>2. /\ readers' \in [Reader -> ReaderRecord]
        /\ readers'[r].pc = "read" /\ readers'[r].at = c /\ readers'[r].todo = <<>>
        /\ \A q \in Reader \ {r} : readers'[q] = readers[q]
        /\ UNCHANGED <<entries, checkpoint, processed, watch, streamFaults>>
    BY <1>1, <1>a, <2>1 DEF GetCheckpoint, writing, ReaderRecord
  <2>3. <<>> \in Seq(Nat) /\ Len(<<>>) = 0 /\ "read" \in ReaderPc
        /\ (\A i \in 1..0 : <<>>[i] = c + i)
    BY DEF ReaderPc
  <2>4. c + 0 <= Len(entries) /\ 1..c \subseteq processed'
    BY <1>a, <1>c, <2>1, <2>2
  <2> QED
    BY <1>a, <1>c, <2>2, <2>3, <2>4, ReaderMoves
<1>2. ASSUME ReadDataMessages(r)
      PROVE  TypedReading /\ Reading'
  <2>1. pc = "read" /\ at < Len(entries)
    BY <1>2, <1>b DEF ReadDataMessages
  <2>2. PICK got \in Seq(Nat) :
           /\ got = ReadAfter(at) /\ Len(got) \in Nat \ {0} /\ at + Len(got) <= Len(entries)
           /\ \A i \in 1..Len(got) : got[i] = at + i
    BY <1>a, <2>1, ReadFollows
  <2>3. got # <<>>
    BY <2>2
  <2>4. /\ readers' \in [Reader -> ReaderRecord]
        /\ readers'[r].pc = "body" /\ readers'[r].at = at /\ readers'[r].todo = got
        /\ \A q \in Reader \ {r} : readers'[q] = readers[q]
        /\ UNCHANGED <<entries, checkpoint, processed, watch, streamFaults>>
    BY <1>2, <1>a, <1>b, <2>2 DEF ReadDataMessages, writing, ReaderRecord
  <2>5. "body" \in ReaderPc /\ 1..at \subseteq processed'
    BY <1>c, <2>4 DEF ReaderPc
  <2> QED
    BY <1>a, <1>c, <2>2, <2>3, <2>4, <2>5, ReaderMoves
<1>3. ASSUME BodyCompletes(r)
      PROVE  TypedReading /\ Reading'
  <2>1. pc = "body" /\ processed' = processed \cup {Head(todo)}
    BY <1>3, <1>b DEF BodyCompletes
  <2>2. /\ readers' \in [Reader -> ReaderRecord]
        /\ readers'[r].pc = "commit" /\ readers'[r].at = at /\ readers'[r].todo = todo
        /\ \A q \in Reader \ {r} : readers'[q] = readers[q]
        /\ UNCHANGED <<entries, checkpoint, watch, streamFaults>>
    BY <1>3, <1>a, <1>b DEF BodyCompletes, writing, ReaderRecord
  <2>3. /\ processed \subseteq processed' /\ processed' \subseteq 1..Len(entries)
        /\ at + 1 \in processed' /\ 1..at \subseteq processed'
           /\ 1..checkpoint' \subseteq processed'
        /\ checkpoint' \in 0..Len(entries) /\ "commit" \in ReaderPc
    BY <1>c, <1>d, <2>1, <2>2 DEF ReaderPc
  <2>4. todo # <<>>
    BY <1>c, <2>1
  <2>5. "commit" \in ReaderPc /\ streamFaults' \in 0..MaxStreamFaults
    BY <1>a, <2>2 DEF ReaderPc
  <2> HIDE DEF ReaderPc
  <2> QED
    BY <1>c, <2>2, <2>3, <2>4, <2>5, ReaderMoves
<1>4. ASSUME CommitDataMessage(r)
      PROVE  TypedReading /\ Reading'
  <2>1. pc = "commit" /\ checkpoint' = at + 1
    BY <1>4, <1>b, <1>d DEF CommitDataMessage
  <2>2. PICK rest \in Seq(Nat), next \in {"read", "body"} :
           /\ rest = Tail(todo) /\ next = (IF rest = <<>> THEN "read" ELSE "body")
    BY <1>d, <2>1
  <2>3. /\ readers' \in [Reader -> ReaderRecord]
        /\ readers'[r].pc = next /\ readers'[r].at = at + 1 /\ readers'[r].todo = rest
        /\ \A q \in Reader \ {r} : readers'[q] = readers[q]
        /\ UNCHANGED <<entries, processed, watch, streamFaults>>
    <3>1. readers' = [readers EXCEPT ![r].todo = rest, ![r].at = at + 1, ![r].pc = next]
      BY <1>4, <1>b, <1>d, <2>1, <2>2 DEF CommitDataMessage
    <3>2. UNCHANGED <<entries, processed, watch, streamFaults>>
      BY <1>4 DEF CommitDataMessage, writing
    <3>3. readers \in [Reader -> ReaderRecord] /\ at + 1 \in Nat
      BY <1>a
    <3>4. PICK to \in Nat : to = at + 1
      BY <3>3
    <3>5. readers' = [readers EXCEPT ![r].todo = rest, ![r].at = to, ![r].pc = next]
      BY <3>1, <3>4
    <3>6. /\ readers' \in [Reader -> ReaderRecord]
          /\ readers'[r].pc = next /\ readers'[r].at = to /\ readers'[r].todo = rest
          /\ \A q \in Reader \ {r} : readers'[q] = readers[q]
      <4>1. readers' \in [Reader -> ReaderRecord]
        BY <3>3, <3>5 DEF ReaderRecord
      <4>2. readers'[r].pc = next /\ readers'[r].at = to /\ readers'[r].todo = rest
        BY <3>3, <3>5 DEF ReaderRecord
      <4>3. \A q \in Reader \ {r} : readers'[q] = readers[q]
        BY <3>3, <3>5 DEF ReaderRecord
      <4> QED
        BY <4>1, <4>2, <4>3
    <3> QED
      BY <3>2, <3>4, <3>6
  <2>4. 1..(at + 1) \subseteq processed
    BY <1>c, <2>1
  <2>5. /\ at + 1 + Len(rest) <= Len(entries)
        /\ \A i \in 1..Len(rest) : rest[i] = at + 1 + i
        /\ at + 1 \in 0..Len(entries) /\ at + 1 \in Nat
    BY <1>a, <1>d, <2>1, <2>2
  <2>6. next \in ReaderPc /\ next # "commit" /\ (next = "body" => rest # <<>>)
    BY <2>2 DEF ReaderPc
  <2> QED
    BY <1>a, <1>c, <2>1, <2>3, <2>4, <2>5, <2>6, ReaderMoves
<1>5. ASSUME ReaderStops(r)
      PROVE  TypedReading /\ Reading'
  <2>1. /\ readers' \in [Reader -> ReaderRecord]
        /\ readers'[r].pc = "off" /\ readers'[r].at = 0 /\ readers'[r].todo = <<>>
        /\ \A q \in Reader \ {r} : readers'[q] = readers[q]
    BY <1>5, <1>a DEF ReaderStops, NewReader, ReaderRecord
  <2>2. /\ UNCHANGED <<entries, checkpoint, processed, watch>>
        /\ streamFaults' \in 0..MaxStreamFaults
    BY <1>5, <1>a DEF ReaderStops, writing, StreamFault
  <2>3. /\ <<>> \in Seq(Nat) /\ Len(<<>>) = 0 /\ "off" \in ReaderPc /\ 0 \in Nat
        /\ 1..0 \subseteq processed' /\ (\A i \in 1..0 : <<>>[i] = 0 + i)
    BY DEF ReaderPc
  <2>4. PICK none \in Seq(Nat), zero \in Nat : none = <<>> /\ zero = 0
    BY <2>3
  <2>5. /\ zero + Len(none) <= Len(entries) /\ 1..zero \subseteq processed'
        /\ \A i \in 1..Len(none) : none[i] = zero + i
    BY <1>a, <2>3, <2>4
  <2>6. readers'[r].at = zero /\ readers'[r].todo = none
    BY <2>1, <2>4
  <2>7. /\ processed \subseteq processed' /\ processed' \subseteq 1..Len(entries)
        /\ checkpoint' \in 0..Len(entries) /\ 1..checkpoint' \subseteq processed'
        /\ entries' = entries /\ watch' = watch
    BY <1>c, <2>2
  <2> QED
    BY <2>1, <2>2, <2>3, <2>5, <2>6, <2>7, ReaderMoves
<1> QED
  BY <1>1, <1>2, <1>3, <1>4, <1>5

\* A reader without a checkpoint touches nothing of the others.
LEMMA WatchSteps ==
    ASSUME StreamAssumption, StreamTypeOK, IterReads \/ IterReturns \/ IterTimesOut
    PROVE  watch' \in WatchRecord
           /\ UNCHANGED <<checkpoint, readers, processed, streamFaults, writing>>
<1>1. /\ MaxEntries \in Nat /\ BatchCount \in Nat \ {0} /\ entries \in Seq(Entry)
      /\ Len(entries) \in Nat /\ watch \in WatchRecord
  BY LenProperties DEF StreamAssumption, StreamTypeOK, Entry
<1>2. UNCHANGED <<checkpoint, readers, processed, streamFaults, writing>>
  BY DEF IterReads, IterReturns, IterTimesOut
<1>3. ASSUME IterReads
      PROVE  watch' \in WatchRecord
  <2>1. PICK at \in Nat, from \in Nat :
           watch' = [watch EXCEPT !.pc = "blocked", !.at = at, !.from = from]
    BY <1>1, <1>3 DEF IterReads, WatchRecord
  <2> QED
    BY <1>1, <2>1 DEF WatchRecord
<1>4. ASSUME IterReturns
      PROVE  watch' \in WatchRecord
  <2>1. /\ watch.at \in Nat /\ watch.at < Len(entries)
        /\ LET got == ReadAfter(watch.at)
           IN  watch' = [watch EXCEPT !.pc = "idle", !.dollar = FALSE, !.at = watch.at + Len(got),
                            !.seen = watch.seen \cup {got[i] : i \in DOMAIN got}]
    BY <1>1, <1>4 DEF IterReturns, WatchRecord
  <2>2. PICK got \in Seq(Nat) : got = ReadAfter(watch.at) /\ Len(got) \in Nat
             /\ DOMAIN got = 1..Len(got)
    BY <1>1, <2>1, ReadFollows
  <2>3. PICK at \in Nat, seen \in SUBSET Nat :
           watch' = [watch EXCEPT !.pc = "idle", !.dollar = FALSE, !.at = at, !.seen = seen]
    <3>1. watch.at + Len(got) \in Nat
      BY <2>1, <2>2
    <3>2. watch.seen \cup {got[i] : i \in DOMAIN got} \in SUBSET Nat
      BY <1>1, <2>2 DEF WatchRecord
    <3> QED
      BY <2>1, <2>2, <3>1, <3>2, Zenon
  <2> QED
    BY <1>1, <2>3 DEF WatchRecord
<1>5. ASSUME IterTimesOut
      PROVE  watch' \in WatchRecord
  BY <1>1, <1>5 DEF IterTimesOut, WatchRecord
<1> QED
  BY <1>2, <1>3, <1>4, <1>5
\* The stream starts empty, its readers before the first entry.
LEMMA StreamInitOK ==
    ASSUME StreamAssumption, StreamInit
    PROVE  StreamOK
<1>1. PICK consuming \in BOOLEAN :
         LET pc(reads) == IF reads THEN "off" ELSE "never"
         IN  /\ readers = [r \in Reader |-> [NewReader EXCEPT !.pc = pc(consuming)]]
             /\ watch = [pc |-> pc(~consuming), dollar |-> TRUE, at |-> 0, from |-> 0, seen |-> {}]
  BY DEF StreamInit
<1>2. PICK p \in {"off", "never"}, w \in {"off", "never"} :
         /\ readers = [r \in Reader |-> [NewReader EXCEPT !.pc = p]]
         /\ watch = [pc |-> w, dollar |-> TRUE, at |-> 0, from |-> 0, seen |-> {}]
  BY <1>1
<1>3. /\ readers \in [Reader -> ReaderRecord]
      /\ \A r \in Reader : readers[r].pc = p /\ readers[r].at = 0 /\ readers[r].todo = <<>>
  <2>1. ASSUME NEW d, d = [NewReader EXCEPT !.pc = p]
        PROVE  d \in ReaderRecord /\ d.pc = p /\ d.at = 0 /\ d.todo = <<>>
    <3>1. /\ NewReader \in ReaderRecord /\ NewReader.at = 0 /\ NewReader.todo = <<>>
      BY DEF NewReader, ReaderRecord
    <3> QED
      BY <2>1, <3>1 DEF ReaderRecord
  <2> QED
    BY <1>2, <2>1
<1>4. watch \in WatchRecord
  BY <1>2 DEF WatchRecord
<1>5. /\ entries = <<>> /\ entries \in Seq(Entry) /\ Len(entries) = 0
      /\ root \in RootRun /\ root.pc = "running" /\ ~root.suspended /\ ~root.transferred
      /\ ~root.cancelled /\ ~root.finished
      /\ sub = "none" /\ dropped = FALSE /\ cut = FALSE /\ checkpoint = 0 /\ processed = {}
      /\ streamFaults = 0
  BY DEF StreamAssumption, StreamInit, NewRun, RootRun, RootPc
<1>6. StreamTypeOK
  <2>1. /\ checkpoint \in 0..MaxEntries /\ processed \subseteq 1..MaxEntries
        /\ streamFaults \in 0..MaxStreamFaults /\ Len(entries) <= MaxEntries
    BY <1>5 DEF StreamAssumption
  <2>2. sub \in {"none", "runs", "heir"} /\ dropped \in BOOLEAN /\ cut \in BOOLEAN
    BY <1>5
  <2> QED
    BY <1>3, <1>4, <1>5, <2>1, <2>2 DEF StreamTypeOK, Entry
<1>7. Writing
  BY <1>5 DEF Writing, CalleeKnown, EndsOnce, EndComes, StreamEnded, OneEnd, EndAtTail
<1>8. Reading
  BY <1>3, <1>5 DEF Reading, Fetched, CommittedWasProcessed
<1> QED
  BY <1>6, <1>7, <1>8 DEF StreamOK

\* Each step preserves the invariant.
LEMMA StreamStepOK ==
    ASSUME StreamAssumption, StreamOK, [StreamNext]_streamVars
    PROVE  StreamOK'
<1>1. StreamTypeOK /\ Writing /\ Reading
  BY DEF StreamOK
<1>2. Len(entries) \in Nat /\ \A r \in Reader : readers[r].at \in Nat
      /\ Len(readers[r].todo) \in Nat
  BY <1>1, LenProperties DEF StreamTypeOK, ReaderRecord
<1>3. ASSUME \/ RootEmits \/ FinalAnswer \/ CloseStream \/ CloseFails \/ SubReplies \/ HeirCloses
             \/ \E t \in {"delta", "end"} : CalleeEmits(t)
             \/ \E b \in BOOLEAN : RootDispatches(b) \/ RootReturns(b) \/ RootRaises(b)
      PROVE  StreamOK'
  <2>1. TypedWriting /\ Writing'
    BY <1>1, <1>3, WritingSteps
  <2>2. UNCHANGED reading
    BY <1>3 DEF RootEmits, FinalAnswer, CloseStream, CloseFails, SubReplies, HeirCloses,
       CalleeEmits,
       RootDispatches, RootReturns, RootRaises
  <2>3. Len(entries') \in Nat /\ Len(entries) <= Len(entries')
    BY <2>1, LenProperties DEF TypedWriting
  <2>4. StreamTypeOK'
    BY <1>1, <2>1, <2>2 DEF StreamTypeOK, TypedWriting, reading, Entry
  <2>5. Reading'
    BY <1>1, <1>2, <2>2, <2>3 DEF Reading, Fetched, reading, CommittedWasProcessed, StreamTypeOK
  <2> QED
    BY <2>1, <2>4, <2>5 DEF StreamOK
<1>4. ASSUME UNCHANGED writing
      PROVE  Writing'
  BY <1>1, <1>4 DEF writing, Writing, CalleeKnown, EndsOnce, EndComes, StreamEnded, OneEnd,
     EndAtTail
<1>5. ASSUME NEW r \in Reader,
             \/ GetCheckpoint(r) \/ ReadDataMessages(r) \/ BodyCompletes(r)
             \/ CommitDataMessage(r) \/ ReaderStops(r)
      PROVE  StreamOK'
  <2>1. TypedReading /\ Reading'
    BY <1>1, <1>5, ReadingSteps
  <2>2. UNCHANGED writing
    BY <1>5 DEF GetCheckpoint, ReadDataMessages, BodyCompletes, CommitDataMessage, ReaderStops
  <2> QED
    BY <1>1, <1>4, <2>1, <2>2 DEF StreamOK, StreamTypeOK, TypedReading, writing
<1>6. ASSUME IterReads \/ IterReturns \/ IterTimesOut
      PROVE  StreamOK'
  <2>1. watch' \in WatchRecord
        /\ UNCHANGED <<checkpoint, readers, processed, streamFaults, writing>>
    BY <1>1, <1>6, WatchSteps
  <2>2. StreamTypeOK'
    BY <1>1, <2>1 DEF StreamTypeOK, writing
  <2>3. Reading'
    BY <1>1, <2>1 DEF Reading, Fetched, CommittedWasProcessed, writing
  <2> QED
    BY <1>4, <2>1, <2>2, <2>3 DEF StreamOK
<1>7. ASSUME UNCHANGED streamVars
      PROVE  StreamOK'
  <2>1. UNCHANGED <<writing, reading, streamFaults>>
    BY <1>7 DEF streamVars, writing, reading
  <2>2. StreamTypeOK' /\ Reading'
    BY <1>1, <2>1 DEF StreamTypeOK, Reading, Fetched, CommittedWasProcessed, writing, reading
  <2> QED
    BY <1>4, <2>1, <2>2 DEF StreamOK
<1> QED
  BY <1>3, <1>5, <1>6, <1>7 DEF StreamNext

\* In every reachable state the right to close the stream has one holder, and every
\* reader holds the entries that follow what was processed (worker.py, client.py).
THEOREM StreamInvariant == StreamSpec => []StreamOK
<1>1. StreamInit => StreamOK
  BY StreamInitOK, StreamAssumption
<1>2. StreamOK /\ [StreamNext]_streamVars => StreamOK'
  BY StreamStepOK, StreamAssumption
<1> QED
  BY <1>1, <1>2, PTL DEF StreamSpec

\* Unless a run was cut the end of the stream is there once, the last entry of an
\* execution that did not pass it on; unless an append failed, an execution that is
\* done and waits for nothing has closed its stream (worker.py).
THEOREM StreamClosesOnce == StreamSpec => []StreamEndsOnce
<1>1. ASSUME StreamOK
      PROVE  StreamEndsOnce
  <2>1. entries \in Seq(Entry)
    BY <1>1 DEF StreamOK, StreamTypeOK, Entry
  <2>2. DOMAIN entries = 1..Len(entries)
    BY <2>1, LenProperties
  <2>3. StreamEnded <=> "end" \in {entries[i] : i \in DOMAIN entries}
    BY <2>2 DEF StreamEnded
  <2>4. dropped \/ DoneIsClosed
    BY <1>1, <2>3 DEF StreamOK, Writing, EndComes, DoneIsClosed
  <2>5. cut \/ EndIsLast
    <3>1. ASSUME ~cut, NEW i \in DOMAIN entries, entries[i] = "end"
          PROVE  /\ \A j \in DOMAIN entries : entries[j] = "end" => j = i
                 /\ root.transferred \/ (i = Len(entries) /\ root.pc = "done" /\ sub = "none")
      <4>1. StreamEnded
        BY <2>2, <3>1 DEF StreamEnded
      <4> QED
        BY <1>1, <2>2, <3>1, <4>1 DEF StreamOK, Writing, EndsOnce, OneEnd, EndAtTail
    <3> QED
      BY <3>1 DEF EndIsLast
  <2> QED
    BY <2>4, <2>5 DEF StreamEndsOnce
<1> QED
  BY <1>1, StreamInvariant, PTL

\* A committed checkpoint covers only entries that were processed, whoever of two
\* consumers committed it (client.py).
THEOREM NothingSkipped == StreamSpec => []CommittedWasProcessed
<1>1. StreamOK => CommittedWasProcessed
  BY DEF StreamOK, Reading
<1> QED
  BY <1>1, StreamInvariant, PTL

-----------------------------------------------------------------------------
(* ServiceDiscovery: instances, cached picks and HTTP calls.               *)

\* Where a call is says how often it has tried and where its file stands.
Calling ==
    /\ call.pc = "resolve" => call.attempt < MaxAttempts
    /\ refreshing["call"].on => call.pc = "resolve"
    /\ call.kind = "upload" =>
          /\ call.pc \in {"resolve", "send"} => call.offset = "start"
          /\ call.pc \notin {"pause", "body"}
    /\ call.pc = "body" => call.file = "part"

\* Nothing the client keeps of an instance is younger than its last heartbeat.
Aged ==
    \A i \in Instance :
        /\ insts[i].beat <= score[i]
        /\ insts[i].beat <= cache.seen[i]
        /\ \A a \in Refresher : refreshing[a].on => insts[i].beat <= refreshing[a].seen[i]

\* The inductive invariant of ServiceDiscovery.
DiscoveryOK == DiscoveryTypeOK /\ Calling /\ BodiesAreWhole /\ Aged

\* What the client caches of the registered instances.
Cache == [ids : SUBSET Instance, seen : [Instance -> Age], age : 0..CacheInterval + 1]

\* Ages are bounded, and stay in order as they grow.
LEMMA Ages ==
    /\ Stale \in Nat /\ 0 \in Age /\ Stale \in Age
    /\ \A n \in Age : n \in Nat /\ n <= Stale /\ Older(n) \in Age /\ n <= Older(n)
    /\ \A n, m \in Age : n <= m => Older(n) <= Older(m)
  BY DiscoveryAssumption DEF Stale, Age, Older

LEMMA NoRefreshTyped == NoRefresh \in RefreshRecord /\ ~NoRefresh.on
<1>1. [i \in Instance |-> Stale] \in [Instance -> Age] /\ CacheInterval \in Nat
  BY Ages, DiscoveryAssumption
<1> QED
  BY <1>1 DEF NoRefresh, RefreshRecord

\* A call before its first attempt.
LEMMA NewCallTyped ==
    ASSUME NEW kind \in Kind
    PROVE  /\ NewCall(kind) \in CallRecord
           /\ NewCall(kind).pc = "resolve" /\ NewCall(kind).kind = kind
           /\ NewCall(kind).attempt = 0 /\ NewCall(kind).offset = "start"
           /\ NewCall(kind).sent = "none" /\ NewCall(kind).file = "none"
<1>1. 0 \in 0..MaxAttempts
  BY DiscoveryAssumption
<1> QED
  BY <1>1 DEF NewCall, CallRecord, CallPc, Kind

\* Nothing is registered, cached or called at first.
LEMMA DiscoveryStart == DiscoveryInit => DiscoveryOK
<1> SUFFICES ASSUME DiscoveryInit
             PROVE  DiscoveryOK
  OBVIOUS
<1>1. PICK c \in CallRecord : c = NewCall("request")
  BY NewCallTyped DEF Kind
<1>2. call = [c EXCEPT !.pc = "idle"]
  BY <1>1 DEF DiscoveryInit
<1>3. call \in CallRecord /\ call.pc = "idle" /\ call.kind = "request" /\ call.sent = "none"
  <2>1. c.kind = "request" /\ c.sent = "none"
    BY <1>1, NewCallTyped DEF Kind
  <2> QED
    BY <1>2, <2>1 DEF CallRecord, CallPc
<1>4. insts \in [Instance -> InstRecord] /\ \A i \in Instance : insts[i].beat = Stale
  <2>1. [pc |-> "down", due |-> 0, beat |-> Stale, flying |-> FALSE] \in InstRecord
    BY Ages DEF InstRecord, InstPc
  <2> QED
    BY <2>1 DEF DiscoveryInit
<1>5. refreshing \in [Refresher -> RefreshRecord] /\ \A a \in Refresher : ~refreshing[a].on
  BY NoRefreshTyped DEF DiscoveryInit
<1>6. cache \in Cache /\ \A i \in Instance : cache.seen[i] = Stale
  <2>1. [i \in Instance |-> Stale] \in [Instance -> Age]
        /\ CacheInterval + 1 \in 0..CacheInterval + 1
    BY Ages, DiscoveryAssumption
  <2>2. NoRefresh.seen = [i \in Instance |-> Stale]
    BY DEF NoRefresh
  <2> QED
    BY <2>1, <2>2 DEF DiscoveryInit, Cache
<1>7. score \in [Instance -> Age] /\ \A i \in Instance : score[i] = Stale
  BY Ages DEF DiscoveryInit
<1>8. DiscoveryTypeOK
  <2>1. registered \in SUBSET Instance /\ details \in SUBSET Instance
    BY DEF DiscoveryInit
  <2>2. sdFaults \in 0..MaxSdFaults
    BY DiscoveryAssumption DEF DiscoveryInit
  <2> QED
    BY <1>3, <1>4, <1>5, <1>6, <1>7, <2>1, <2>2 DEF DiscoveryTypeOK, Cache
<1>9. Aged
  <2>1. Stale <= Stale
    BY Ages
  <2> QED
    BY <1>4, <1>5, <1>6, <1>7, <2>1 DEF Aged
<1>10. Calling /\ BodiesAreWhole
  BY <1>3, <1>5 DEF Calling, BodiesAreWhole, Refresher
<1> QED
  BY <1>8, <1>9, <1>10 DEF DiscoveryOK

---------------------------------------------------------------------------
\* A step of one instance: its record, its score and its registration.
LEMMA OneInstance ==
    ASSUME DiscoveryOK, NEW i \in Instance, NEW inst \in InstRecord, NEW scored \in Age,
           inst.beat <= insts[i].beat, inst.beat <= scored,
           insts' = [insts EXCEPT ![i] = inst],
           score' = [score EXCEPT ![i] = scored],
           registered' \in SUBSET Instance, details' \in SUBSET Instance,
           sdFaults' \in 0..MaxSdFaults, UNCHANGED client
    PROVE  DiscoveryOK'
<1>1. DiscoveryTypeOK' /\ Calling' /\ BodiesAreWhole'
  BY DEF DiscoveryOK, DiscoveryTypeOK, Calling, BodiesAreWhole, client
<1>2. Aged'
  <2> SUFFICES ASSUME NEW j \in Instance
               PROVE  /\ insts'[j].beat <= score'[j]
                      /\ insts'[j].beat <= cache.seen[j]
                      /\ \A a \in Refresher :
                            refreshing[a].on => insts'[j].beat <= refreshing[a].seen[j]
    BY DEF Aged, client
  <2>1. /\ insts[j].beat \in Age /\ cache.seen[j] \in Age /\ inst.beat \in Age
        /\ \A a \in Refresher : refreshing[a].seen[j] \in Age
    BY DEF DiscoveryOK, DiscoveryTypeOK, InstRecord, RefreshRecord
  <2>2. /\ insts[j].beat <= score[j] /\ insts[j].beat <= cache.seen[j]
        /\ \A a \in Refresher : refreshing[a].on => insts[j].beat <= refreshing[a].seen[j]
    BY DEF DiscoveryOK, Aged
  <2>3. CASE j = i
    <3>1. insts'[j] = inst /\ score'[j] = scored
      BY <2>3 DEF DiscoveryOK, DiscoveryTypeOK
    <3>2. \A n \in Age : n \in Nat
      BY Ages
    <3> QED
      BY <2>1, <2>2, <2>3, <3>1, <3>2
  <2>4. CASE j # i
    <3>1. insts'[j] = insts[j] /\ score'[j] = score[j]
      BY <2>4 DEF DiscoveryOK, DiscoveryTypeOK
    <3> QED
      BY <2>2, <3>1
  <2> QED
    BY <2>3, <2>4
<1> QED
  BY <1>1, <1>2 DEF DiscoveryOK

\* What an instance does.
InstanceStep(i) == InstanceSteps(i) \/ HeartbeatFails(i) \/ Unregister(i) \/ InstanceDies(i)

\* No step of an instance makes the client know it younger than it is.
LEMMA InstanceKeeps ==
    ASSUME DiscoveryOK, NEW i \in Instance, InstanceStep(i)
    PROVE  DiscoveryOK'
<1>1. PICK inst \in InstRecord : inst = insts[i]
  BY DEF DiscoveryOK, DiscoveryTypeOK
<1>2. PICK age \in Age : age = score[i]
  BY DEF DiscoveryOK, DiscoveryTypeOK
<1>3. PICK beat \in Age : beat = inst.beat
  BY DEF InstRecord
<1>4. beat <= age /\ beat \in Nat /\ age \in Nat /\ 0 <= beat
  BY <1>1, <1>2, <1>3, Ages DEF DiscoveryOK, Aged
<1>5. /\ score' = score => score' = [score EXCEPT ![i] = age]
      /\ registered \in SUBSET Instance /\ details \in SUBSET Instance
      /\ sdFaults \in 0..MaxSdFaults
  BY <1>2 DEF DiscoveryOK, DiscoveryTypeOK
<1>6. SdFault => sdFaults' \in 0..MaxSdFaults
  BY <1>5, DiscoveryAssumption DEF SdFault
<1>7. ASSUME NEW after \in InstRecord, after.beat \in {0, beat},
              NEW scored \in {age, beat}, insts' = [insts EXCEPT ![i] = after],
              score' = [score EXCEPT ![i] = scored],
              registered' \in SUBSET Instance, details' \in SUBSET Instance,
              sdFaults' \in 0..MaxSdFaults, UNCHANGED client
       PROVE  DiscoveryOK'
  <2>1. after.beat <= beat /\ after.beat <= scored /\ scored \in Age
    BY <1>4, <1>7
  <2>2. after.beat <= insts[i].beat
    BY <1>1, <1>3, <2>1
  <2> QED
    BY <1>7, <2>1, <2>2, OneInstance
<1>8. CASE Register(i)
  <2> DEFINE after == [inst EXCEPT !.pc = "scoring", !.beat = 0]
  <2>1. /\ insts' = [insts EXCEPT ![i] = after] /\ details' = details \cup {i}
        /\ UNCHANGED <<registered, score, client, sdFaults>>
    BY <1>1, <1>8 DEF Register
  <2>2. after \in InstRecord /\ after.beat = 0
    BY Ages DEF InstRecord, InstPc
  <2> HIDE DEF after
  <2> QED
    BY <1>5, <1>7, <2>1, <2>2
<1>9. CASE RegisterScores(i)
  <2> DEFINE after == [inst EXCEPT !.pc = "up", !.due = BeatEvery]
  <2>1. /\ insts' = [insts EXCEPT ![i] = after] /\ registered' = registered \cup {i}
        /\ score' = [score EXCEPT ![i] = beat]
        /\ UNCHANGED <<details, client, sdFaults>>
    BY <1>1, <1>3, <1>9 DEF RegisterScores, Scored
  <2>2. after \in InstRecord /\ after.beat = beat
    BY <1>3, DiscoveryAssumption DEF InstRecord, InstPc
  <2> HIDE DEF after
  <2> QED
    BY <1>5, <1>7, <2>1, <2>2
<1>10. CASE SendHeartbeat(i)
  <2> DEFINE after == [inst EXCEPT !.flying = TRUE, !.beat = 0]
  <2>1. insts' = [insts EXCEPT ![i] = after] /\ UNCHANGED <<redisKeys, client, sdFaults>>
    BY <1>1, <1>10 DEF SendHeartbeat
  <2>2. after \in InstRecord /\ after.beat = 0
    BY Ages DEF InstRecord
  <2> HIDE DEF after
  <2> QED
    BY <1>5, <1>7, <2>1, <2>2 DEF redisKeys
<1>11. CASE HeartbeatLands(i)
  <2> DEFINE after == [inst EXCEPT !.flying = FALSE, !.due = BeatEvery]
  <2>1. /\ insts' = [insts EXCEPT ![i] = after] /\ registered' = registered \cup {i}
        /\ score' = [score EXCEPT ![i] = beat]
        /\ UNCHANGED <<details, client, sdFaults>>
    BY <1>1, <1>3, <1>11 DEF HeartbeatLands, Scored
  <2>2. after \in InstRecord /\ after.beat = beat
    BY <1>3, DiscoveryAssumption DEF InstRecord
  <2> HIDE DEF after
  <2> QED
    BY <1>5, <1>7, <2>1, <2>2
<1>12. CASE HeartbeatFails(i)
  <2> DEFINE after == [inst EXCEPT !.flying = FALSE, !.due = AfterFailure]
  <2>1. /\ insts' = [insts EXCEPT ![i] = after] /\ UNCHANGED <<redisKeys, client>>
        /\ SdFault \/ UNCHANGED sdFaults
    BY <1>1, <1>12 DEF HeartbeatFails
  <2>2. after \in InstRecord /\ after.beat = beat
    <3>1. AfterFailure \in Nat
      BY DiscoveryAssumption DEF AfterFailure
    <3> QED
      BY <1>3, <3>1 DEF InstRecord
  <2> HIDE DEF after
  <2> QED
    BY <1>5, <1>6, <1>7, <2>1, <2>2 DEF redisKeys
<1>13. ASSUME NEW pc \in InstPc, insts' = [insts EXCEPT ![i].pc = pc],
              UNCHANGED <<score, client>>, registered' \in SUBSET Instance,
              details' \in SUBSET Instance, sdFaults' \in 0..MaxSdFaults
       PROVE  DiscoveryOK'
  <2> DEFINE after == [inst EXCEPT !.pc = pc]
  <2>1. insts' = [insts EXCEPT ![i] = after]
    BY <1>1, <1>13
  <2>2. after \in InstRecord /\ after.beat = beat
    BY <1>3 DEF InstRecord
  <2> HIDE DEF after
  <2> QED
    BY <1>5, <1>13, <1>7, <2>1, <2>2
<1>14. CASE Unregister(i)
  BY <1>5, <1>6, <1>13, <1>14 DEF Unregister, redisKeys, InstPc
<1>15. CASE InstanceDies(i)
  BY <1>5, <1>6, <1>13, <1>15 DEF InstanceDies, redisKeys, InstPc
<1>16. CASE UnregisterRemoves(i)
  BY <1>5, <1>13, <1>16 DEF UnregisterRemoves, InstPc
<1> QED
  BY <1>8, <1>9, <1>10, <1>11, <1>12, <1>14, <1>15, <1>16 DEF InstanceStep, InstanceSteps

---------------------------------------------------------------------------
\* What the client may make of its cache, of one refresh and of its call while
\* the instances go on.
LEMMA OneClient ==
    ASSUME DiscoveryOK, NEW cached \in Cache, NEW a \in Refresher, NEW r \in RefreshRecord,
           NEW c \in CallRecord,
           \A i \in Instance : insts[i].beat <= cached.seen[i],
           r.on => \A i \in Instance : insts[i].beat <= r.seen[i],
           c.pc = "resolve" => c.attempt < MaxAttempts,
           a = "call" => (r.on => c.pc = "resolve"),
           a # "call" => (refreshing["call"].on => c.pc = "resolve"),
           c.kind = "upload" =>
              /\ c.pc \in {"resolve", "send"} => c.offset = "start"
              /\ c.pc \notin {"pause", "body"},
           c.pc = "body" => c.file = "part",
           c.sent # "rest", c.pc = "returned" /\ c.kind = "download" => c.file = "whole",
           cache' = cached, refreshing' = [refreshing EXCEPT ![a] = r], call' = c,
           sdFaults' \in 0..MaxSdFaults, UNCHANGED processes
    PROVE  DiscoveryOK'
<1>1. DiscoveryTypeOK'
  BY DEF DiscoveryOK, DiscoveryTypeOK, Cache, processes, redisKeys
<1>2. refreshing'[a] = r /\ \A b \in Refresher : b # a => refreshing'[b] = refreshing[b]
  BY DEF DiscoveryOK, DiscoveryTypeOK
<1>3. Calling'
  BY <1>2 DEF DiscoveryOK, Calling, Refresher
<1>4. BodiesAreWhole'
  BY DEF BodiesAreWhole
<1>5. Aged'
  BY <1>2 DEF DiscoveryOK, Aged, processes, redisKeys
<1> QED
  BY <1>1, <1>3, <1>4, <1>5 DEF DiscoveryOK

\* A step of the call alone.
LEMMA OneCall ==
    ASSUME DiscoveryOK, NEW c \in CallRecord, ~refreshing["call"].on,
           c.pc = "resolve" => c.attempt < MaxAttempts,
           c.kind = "upload" =>
              /\ c.pc \in {"resolve", "send"} => c.offset = "start"
              /\ c.pc \notin {"pause", "body"},
           c.pc = "body" => c.file = "part",
           c.sent # "rest", c.pc = "returned" /\ c.kind = "download" => c.file = "whole",
           call' = c, UNCHANGED otherParts
    PROVE  DiscoveryOK'
<1>1. PICK cached \in Cache : cached = cache
  BY DEF DiscoveryOK, DiscoveryTypeOK, Cache
<1>2. "call" \in Refresher
  BY DEF Refresher
<1>3. PICK r \in RefreshRecord : r = refreshing["call"]
  BY <1>2 DEF DiscoveryOK, DiscoveryTypeOK
<1>4. /\ refreshing' = [refreshing EXCEPT !["call"] = r] /\ cache' = cached
      /\ sdFaults' \in 0..MaxSdFaults /\ UNCHANGED processes
  BY <1>1, <1>2, <1>3 DEF DiscoveryOK, DiscoveryTypeOK, otherParts
<1>5. \A i \in Instance : insts[i].beat <= cached.seen[i]
  BY <1>1 DEF DiscoveryOK, Aged
<1>6. ~r.on
  BY <1>3
<1> QED
  BY <1>2, <1>4, <1>5, <1>6, OneClient

LEMMA TriedTyped ==
    ASSUME NEW network \in BOOLEAN, call \in CallRecord
    PROVE  \E t \in CallRecord :
              /\ t = Tried(network)
              /\ t.kind = call.kind /\ t.attempt = call.attempt /\ t.inner = call.inner
              /\ t.file = call.file /\ t.target = call.target
              /\ call.kind # "upload" => t.sent = call.sent
              /\ call.kind = "upload" /\ call.offset = "start" => t.sent = "whole"
<1>1. CASE call.kind # "upload"
  <2>1. Tried(network) = [call EXCEPT !.network = network]
    BY <1>1 DEF Tried
  <2> QED
    BY <1>1, <2>1 DEF CallRecord
<1>2. CASE call.kind = "upload"
  <2> DEFINE sent == IF call.offset = "start" THEN "whole" ELSE "rest"
  <2>1. Tried(network) = [call EXCEPT !.network = network, !.offset = "moved", !.sent = sent]
    BY <1>2 DEF Tried
  <2>2. sent \in {"none", "whole", "rest"} /\ (call.offset = "start" => sent = "whole")
    OBVIOUS
  <2> HIDE DEF sent
  <2> DEFINE t == [call EXCEPT !.network = network, !.offset = "moved", !.sent = sent]
  <2>3. t \in CallRecord
    BY <2>2 DEF CallRecord
  <2>4. /\ t.kind = call.kind /\ t.attempt = call.attempt /\ t.inner = call.inner
        /\ t.file = call.file /\ t.target = call.target /\ t.sent = sent
    BY DEF CallRecord
  <2>5. t = Tried(network)
    BY <2>1
  <2> HIDE DEF t
  <2> QED
    BY <1>2, <2>2, <2>3, <2>4, <2>5
<1> QED
  BY <1>1, <1>2

\* The steps of a call once its instance is picked.
LEMMA CallKeeps ==
    ASSUME DiscoveryOK,
           \/ \E success \in BOOLEAN : NodeAnswers(success)
           \/ NodeBusy \/ NetworkError \/ InnerRetries \/ BodyBegins \/ BodyEnds
           \/ SwitchNode \/ CallRaises
           \/ \E kind \in Kind : CallBegins(kind)
    PROVE  DiscoveryOK'
<1>1. /\ call \in CallRecord /\ call.sent # "rest" /\ call.kind \in Kind
      /\ call.kind = "upload" =>
            /\ call.pc \in {"resolve", "send"} => call.offset = "start"
            /\ call.pc \notin {"pause", "body"}
      /\ call.pc = "body" => call.file = "part"
  BY DEF DiscoveryOK, DiscoveryTypeOK, Calling, BodiesAreWhole, CallRecord
<1>2. UNCHANGED otherParts /\ call.pc # "resolve"
  BY DEF NodeAnswers, NodeBusy, NetworkError, InnerRetries, BodyBegins, BodyEnds, SwitchNode,
         CallRaises, CallBegins, Answers
<1>3. ~refreshing["call"].on
  BY <1>2 DEF DiscoveryOK, Calling
<1>4. ASSUME NEW network \in BOOLEAN, NEW pc \in CallPc \ {"resolve", "send", "body", "returned"},
             call.pc \in {"send", "body"}, call.kind = "upload" => pc # "pause",
             call' = [Tried(network) EXCEPT !.pc = pc]
      PROVE  DiscoveryOK'
  <2>1. PICK t \in CallRecord :
              /\ t = Tried(network) /\ t.kind = call.kind
              /\ call.kind # "upload" => t.sent = call.sent
              /\ call.kind = "upload" /\ call.offset = "start" => t.sent = "whole"
    BY <1>1, TriedTyped
  <2> DEFINE after == [t EXCEPT !.pc = pc]
  <2>2. call' = after
    BY <1>4, <2>1
  <2>3. after \in CallRecord /\ after.pc = pc /\ after.kind = call.kind /\ after.sent = t.sent
    BY <2>1 DEF CallRecord
  <2>4. t.sent # "rest"
    BY <1>1, <1>4, <2>1
  <2> HIDE DEF after
  <2> QED
    BY <1>2, <1>3, <1>4, <2>2, <2>3, <2>4, OneCall DEF CallPc
<1>5. ASSUME NEW network \in BOOLEAN, NEW success \in BOOLEAN, call.kind # "download",
             call.pc = "send", call' = [Tried(network) EXCEPT !.pc = "returned"]
      PROVE  DiscoveryOK'
  <2>1. PICK t \in CallRecord :
              /\ t = Tried(network) /\ t.kind = call.kind
              /\ call.kind # "upload" => t.sent = call.sent
              /\ call.kind = "upload" /\ call.offset = "start" => t.sent = "whole"
    BY <1>1, TriedTyped
  <2> DEFINE after == [t EXCEPT !.pc = "returned"]
  <2>2. call' = after
    BY <1>5, <2>1
  <2>3. after \in CallRecord /\ after.pc = "returned" /\ after.kind = call.kind
        /\ after.sent = t.sent
    BY <2>1 DEF CallRecord, CallPc
  <2>4. t.sent # "rest"
    BY <1>1, <1>5, <2>1
  <2> HIDE DEF after
  <2> QED
    BY <1>2, <1>3, <1>5, <2>2, <2>3, <2>4, OneCall
<1>6. ASSUME NEW success \in BOOLEAN, NodeAnswers(success)
      PROVE  DiscoveryOK'
  <2>1. call.pc = "send" /\ FALSE \in BOOLEAN
    BY <1>6 DEF NodeAnswers, Answers
  <2>2. CASE call.kind = "download"
    <3>1. call' = [Tried(FALSE) EXCEPT !.pc = "failed"]
      BY <1>6, <2>2 DEF NodeAnswers
    <3> QED
      BY <1>4, <2>1, <2>2, <3>1 DEF CallPc
  <2>3. CASE call.kind # "download"
    <3>1. call' = [Tried(FALSE) EXCEPT !.pc = "returned"]
      BY <1>6, <2>3 DEF NodeAnswers
    <3> QED
      BY <1>5, <2>1, <2>3, <3>1
  <2> QED
    BY <2>2, <2>3
<1>7. CASE NodeBusy
  <2>1. PICK pc \in {"pause", "failed", "switch"} :
           call' = [Tried(FALSE) EXCEPT !.pc = pc] /\ (pc = "pause" => InnerLeft)
    BY <1>7 DEF NodeBusy
  <2>2. call.pc = "send" /\ FALSE \in BOOLEAN
    BY <1>7 DEF NodeBusy, Answers
  <2> QED
    BY <1>4, <2>1, <2>2 DEF InnerLeft, CallPc
<1>8. CASE NetworkError
  <2>1. PICK tried \in {Tried(TRUE), [call EXCEPT !.network = TRUE]} :
           call' = [tried EXCEPT !.pc = IF InnerLeft THEN "pause" ELSE "switch"]
    BY <1>8 DEF NetworkError
  <2>2. PICK pc \in {"pause", "switch"} : pc = IF InnerLeft THEN "pause" ELSE "switch"
    OBVIOUS
  <2>3. call.pc \in {"send", "body"} /\ TRUE \in BOOLEAN
    BY <1>8 DEF NetworkError
  <2>4. call.kind = "upload" => pc # "pause"
    BY <2>2 DEF InnerLeft
  <2>5. CASE tried = Tried(TRUE)
    BY <1>4, <2>1, <2>2, <2>3, <2>4, <2>5 DEF CallPc
  <2>6. CASE tried = [call EXCEPT !.network = TRUE]
    <3> DEFINE after == [call EXCEPT !.network = TRUE, !.pc = pc]
    <3>1. call' = after
      BY <2>1, <2>2, <2>6
    <3>2. after \in CallRecord /\ after.pc = pc /\ after.kind = call.kind /\ after.sent = call.sent
      BY <1>1 DEF CallRecord, CallPc
    <3> HIDE DEF after
    <3> QED
      BY <1>1, <1>2, <1>3, <2>4, <3>1, <3>2, OneCall
  <2> QED
    BY <2>1, <2>5, <2>6
<1>9. CASE InnerRetries
  <2> DEFINE inner == call.inner + 1
             after == [call EXCEPT !.pc = "send", !.inner = inner]
  <2>1. call' = after /\ call.pc = "pause"
    BY <1>9 DEF InnerRetries
  <2>2. /\ after \in CallRecord /\ after.pc = "send" /\ after.kind = call.kind
        /\ after.sent = call.sent
    <3>1. call.inner \in Nat
      BY <1>1 DEF CallRecord
    <3>2. inner \in Nat
      BY <3>1
    <3> HIDE DEF inner
    <3> QED
      BY <1>1, <3>2 DEF CallRecord, CallPc
  <2> HIDE DEF after
  <2> QED
    BY <1>1, <1>2, <1>3, <2>1, <2>2, OneCall
<1>10. CASE BodyBegins
  <2> DEFINE after == [call EXCEPT !.pc = "body", !.file = "part"]
  <2>1. call' = after /\ call.kind = "download"
    BY <1>10 DEF BodyBegins, OpenTarget
  <2>2. /\ after \in CallRecord /\ after.pc = "body" /\ after.kind = call.kind
        /\ after.sent = call.sent /\ after.file = "part"
    BY <1>1 DEF CallRecord, CallPc
  <2> HIDE DEF after
  <2> QED
    BY <1>1, <1>2, <1>3, <2>1, <2>2, OneCall
<1>11. CASE BodyEnds
  <2> DEFINE after == [call EXCEPT !.pc = "returned", !.file = "whole"]
  <2>1. call' = after
    BY <1>1, <1>11 DEF BodyEnds
  <2>2. /\ after \in CallRecord /\ after.pc = "returned" /\ after.kind = call.kind
        /\ after.sent = call.sent /\ after.file = "whole"
    BY <1>1 DEF CallRecord, CallPc
  <2> HIDE DEF after
  <2> QED
    BY <1>1, <1>2, <1>3, <2>1, <2>2, OneCall
<1>12. CASE SwitchNode
  <2> DEFINE offset == IF call.kind = "upload" THEN "start" ELSE call.offset
             after == [call EXCEPT !.pc = "resolve", !.offset = offset]
  <2>1. call' = after /\ call.attempt < MaxAttempts
    BY <1>12 DEF SwitchNode, Rewound, TriesLeft
  <2>2. offset \in {"start", "moved"} /\ (call.kind = "upload" => offset = "start")
    BY <1>1 DEF CallRecord
  <2> HIDE DEF offset
  <2>3. /\ after \in CallRecord /\ after.pc = "resolve" /\ after.kind = call.kind
        /\ after.sent = call.sent /\ after.attempt = call.attempt /\ after.offset = offset
    BY <1>1, <2>2 DEF CallRecord, CallPc
  <2> HIDE DEF after
  <2> QED
    BY <1>1, <1>2, <1>3, <2>1, <2>2, <2>3, OneCall
<1>13. CASE CallRaises
  <2> DEFINE after == [call EXCEPT !.pc = "failed"]
  <2>1. call' = after
    BY <1>13 DEF CallRaises
  <2>2. /\ after \in CallRecord /\ after.pc = "failed" /\ after.kind = call.kind
        /\ after.sent = call.sent
    BY <1>1 DEF CallRecord, CallPc
  <2> HIDE DEF after
  <2> QED
    BY <1>1, <1>2, <1>3, <2>1, <2>2, OneCall
<1>14. ASSUME NEW kind \in Kind, CallBegins(kind)
       PROVE  DiscoveryOK'
  <2>1. PICK after \in CallRecord : after = NewCall(kind)
    BY NewCallTyped
  <2>2. call' = after
    BY <1>14, <2>1 DEF CallBegins
  <2>3. after.pc = "resolve" /\ after.attempt = 0 /\ after.offset = "start" /\ after.sent = "none"
    BY <2>1, NewCallTyped
  <2>4. 0 < MaxAttempts
    BY DiscoveryAssumption
  <2> QED
    BY <1>2, <1>3, <2>2, <2>3, <2>4, OneCall
<1> QED
  BY <1>6, <1>7, <1>8, <1>9, <1>10, <1>11, <1>12, <1>13, <1>14

---------------------------------------------------------------------------
\* The choice of an instance from what the cache then holds.
LEMMA PickGives ==
    ASSUME DiscoveryOK, call.pc = "resolve", NEW cached \in Cache, Pick(cached)
    PROVE  \E c \in CallRecord :
              /\ call' = c /\ c.kind = call.kind /\ c.offset = call.offset /\ c.sent # "rest"
              /\ c.pc \in {"failed", "send"}
              /\ c.pc = "failed" => c.attempt = call.attempt
              /\ c.pc = "send" => c.target \in Healthy(cached)
<1>1. call \in CallRecord /\ call.attempt < MaxAttempts /\ call.sent # "rest"
  BY DEF DiscoveryOK, DiscoveryTypeOK, Calling, BodiesAreWhole
<1>2. CASE Healthy(cached) = {}
  <2> DEFINE c == [call EXCEPT !.pc = "failed"]
  <2>1. call' = c
    BY <1>2 DEF Pick
  <2>2. /\ c \in CallRecord /\ c.kind = call.kind /\ c.offset = call.offset
        /\ c.sent = call.sent /\ c.pc = "failed" /\ c.attempt = call.attempt
    BY <1>1 DEF CallRecord, CallPc
  <2> HIDE DEF c
  <2> QED
    BY <1>1, <2>1, <2>2
<1>3. CASE Healthy(cached) # {}
  <2> DEFINE attempt == call.attempt + 1
  <2>1. PICK i \in Healthy(cached) :
           call' = [call EXCEPT !.pc = "send", !.target = i, !.inner = 1,
                                !.attempt = attempt, !.sent = "none"]
    BY <1>3 DEF Pick
  <2>2. attempt \in 0..MaxAttempts /\ i \in Instance
    <3>1. call.attempt \in 0..MaxAttempts
      BY <1>1 DEF CallRecord
    <3> QED
      BY <1>1, <3>1, DiscoveryAssumption DEF Healthy, Cache
  <2> HIDE DEF attempt
  <2> DEFINE c == [call EXCEPT !.pc = "send", !.target = i, !.inner = 1,
                               !.attempt = attempt, !.sent = "none"]
  <2>3. c \in CallRecord
    BY <1>1, <2>2 DEF CallRecord, CallPc
  <2>4. /\ c.kind = call.kind /\ c.offset = call.offset
        /\ c.sent = "none" /\ c.pc = "send" /\ c.target = i
    BY <1>1 DEF CallRecord
  <2>5. call' = c
    BY <2>1
  <2> HIDE DEF c
  <2> QED
    BY <2>1, <2>3, <2>4, <2>5
<1> QED
  BY <1>2, <1>3

\* The refresh reads the registered instances and their scores.
LEMMA ReadGives ==
    ASSUME DiscoveryOK, NEW a \in Refresher, RefreshReads(a), UNCHANGED processes
    PROVE  \E cached \in Cache, r \in RefreshRecord :
              /\ cache' = cached /\ refreshing' = [refreshing EXCEPT ![a] = r]
              /\ \A i \in Instance : insts[i].beat <= cached.seen[i]
              /\ r.on => \A i \in Instance : insts[i].beat <= r.seen[i]
              /\ registered = {} => ~r.on
<1>1. PICK cached \in Cache : cached = cache
  BY DEF DiscoveryOK, DiscoveryTypeOK, Cache
<1>2. PICK r \in RefreshRecord : r = refreshing[a]
  BY DEF DiscoveryOK, DiscoveryTypeOK
<1>3. \A i \in Instance : insts[i].beat <= cached.seen[i] /\ insts[i].beat <= score[i]
  BY <1>1 DEF DiscoveryOK, Aged
<1>4. CASE registered = {}
  <2> DEFINE empty == [cached EXCEPT !.ids = {}, !.age = 0]
  <2>1. cache' = empty
    BY <1>1, <1>4 DEF RefreshReads
  <2>2. 0 \in 0..CacheInterval + 1
    BY DiscoveryAssumption
  <2>3. empty \in Cache /\ empty.seen = cached.seen
    BY <2>2 DEF Cache
  <2>4. PICK none \in RefreshRecord : none = NoRefresh /\ ~none.on
    BY NoRefreshTyped
  <2>5. refreshing' = [refreshing EXCEPT ![a] = none]
    BY <1>4, <2>4 DEF RefreshReads
  <2> HIDE DEF empty
  <2> QED
    BY <1>3, <2>1, <2>3, <2>4, <2>5
<1>5. CASE registered # {}
  <2> DEFINE marked == [r EXCEPT !.ids = registered, !.seen = score, !.on = TRUE]
  <2>1. cache' = cached /\ refreshing' = [refreshing EXCEPT ![a] = marked]
    BY <1>1, <1>2, <1>5 DEF RefreshReads
  <2>2. registered \in SUBSET Instance /\ score \in [Instance -> Age]
    BY DEF DiscoveryOK, DiscoveryTypeOK
  <2>3. marked \in RefreshRecord /\ marked.seen = score
    BY <2>2 DEF RefreshRecord
  <2> HIDE DEF marked
  <2> QED
    BY <1>3, <1>5, <2>1, <2>3
<1> QED
  BY <1>4, <1>5

\* ... and stores them, a suspension later.
LEMMA StoreGives ==
    ASSUME DiscoveryOK, NEW a \in Refresher, RefreshStores(a)
    PROVE  \E cached \in Cache, r \in RefreshRecord :
              /\ cache' = cached /\ refreshing' = [refreshing EXCEPT ![a] = r]
              /\ \A i \in Instance : insts[i].beat <= cached.seen[i]
              /\ ~r.on
<1>1. PICK r \in RefreshRecord : r = refreshing[a]
  BY DEF DiscoveryOK, DiscoveryTypeOK
<1>2. \A i \in Instance : insts[i].beat <= r.seen[i]
  BY <1>1 DEF DiscoveryOK, Aged, RefreshStores
<1> DEFINE cached == [ids |-> r.ids \cap details, seen |-> r.seen, age |-> 0]
<1>3. cache' = cached
  BY <1>1 DEF RefreshStores, Refreshed, SeenAt
<1>4. cached \in Cache /\ cached.seen = r.seen
  <2>1. 0 \in 0..CacheInterval + 1 /\ r.ids \in SUBSET Instance /\ r.seen \in [Instance -> Age]
    BY DiscoveryAssumption DEF RefreshRecord
  <2> QED
    BY <2>1 DEF Cache
<1>5. PICK none \in RefreshRecord : none = NoRefresh /\ ~none.on
  BY NoRefreshTyped
<1>6. refreshing' = [refreshing EXCEPT ![a] = none]
  BY <1>5 DEF RefreshStores
<1> HIDE DEF cached
<1> QED
  BY <1>2, <1>3, <1>4, <1>5, <1>6

LEMMA CallStands ==
    ASSUME DiscoveryOK
    PROVE  \E c \in CallRecord :
              /\ c = call
              /\ c.pc = "resolve" => c.attempt < MaxAttempts
              /\ refreshing["call"].on => c.pc = "resolve"
              /\ c.kind = "upload" =>
                    /\ c.pc \in {"resolve", "send"} => c.offset = "start"
                    /\ c.pc \notin {"pause", "body"}
              /\ c.pc = "body" => c.file = "part"
              /\ c.sent # "rest"
              /\ c.pc = "returned" /\ c.kind = "download" => c.file = "whole"
  BY DEF DiscoveryOK, DiscoveryTypeOK, Calling, BodiesAreWhole

\* The refresh loop.
LEMMA LoopKeeps ==
    ASSUME DiscoveryOK, LoopReads \/ LoopStores \/ LoopFails
    PROVE  DiscoveryOK'
<1>1. "loop" \in Refresher /\ sdFaults \in 0..MaxSdFaults /\ UNCHANGED <<processes, call>>
  BY DEF Refresher, DiscoveryOK, DiscoveryTypeOK, LoopReads, LoopStores, LoopFails
<1>2. PICK c \in CallRecord :
              /\ c = call
              /\ c.pc = "resolve" => c.attempt < MaxAttempts
              /\ refreshing["call"].on => c.pc = "resolve"
              /\ c.kind = "upload" =>
                    /\ c.pc \in {"resolve", "send"} => c.offset = "start"
                    /\ c.pc \notin {"pause", "body"}
              /\ c.pc = "body" => c.file = "part"
              /\ c.sent # "rest"
              /\ c.pc = "returned" /\ c.kind = "download" => c.file = "whole"
  BY CallStands
<1>3. call' = c
  BY <1>1, <1>2
<1>4. PICK loop \in Refresher : loop = "loop" /\ loop # "call"
  BY <1>1
<1>5. CASE LoopReads
  <2>1. PICK cached \in Cache, r \in RefreshRecord :
              /\ cache' = cached /\ refreshing' = [refreshing EXCEPT ![loop] = r]
              /\ \A i \in Instance : insts[i].beat <= cached.seen[i]
              /\ r.on => \A i \in Instance : insts[i].beat <= r.seen[i]
    BY <1>1, <1>4, <1>5, ReadGives DEF LoopReads
  <2>2. sdFaults' = sdFaults
    BY <1>5 DEF LoopReads
  <2> QED
    BY <1>1, <1>2, <1>3, <1>4, <2>1, <2>2, OneClient
<1>6. CASE LoopStores
  <2>1. PICK cached \in Cache, r \in RefreshRecord :
              /\ cache' = cached /\ refreshing' = [refreshing EXCEPT ![loop] = r]
              /\ \A i \in Instance : insts[i].beat <= cached.seen[i]
              /\ ~r.on
    BY <1>4, <1>6, StoreGives DEF LoopStores
  <2>2. sdFaults' = sdFaults
    BY <1>6 DEF LoopStores
  <2> QED
    BY <1>1, <1>2, <1>3, <1>4, <2>1, <2>2, OneClient
<1>7. CASE LoopFails
  <2>1. PICK none \in RefreshRecord : none = NoRefresh /\ ~none.on
    BY NoRefreshTyped
  <2> DEFINE wait == CacheInterval + 1
             r == [none EXCEPT !.wait = wait]
  <2>2. refreshing' = [refreshing EXCEPT ![loop] = r]
    BY <1>4, <1>7, <2>1 DEF LoopFails
  <2>3. r \in RefreshRecord /\ ~r.on
    <3>1. wait \in Nat
      BY DiscoveryAssumption
    <3> HIDE DEF wait
    <3> QED
      BY <2>1, <3>1 DEF RefreshRecord
  <2> HIDE DEF r
  <2>4. PICK cached \in Cache : cached = cache
    BY DEF DiscoveryOK, DiscoveryTypeOK, Cache
  <2>5. cache' = cached /\ \A i \in Instance : insts[i].beat <= cached.seen[i]
    BY <1>7, <2>4 DEF LoopFails, DiscoveryOK, Aged
  <2>6. sdFaults' \in 0..MaxSdFaults
    BY <1>1, <1>7, DiscoveryAssumption DEF LoopFails, SdFault
  <2> QED
    BY <1>1, <1>2, <1>3, <1>4, <2>2, <2>3, <2>5, <2>6, OneClient
<1> QED
  BY <1>5, <1>6, <1>7

\* The resolution of a call, which may refresh the cache itself.
LEMMA ResolveKeeps ==
    ASSUME DiscoveryOK, ResolveFromCache \/ ResolveReads \/ ResolveStores \/ ResolveFails
    PROVE  DiscoveryOK'
<1>1. "call" \in Refresher /\ sdFaults \in 0..MaxSdFaults /\ UNCHANGED processes
  BY DEF Refresher, DiscoveryOK, DiscoveryTypeOK, ResolveFromCache, ResolveReads, ResolveStores,
         ResolveFails
<1>2. /\ call \in CallRecord /\ call.pc = "resolve" /\ call.sent # "rest"
      /\ call.attempt < MaxAttempts /\ (call.kind = "upload" => call.offset = "start")
  BY DEF ResolveFromCache, ResolveReads, ResolveStores, ResolveFails, RefreshStores,
         DiscoveryOK, DiscoveryTypeOK, Calling, BodiesAreWhole
<1>3. PICK us \in Refresher : us = "call"
  BY <1>1
<1>4. ASSUME NEW cached \in Cache, Pick(cached), NEW r \in RefreshRecord, ~r.on,
             refreshing' = [refreshing EXCEPT ![us] = r], cache' = cached,
             \A i \in Instance : insts[i].beat <= cached.seen[i], sdFaults' = sdFaults
      PROVE  DiscoveryOK'
  <2>1. PICK c \in CallRecord :
              /\ call' = c /\ c.kind = call.kind /\ c.offset = call.offset /\ c.sent # "rest"
              /\ c.pc \in {"failed", "send"}
    BY <1>2, <1>4, PickGives
  <2> QED
    BY <1>1, <1>2, <1>3, <1>4, <2>1, OneClient
<1>5. CASE ResolveFromCache
  <2>1. PICK cached \in Cache : cached = cache
    BY DEF DiscoveryOK, DiscoveryTypeOK, Cache
  <2>2. PICK r \in RefreshRecord : r = refreshing[us]
    BY DEF DiscoveryOK, DiscoveryTypeOK
  <2>3. /\ Pick(cached) /\ ~r.on /\ cache' = cached /\ sdFaults' = sdFaults
        /\ refreshing' = [refreshing EXCEPT ![us] = r]
    BY <1>3, <1>5, <2>1, <2>2 DEF ResolveFromCache, DiscoveryOK, DiscoveryTypeOK
  <2>4. \A i \in Instance : insts[i].beat <= cached.seen[i]
    BY <2>1 DEF DiscoveryOK, Aged
  <2> QED
    BY <1>4, <2>3, <2>4
<1>6. CASE ResolveReads
  <2>1. PICK cached \in Cache, r \in RefreshRecord :
              /\ cache' = cached /\ refreshing' = [refreshing EXCEPT ![us] = r]
              /\ \A i \in Instance : insts[i].beat <= cached.seen[i]
              /\ r.on => \A i \in Instance : insts[i].beat <= r.seen[i]
              /\ registered = {} => ~r.on
    BY <1>1, <1>3, <1>6, ReadGives DEF ResolveReads
  <2>2. sdFaults' = sdFaults
    BY <1>6 DEF ResolveReads
  <2>3. CASE registered = {}
    <3>1. Pick(cached)
      BY <1>6, <2>1, <2>3 DEF ResolveReads
    <3> QED
      BY <1>4, <2>1, <2>2, <2>3, <3>1
  <2>4. CASE registered # {}
    <3>1. PICK c \in CallRecord : c = call /\ call' = c
      BY <1>2, <1>6, <2>4 DEF ResolveReads
    <3> QED
      BY <1>1, <1>2, <1>3, <2>1, <2>2, <3>1, OneClient
  <2> QED
    BY <2>3, <2>4
<1>7. CASE ResolveStores
  <2>1. PICK cached \in Cache, r \in RefreshRecord :
              /\ cache' = cached /\ refreshing' = [refreshing EXCEPT ![us] = r]
              /\ \A i \in Instance : insts[i].beat <= cached.seen[i]
              /\ ~r.on
    BY <1>3, <1>7, StoreGives DEF ResolveStores
  <2>2. Pick(cached) /\ sdFaults' = sdFaults
    BY <1>7, <2>1 DEF ResolveStores
  <2> QED
    BY <1>4, <2>1, <2>2
<1>8. CASE ResolveFails
  <2>1. PICK none \in RefreshRecord : none = NoRefresh /\ ~none.on
    BY NoRefreshTyped
  <2>2. PICK cached \in Cache : cached = cache
    BY DEF DiscoveryOK, DiscoveryTypeOK, Cache
  <2> DEFINE c == [call EXCEPT !.pc = "failed"]
  <2>3. refreshing' = [refreshing EXCEPT ![us] = none] /\ call' = c /\ cache' = cached
    BY <1>3, <1>8, <2>1, <2>2 DEF ResolveFails
  <2>4. c \in CallRecord /\ c.pc = "failed" /\ c.sent = call.sent
    BY <1>2 DEF CallRecord, CallPc
  <2> HIDE DEF c
  <2>5. \A i \in Instance : insts[i].beat <= cached.seen[i]
    BY <2>2 DEF DiscoveryOK, Aged
  <2>6. sdFaults' \in 0..MaxSdFaults
    BY <1>1, <1>8, DiscoveryAssumption DEF ResolveFails, SdFault
  <2> QED
    BY <1>1, <1>2, <1>3, <2>1, <2>3, <2>4, <2>5, <2>6, OneClient
<1> QED
  BY <1>5, <1>6, <1>7, <1>8

\* Everything ages by one, what is kept no less than what is.
LEMMA TickKeeps ==
    ASSUME DiscoveryOK, SdTick
    PROVE  DiscoveryOK'
<1>1. UNCHANGED <<registered, details, call, sdFaults>>
  BY DEF SdTick
<1>2. insts' \in [Instance -> InstRecord]
      /\ \A i \in Instance : insts'[i].beat = Older(insts[i].beat)
  <2> DEFINE due(i) == IF insts[i].flying THEN insts[i].due ELSE Less(insts[i].due)
             after(i) == [insts[i] EXCEPT !.beat = Older(insts[i].beat), !.due = due(i)]
  <2>1. insts' = [i \in Instance |-> after(i)]
    BY DEF SdTick
  <2>2. ASSUME NEW i \in Instance
        PROVE  after(i) \in InstRecord /\ after(i).beat = Older(insts[i].beat)
    <3>1. insts[i] \in InstRecord
      BY DEF DiscoveryOK, DiscoveryTypeOK
    <3>2. due(i) \in Nat
      <4>1. insts[i].due \in Nat
        BY <3>1 DEF InstRecord
      <4> QED
        BY <4>1 DEF Less
    <3>3. Older(insts[i].beat) \in Age
      BY <3>1, Ages DEF InstRecord
    <3> HIDE DEF due
    <3> QED
      BY <3>1, <3>2, <3>3 DEF InstRecord
  <2> HIDE DEF after
  <2> QED
    BY <2>1, <2>2
<1>3. score' \in [Instance -> Age] /\ \A i \in Instance : score'[i] = Older(score[i])
  BY Ages DEF SdTick, DiscoveryOK, DiscoveryTypeOK
<1>4. cache' \in Cache /\ \A i \in Instance : cache'.seen[i] = Older(cache.seen[i])
  <2> DEFINE age == IF cache.age > CacheInterval THEN cache.age ELSE cache.age + 1
             seen == [i \in Instance |-> Older(cache.seen[i])]
  <2>1. cache' = [cache EXCEPT !.seen = seen, !.age = age]
    BY DEF SdTick
  <2>2. cache \in Cache
    BY DEF DiscoveryOK, DiscoveryTypeOK, Cache
  <2>3. age \in 0..CacheInterval + 1
    <3>1. cache.age \in 0..CacheInterval + 1
      BY <2>2 DEF Cache
    <3> QED
      BY <3>1, DiscoveryAssumption
  <2>4. seen \in [Instance -> Age] /\ \A i \in Instance : seen[i] = Older(cache.seen[i])
    BY <2>2, Ages DEF Cache
  <2> HIDE DEF age, seen
  <2> QED
    BY <2>1, <2>2, <2>3, <2>4 DEF Cache
<1>5. /\ refreshing' \in [Refresher -> RefreshRecord]
      /\ \A a \in Refresher :
            /\ refreshing'[a].on = refreshing[a].on
            /\ refreshing[a].on =>
                  \A i \in Instance : refreshing'[a].seen[i] = Older(refreshing[a].seen[i])
  <2> DEFINE waited(a) == [refreshing[a] EXCEPT !.wait = Less(refreshing[a].wait)]
             seen(a) == [i \in Instance |-> Older(refreshing[a].seen[i])]
             aged(a) == [refreshing[a] EXCEPT !.age = refreshing[a].age + 1, !.seen = seen(a)]
             after(a) == IF ~refreshing[a].on
                         THEN IF a = "loop" THEN waited(a) ELSE refreshing[a]
                         ELSE aged(a)
  <2>1. refreshing' = [a \in Refresher |-> after(a)]
    BY DEF SdTick
  <2>2. ASSUME NEW a \in Refresher
        PROVE  /\ after(a) \in RefreshRecord /\ after(a).on = refreshing[a].on
               /\ refreshing[a].on =>
                     \A i \in Instance : after(a).seen[i] = Older(refreshing[a].seen[i])
    <3>1. refreshing[a] \in RefreshRecord
      BY DEF DiscoveryOK, DiscoveryTypeOK
    <3>2. waited(a) \in RefreshRecord /\ waited(a).on = refreshing[a].on
      <4>1. Less(refreshing[a].wait) \in Nat
        <5>1. refreshing[a].wait \in Nat
          BY <3>1 DEF RefreshRecord
        <5> QED
          BY <5>1 DEF Less
      <4> QED
        BY <3>1, <4>1 DEF RefreshRecord
    <3>3. seen(a) \in [Instance -> Age]
          /\ \A i \in Instance : seen(a)[i] = Older(refreshing[a].seen[i])
      <4>1. refreshing[a].seen \in [Instance -> Age]
        BY <3>1 DEF RefreshRecord
      <4> QED
        BY <4>1, Ages
    <3> HIDE DEF seen
    <3>4. aged(a) \in RefreshRecord /\ aged(a).on = refreshing[a].on /\ aged(a).seen = seen(a)
      <4>1. PICK age \in Nat : age = refreshing[a].age + 1
        <5>1. refreshing[a].age \in Nat
          BY <3>1 DEF RefreshRecord
        <5> QED
          BY <5>1
      <4> QED
        BY <3>1, <3>3, <4>1 DEF RefreshRecord
    <3> HIDE DEF waited, aged
    <3> QED
      BY <3>1, <3>2, <3>3, <3>4
  <2> HIDE DEF after
  <2> QED
    BY <2>1, <2>2
<1>6. DiscoveryTypeOK'
  BY <1>1, <1>2, <1>3, <1>4, <1>5 DEF DiscoveryOK, DiscoveryTypeOK, Cache
<1>7. Calling' /\ BodiesAreWhole'
  BY <1>1, <1>5 DEF DiscoveryOK, Calling, BodiesAreWhole, Refresher
<1>8. Aged'
  <2>1. \A i \in Instance :
           /\ insts[i].beat \in Age /\ score[i] \in Age /\ cache.seen[i] \in Age
           /\ \A a \in Refresher : refreshing[a].seen[i] \in Age
    BY DEF DiscoveryOK, DiscoveryTypeOK, InstRecord, RefreshRecord
  <2> QED
    BY <1>2, <1>3, <1>4, <1>5, <2>1, Ages DEF DiscoveryOK, Aged
<1> QED
  BY <1>6, <1>7, <1>8 DEF DiscoveryOK

\* Each step preserves the invariant.
LEMMA DiscoveryStep == DiscoveryOK /\ [DiscoveryNext]_discoveryVars => DiscoveryOK'
<1> SUFFICES ASSUME DiscoveryOK, [DiscoveryNext]_discoveryVars
             PROVE  DiscoveryOK'
  OBVIOUS
<1>1. CASE UNCHANGED discoveryVars
  BY <1>1 DEF discoveryVars, DiscoveryOK, DiscoveryTypeOK, Calling, BodiesAreWhole, Aged
<1>2. CASE DiscoveryNext
  BY <1>2, InstanceKeeps, LoopKeeps, ResolveKeeps, CallKeeps, TickKeeps
  DEF DiscoveryNext, InstanceStep, LoopSteps, CallSteps
<1> QED
  BY <1>1, <1>2

\* In every reachable state a call is where its attempts and its file say, and nothing
\* the client keeps of an instance makes it younger than its last heartbeat.
THEOREM DiscoveryInvariant == DiscoverySpec => []DiscoveryOK
  BY DiscoveryStart, DiscoveryStep, PTL DEF DiscoverySpec

\* Every try of an upload sends the file from its start, and a download reported as a
\* success has left exactly one body in the target (the HTTP client of discovery).
THEOREM BodiesStayWhole == DiscoverySpec => []BodiesAreWhole
<1>1. DiscoveryOK => BodiesAreWhole
  BY DEF DiscoveryOK
<1> QED
  BY <1>1, DiscoveryInvariant, PTL

\* A pick takes an instance that is recent by the cache it is taken from.
LEMMA PicksRecent ==
    ASSUME DiscoveryOK, call.pc = "resolve", NEW cached \in Cache, Pick(cached),
           \A i \in Instance : insts[i].beat <= cached.seen[i]
    PROVE  call'.attempt > call.attempt => insts[call'.target].beat <= HealthThreshold
<1>1. PICK c \in CallRecord :
         /\ call' = c /\ c.pc \in {"failed", "send"}
         /\ c.pc = "failed" => c.attempt = call.attempt
         /\ c.pc = "send" => c.target \in Healthy(cached)
  BY PickGives
<1>2. CASE c.pc = "failed"
  <2>1. call.attempt \in 0..MaxAttempts
    BY DEF DiscoveryOK, DiscoveryTypeOK, CallRecord
  <2> QED
    BY <1>1, <1>2, <2>1
<1>3. CASE c.pc = "send"
  <2>1. PICK i \in Instance : i = c.target /\ cached.seen[i] <= HealthThreshold
    BY <1>1, <1>3 DEF Healthy, Cache
  <2>2. cached.seen[i] \in Nat /\ insts[i].beat \in Nat /\ insts[i].beat <= cached.seen[i]
    BY Ages DEF Cache, DiscoveryOK, DiscoveryTypeOK, InstRecord
  <2> QED
    BY <1>1, <2>1, <2>2, DiscoveryAssumption
<1> QED
  BY <1>1, <1>2, <1>3

\* Every step that picks, picks an instance with a recent heartbeat.
LEMMA PicksStep ==
    ASSUME DiscoveryOK, DiscoveryNext
    PROVE  call'.attempt > call.attempt => insts[call'.target].beat <= HealthThreshold
<1>1. call \in CallRecord /\ call.attempt \in Nat
  BY DiscoveryAssumption DEF DiscoveryOK, DiscoveryTypeOK, CallRecord
<1>2. CASE call' = call
  BY <1>1, <1>2
<1>3. CASE /\ ResolveFromCache \/ ResolveReads \/ ResolveStores
           /\ call' # call
  <2>1. call.pc = "resolve" /\ "call" \in Refresher
    BY <1>3 DEF ResolveFromCache, ResolveReads, ResolveStores, RefreshStores, DiscoveryOK, Calling,
                Refresher
  <2>2. CASE ResolveFromCache
    <3>1. PICK cached \in Cache : cached = cache
      BY DEF DiscoveryOK, DiscoveryTypeOK, Cache
    <3>2. Pick(cached) /\ \A i \in Instance : insts[i].beat <= cached.seen[i]
      BY <2>2, <3>1 DEF ResolveFromCache, DiscoveryOK, Aged
    <3> QED
      BY <2>1, <3>2, PicksRecent
  <2>3. CASE ResolveReads
    <3>1. PICK cached \in Cache : cache' = cached
               /\ \A i \in Instance : insts[i].beat <= cached.seen[i]
      BY <2>1, <2>3, ReadGives DEF ResolveReads
    <3>2. Pick(cached)
      BY <1>3, <2>3, <3>1 DEF ResolveReads
    <3> QED
      BY <2>1, <3>1, <3>2, PicksRecent
  <2>4. CASE ResolveStores
    <3>1. PICK cached \in Cache : cache' = cached
               /\ \A i \in Instance : insts[i].beat <= cached.seen[i]
      BY <2>1, <2>4, StoreGives DEF ResolveStores
    <3>2. Pick(cached)
      BY <2>4, <3>1 DEF ResolveStores
    <3> QED
      BY <2>1, <3>1, <3>2, PicksRecent
  <2> QED
    BY <1>3, <2>2, <2>3, <2>4
<1>4. CASE \/ \E success \in BOOLEAN : NodeAnswers(success)
           \/ NodeBusy \/ NetworkError \/ InnerRetries \/ BodyBegins \/ BodyEnds
           \/ SwitchNode \/ CallRaises \/ ResolveFails
  <2>1. ASSUME NEW network \in BOOLEAN, NEW pc \in CallPc, call' = [Tried(network) EXCEPT !.pc = pc]
        PROVE  call'.attempt = call.attempt
    <3>1. PICK t \in CallRecord : t = Tried(network) /\ t.attempt = call.attempt
      BY <1>1, TriedTyped
    <3>2. call' = [t EXCEPT !.pc = pc]
      BY <2>1, <3>1
    <3> QED
      BY <3>1, <3>2 DEF CallRecord
  <2>2. ASSUME NEW success \in BOOLEAN, NodeAnswers(success)
        PROVE  call'.attempt = call.attempt
    BY <2>1, <2>2 DEF NodeAnswers, CallPc
  <2>3. CASE NodeBusy
    <3>1. PICK pc \in CallPc : call' = [Tried(FALSE) EXCEPT !.pc = pc]
      BY <2>3 DEF NodeBusy, CallPc
    <3>2. call'.attempt = call.attempt
      BY <2>1, <3>1
    <3> QED
      BY <1>1, <3>2
  <2>4. CASE NetworkError
    <3>1. PICK tried \in {Tried(TRUE), [call EXCEPT !.network = TRUE]}, pc \in {"pause", "switch"} :
             call' = [tried EXCEPT !.pc = pc]
      BY <2>4 DEF NetworkError
    <3>2. CASE tried = Tried(TRUE)
      <4>1. pc \in CallPc /\ call' = [Tried(TRUE) EXCEPT !.pc = pc]
        BY <3>1, <3>2 DEF CallPc
      <4>2. call'.attempt = call.attempt
        BY <2>1, <4>1
      <4> QED
        BY <1>1, <4>2
    <3>3. CASE tried = [call EXCEPT !.network = TRUE]
      BY <1>1, <3>1, <3>3 DEF CallRecord
    <3> QED
      BY <1>1, <3>1, <3>2, <3>3
  <2>5. CASE InnerRetries \/ BodyBegins \/ BodyEnds \/ SwitchNode \/ CallRaises \/ ResolveFails
    <3>1. call'.attempt = call.attempt
      BY <1>1, <2>5 DEF InnerRetries, BodyBegins, BodyEnds, SwitchNode, CallRaises, ResolveFails,
                        CallRecord
    <3> QED
      BY <1>1, <3>1
  <2>6. call'.attempt = call.attempt => ~(call'.attempt > call.attempt)
    BY <1>1
  <2> QED
    BY <1>4, <2>2, <2>3, <2>4, <2>5, <2>6
<1>5. ASSUME NEW kind \in Kind, CallBegins(kind)
      PROVE  ~(call'.attempt > call.attempt)
  BY <1>1, <1>5, NewCallTyped DEF CallBegins
<1>6. \/ call' = call
      \/ ResolveFromCache \/ ResolveReads \/ ResolveStores
      \/ \E success \in BOOLEAN : NodeAnswers(success)
      \/ NodeBusy \/ NetworkError \/ InnerRetries \/ BodyBegins \/ BodyEnds
      \/ SwitchNode \/ CallRaises \/ ResolveFails
      \/ \E kind \in Kind : CallBegins(kind)
  BY DEF DiscoveryNext, InstanceSteps, CallSteps, LoopSteps, LoopReads, LoopStores, LoopFails,
         SdTick, Register, RegisterScores, SendHeartbeat, HeartbeatLands, UnregisterRemoves,
         HeartbeatFails, Unregister, InstanceDies, client
<1> QED
  BY <1>2, <1>3, <1>4, <1>5, <1>6

\* A request goes only to an instance that beat within the health threshold, whatever
\* the cache, two overlapping refreshes and late heartbeats do.
THEOREM PicksAreRecent == DiscoverySpec => PicksBeatRecently
<1>1. /\ DiscoveryOK /\ [DiscoveryNext]_discoveryVars
      => [call'.attempt > call.attempt
            => insts[call'.target].beat <= HealthThreshold]_discoveryVars
  BY PicksStep
<1> QED
  BY <1>1, DiscoveryInvariant, PTL DEF DiscoverySpec, PicksBeatRecently

=============================================================================
