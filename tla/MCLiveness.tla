----------------------------- MODULE MCLiveness -----------------------------
(***************************************************************************)
(* The modules whose properties need fairness, which share no state,       *)
(* checked in one run: a behaviour is a behaviour of the module that part  *)
(* names, under that module's fairness, and the rest stands still.         *)
(***************************************************************************)
EXTENDS WorkerAdmin, RunnerSlots, FleetMetrics, ServiceDiscovery, TLC

CONSTANTS h1, h2, type1, type2, m1, m2, m3, stream1, stream2

MCDeclaredBy == (h1 :> {type1}) @@ (h2 :> {type2})
MCStreamOf == (m1 :> stream1) @@ (m2 :> stream2) @@ (m3 :> CtrlStream)

VARIABLE part

running == <<part, adminVars, slotVars, metricsVars, discoveryVars>>

PartsInit ==
    /\ part \in {"admin", "slots", "metrics", "discovery"}
    /\ AdminInit /\ SlotsInit /\ MetricsInit /\ DiscoveryInit
    /\ part # "metrics" => up = {}

Moves(name, others) == part = name /\ UNCHANGED <<part, others>>
Admin == Moves("admin", <<slotVars, metricsVars, discoveryVars>>)
Slots == Moves("slots", <<adminVars, metricsVars, discoveryVars>>)
Metrics == Moves("metrics", <<adminVars, slotVars, discoveryVars>>)
Discovery == Moves("discovery", <<adminVars, slotVars, metricsVars>>)

PartsNext ==
    \/ Admin /\ AdminNext
    \/ Slots /\ SlotsNext
    \/ Metrics /\ MetricsNext
    \/ Discovery /\ DiscoveryNext

\* AdminFairness, SlotsFairness, MetricsFairness and DiscoveryFairness, of the
\* part that runs.
PartsFairness ==
    /\ \A g \in Manager : WF_running(Admin /\ ManagerStep(g))
    /\ \A h \in Host : /\ WF_running(Admin /\ BeatStep(h))
                       /\ SF_running(Admin /\ HandleCommand(h))
                       /\ WF_running(Admin /\ HostStep(h))
    /\ WF_running(Slots /\ ConsumerStep)
    /\ WF_running(Slots /\ ShutdownStep)
    /\ \A m \in Msg : WF_running(Slots /\ TaskStep(m))
    /\ WF_running(Metrics /\ MetricsTick)
    /\ \A p \in Collector : WF_running(Metrics /\ CollectorStep(p))
    /\ \A i \in Instance : WF_running(Discovery /\ InstanceSteps(i))
    /\ WF_running(Discovery /\ LoopSteps)
    /\ WF_running(Discovery /\ CallSteps)
    /\ WF_running(Discovery /\ SdTick)

PartsSpec == PartsInit /\ [][PartsNext]_running /\ PartsFairness
=============================================================================
