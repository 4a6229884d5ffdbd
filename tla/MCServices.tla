----------------------------- MODULE MCServices -----------------------------
(***************************************************************************)
(* The parts around the worker, which share no state, checked in one run:  *)
(* a behaviour is a behaviour of the module that part names, and the rest  *)
(* stands still.                                                           *)
(***************************************************************************)
EXTENDS PluginConfigs, LangfuseWorkflows, TraceStore, FleetMetrics, HarnessLoop,
        EventStream, ServiceDiscovery, TLC

CONSTANTS plug1, plug2, agent1, a1, a2, a3, msg1, msg2, hop1, hop2,
          sub1, sub2, local1, ask1

MCPlugins == <<plug1, plug2>>
MCIdOf == (plug1 :> agent1) @@ (plug2 :> agent1)
MCConflictOf == (plug1 :> "error") @@ (plug2 :> "overwrite")
MCTaskOf == (a1 :> msg1) @@ (a2 :> msg1) @@ (a3 :> msg2)
MCCaller == (hop1 :> NoHop) @@ (hop2 :> hop1)
MCKindOf == (sub1 :> "sub") @@ (sub2 :> "sub") @@ (local1 :> "local") @@ (ask1 :> "ask")

\* Workers of one agent type are interchangeable.
Interchangeable == Permutations(Member)

VARIABLE part

services == <<configVars, langfuseVars, traceVars, metricsVars, loopVars,
              streamVars, discoveryVars>>

PartsInit ==
    /\ part \in {"configs", "langfuse", "trace", "metrics", "loop", "stream",
                 "discovery"}
    /\ ConfigsInit /\ LangfuseInit /\ TraceInit /\ MetricsInit /\ HarnessInit
    /\ StreamInit /\ DiscoveryInit
    /\ part # "langfuse" => maxWorkflows = CHOOSE n \in Limits : TRUE
    /\ part # "metrics" => up = {}
    /\ part # "stream" => watch.pc = "never"

\* A step of one part leaves the others as they are.
Moves(name, others) == part = name /\ UNCHANGED <<part, others>>

PartsNext ==
    \/ /\ Moves("configs", <<langfuseVars, traceVars, metricsVars, loopVars,
                             streamVars, discoveryVars>>)
       /\ ConfigsNext
    \/ /\ Moves("langfuse", <<configVars, traceVars, metricsVars, loopVars,
                              streamVars, discoveryVars>>)
       /\ LangfuseNext
    \/ /\ Moves("trace", <<configVars, langfuseVars, metricsVars, loopVars,
                           streamVars, discoveryVars>>)
       /\ TraceNext
    \/ /\ Moves("metrics", <<configVars, langfuseVars, traceVars, loopVars,
                             streamVars, discoveryVars>>)
       /\ MetricsNext
    \/ /\ Moves("loop", <<configVars, langfuseVars, traceVars, metricsVars,
                          streamVars, discoveryVars>>)
       /\ HarnessNext
    \/ /\ Moves("stream", <<configVars, langfuseVars, traceVars, metricsVars,
                            loopVars, discoveryVars>>)
       /\ StreamNext
    \/ /\ Moves("discovery", <<configVars, langfuseVars, traceVars, metricsVars,
                               loopVars, streamVars>>)
       /\ DiscoveryNext

PartsSpec == PartsInit /\ [][PartsNext]_<<part, services>>

\* The variables of every module keep to their types.
PartsTypeOK ==
    /\ part = "configs" => ConfigsTypeOK
    /\ part = "langfuse" => LangfuseTypeOK
    /\ part = "trace" => TraceTypeOK
    /\ part = "metrics" => MetricsTypeOK
    /\ part = "loop" => HarnessTypeOK
    /\ part = "stream" => StreamTypeOK
    /\ part = "discovery" => DiscoveryTypeOK
=============================================================================
