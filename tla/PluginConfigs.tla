--------------------------- MODULE PluginConfigs ---------------------------
(***************************************************************************)
(* Agent configurations on the workers of one agent type: plugins register *)
(* them at startup, a reload command replays the plugins' reload hooks     *)
(* over the stable version, and every execution is bound to the snapshot   *)
(* its first activation took, which later activations restore.             *)
(*                                                                         *)
(* A configuration is the plugin that made it and the reload it came from. *)
(* The order of plugins is that of get_active_plugins (priority, name).    *)
(***************************************************************************)
EXTENDS Naturals, Sequences, SequencesExt, FiniteSets

CONSTANTS
    Member,         \* the workers
    Plugins,        \* active plugins, in order
    IdOf,           \* by plugin: agent_id of the configuration it makes
    ConflictOf,     \* by plugin: on_conflict of that configuration
    Reload,         \* reload ids
    Startup,        \* the origin of configurations registered at startup
    Run,            \* executions
    MaxCopies       \* bound: copies of one reload command on a control stream

ASSUME PluginAssumption ==
    /\ Plugins \in Seq(ToSet(Plugins))
    /\ ConflictOf \in [ToSet(Plugins) -> {"error", "overwrite", "skip"}]
    /\ DOMAIN IdOf = ToSet(Plugins)
    /\ Startup \notin Reload /\ MaxCopies \in Nat

Plugin == ToSet(Plugins)
Config == [by: Plugin, origin: Reload \cup {Startup}]
\* What a registration may return: a valid list, or one with an empty id.
Listed == [by: Plugin, origin: {Startup}, valid: BOOLEAN]
Snapshot == [version: Nat, configs: SUBSET Config]
Unbound == [version |-> 0, configs |-> {}]

VARIABLES
    pluginReg,  \* by worker: its PluginRegistry
    hotReload,  \* by worker: the reload being replayed
    reloadBox,  \* by worker: reload commands on its control stream
    reloadAck,  \* acknowledgements published
    binding,    \* by execution: where it is and the snapshots it has run with
    snapshots   \* by execution: the persisted snapshot, Unbound when absent

configVars == <<pluginReg, hotReload, reloadBox, reloadAck, binding, snapshots>>

RegistryRecord ==
    [at: 0..Len(Plugins),               \* plugins tried by initialize_plugins
     up: BOOLEAN,                       \* initialize_plugins has returned
     configs: SUBSET Config, version: Nat,
     initialized: SUBSET Plugin,
     context: Seq(Listed),              \* build_context.agent_configs
     done: [Reload -> {"", "success", "failure"}]]  \* _reload_status

Idle == [id |-> Startup, at |-> 0, working |-> {}]

ConfigsTypeOK ==
    /\ pluginReg \in [Member -> RegistryRecord]
    /\ hotReload \in [Member -> [id: Reload \cup {Startup}, at: 0..Len(Plugins),
                                 working: SUBSET Config]]
    /\ reloadBox \in [Member -> [Reload -> 0..MaxCopies]]
    /\ reloadAck \subseteq (Member \X Reload \X {"success", "failure"})
    /\ binding \in [Run -> [pc: {"new", "taken", "blob", "running", "waiting", "failed", "done"},
                            key: BOOLEAN, held: Snapshot,
                            seen: SUBSET Snapshot]]
    /\ snapshots \in [Run -> Snapshot]

ConfigsInit ==
    /\ pluginReg = [m \in Member |->
          [at |-> 0, up |-> FALSE, configs |-> {}, version |-> 0,
           initialized |-> {}, context |-> <<>>, done |-> [r \in Reload |-> ""]]]
    /\ hotReload = [m \in Member |-> Idle]
    /\ reloadBox = [m \in Member |-> [r \in Reload |-> 0]]
    /\ reloadAck = {}
    /\ binding = [e \in Run |-> [pc |-> "new", key |-> FALSE,
                                 held |-> Unbound, seen |-> {}]]
    /\ snapshots = [e \in Run |-> Unbound]
-----------------------------------------------------------------------------
(* initialize_plugins.                                                     *)

Plain(c) == [by |-> c.by, origin |-> c.origin]

\* One configuration staged: an empty id or an "error" conflict raises, a
\* "skip" conflict keeps what is there.
StageOne(acc, c) ==
    LET existing == {d \in acc.staged : IdOf[d.by] = IdOf[c.by]}
        conflict == existing # {} /\ Plain(c) \notin existing
        raises == ~c.valid \/ (conflict /\ ConflictOf[c.by] = "error")
        kept == raises \/ (conflict /\ ConflictOf[c.by] = "skip")
    IN [ok |-> acc.ok /\ ~raises,
        staged |-> IF ~acc.ok \/ kept THEN acc.staged
                                      ELSE (acc.staged \ existing) \cup {Plain(c)}]

\* _register_plugin_agent_configs over the whole context list.
Stage(configs, list) ==
    LET staging[n \in 0..Len(list)] ==
            IF n = 0 THEN [ok |-> TRUE, staged |-> configs]
            ELSE StageOne(staging[n - 1], list[n])
    IN  staging[Len(list)]

\* The next plugin registers: it raises or times out, returns None, replaces
\* the list or extends it.  The context keeps what it returned even when
\* staging fails; the registry takes the staged list only as a whole.
RegisterPlugin(m) ==
    LET reg == pluginReg[m]
        p == Plugins[reg.at + 1]
        own(v) == [by |-> p, origin |-> Startup, valid |-> v]
    IN /\ ~reg.up /\ reg.at < Len(Plugins)
       /\ \/ pluginReg' = [pluginReg EXCEPT ![m].at = @ + 1]
          \/ \E list \in {reg.context, <<own(TRUE)>>, Append(reg.context, own(TRUE)),
                          Append(reg.context, own(FALSE))} :
                LET stage == Stage(reg.configs, list)
                IN pluginReg' = [pluginReg EXCEPT
                      ![m].at = @ + 1,
                      ![m].context = list,
                      ![m].configs = IF stage.ok THEN stage.staged ELSE @,
                      ![m].initialized = IF stage.ok THEN @ \cup {p} ELSE @]
       /\ UNCHANGED <<hotReload, reloadBox, reloadAck, binding, snapshots>>

\* The version moves once, when anything was registered.
PluginsInitialized(m) ==
    /\ ~pluginReg[m].up /\ pluginReg[m].at = Len(Plugins)
    /\ pluginReg' = [pluginReg EXCEPT ![m].up = TRUE,
                        ![m].context = <<>>,
                        ![m].version = IF pluginReg[m].configs = {} THEN @ ELSE @ + 1]
    /\ UNCHANGED <<hotReload, reloadBox, reloadAck, binding, snapshots>>
-----------------------------------------------------------------------------
(* reload_plugins_for_agent_type, handle_reload_plugins, reload_plugins.   *)

\* The client fans a reload out, or repeats it under the same id.
SendReload(m, r) ==
    /\ pluginReg[m].up
    /\ reloadBox[m][r] < MaxCopies
    /\ reloadBox' = [reloadBox EXCEPT ![m][r] = @ + 1]
    /\ UNCHANGED <<pluginReg, hotReload, reloadAck, binding, snapshots>>

\* An id already processed, even one that failed, only publishes its recorded
\* status again; a new one starts from the stable configurations.
TakeReload(m, r) ==
    /\ pluginReg[m].up /\ hotReload[m] = Idle
    /\ reloadBox[m][r] > 0
    /\ IF pluginReg[m].done[r] # ""
       THEN /\ reloadAck' = reloadAck \cup {<<m, r, pluginReg[m].done[r]>>}
            /\ UNCHANGED hotReload
       ELSE /\ hotReload' = [hotReload EXCEPT
                  ![m] = [id |-> r, at |-> 0, working |-> pluginReg[m].configs]]
            /\ UNCHANGED reloadAck
    /\ reloadBox' = [reloadBox EXCEPT ![m][r] = @ - 1]
    /\ UNCHANGED <<pluginReg, binding, snapshots>>

\* The hooks work on the registry itself.
ReplayHookInPlace(m) ==
    LET hot == hotReload[m]
        p == Plugins[hot.at + 1]
        renewed == {c \in hot.working : c.by # p} \cup {[by |-> p, origin |-> hot.id]}
    IN /\ hot # Idle /\ hot.at < Len(Plugins)
       /\ hotReload' = [hotReload EXCEPT ![m].at = @ + 1, ![m].working = renewed]
       /\ pluginReg' = [pluginReg EXCEPT ![m].configs = renewed]
       /\ UNCHANGED <<reloadBox, reloadAck, binding, snapshots>>

\* One hook of the chain: the default one returns the list unchanged, another
\* returns the list with its configuration renewed.
ReplayHook(m) ==
    LET hot == hotReload[m]
        p == Plugins[hot.at + 1]
    IN /\ hot # Idle /\ hot.at < Len(Plugins)
       /\ \E w \in {hot.working,
                    {c \in hot.working : c.by # p} \cup {[by |-> p, origin |-> hot.id]}} :
             hotReload' = [hotReload EXCEPT ![m].at = @ + 1, ![m].working = w]
       /\ UNCHANGED <<pluginReg, reloadBox, reloadAck, binding, snapshots>>

\* The reload ends: recorded first, acknowledged next.
ReloadEnds(m, status) ==
    LET r == hotReload[m].id
    IN /\ pluginReg' = [pluginReg EXCEPT
             ![m].done[r] = status,
             ![m].configs = IF status = "success" THEN hotReload[m].working ELSE @,
             ![m].version = IF status = "success" THEN @ + 1 ELSE @]
       /\ reloadAck' = reloadAck \cup {<<m, r, status>>}
       /\ hotReload' = [hotReload EXCEPT ![m] = Idle]
       /\ UNCHANGED <<reloadBox, binding, snapshots>>

ReloadSucceeds(m) ==
    hotReload[m] # Idle /\ hotReload[m].at = Len(Plugins) /\ ReloadEnds(m, "success")

\* A hook raises or returns an invalid list.
ReloadFails(m) ==
    hotReload[m] # Idle /\ hotReload[m].at < Len(Plugins) /\ ReloadEnds(m, "failure")
-----------------------------------------------------------------------------
(* _resolve_agent_configs_snapshot.                                        *)

Current(m) == [version |-> pluginReg[m].version, configs |-> pluginReg[m].configs]

\* The first activation takes the worker's snapshot, persists it and records
\* its key: three round trips apart.
TakeSnapshot(m, e) ==
    /\ binding[e].pc = "new" /\ pluginReg[m].up
    /\ binding' = [binding EXCEPT ![e].pc = "taken", ![e].held = Current(m)]
    /\ UNCHANGED <<pluginReg, hotReload, reloadBox, reloadAck, snapshots>>

PersistSnapshot(e) ==
    /\ binding[e].pc = "taken"
    /\ snapshots' = [snapshots EXCEPT ![e] = binding[e].held]
    /\ binding' = [binding EXCEPT ![e].pc = "blob"]
    /\ UNCHANGED <<pluginReg, hotReload, reloadBox, reloadAck>>

\* update_execution_fields; the context then loads the snapshot and the
\* handler runs with it.
BindSnapshot(e) ==
    /\ binding[e].pc = "blob"
    /\ binding' = [binding EXCEPT ![e].pc = "running", ![e].key = TRUE,
                                  ![e].held = Unbound,
                                  ![e].seen = @ \cup {binding[e].held}]
    /\ UNCHANGED <<pluginReg, hotReload, reloadBox, reloadAck, snapshots>>

\* Either write failed: the activation raises and the execution fails.
BindFails(e) ==
    /\ binding[e].pc \in {"taken", "blob"}
    /\ binding' = [binding EXCEPT ![e].pc = "failed"]
    /\ UNCHANGED <<pluginReg, hotReload, reloadBox, reloadAck, snapshots>>

RunSuspends(e) ==
    /\ binding[e].pc = "running"
    /\ binding' = [binding EXCEPT ![e].pc = "waiting"]
    /\ UNCHANGED <<pluginReg, hotReload, reloadBox, reloadAck, snapshots>>

\* mark_execution_finished deletes the snapshot of a terminal execution.
RunFinishes(e) ==
    /\ binding[e].pc = "running"
    /\ binding' = [binding EXCEPT ![e].pc = "done"]
    /\ snapshots' = [snapshots EXCEPT ![e] = Unbound]
    /\ UNCHANGED <<pluginReg, hotReload, reloadBox, reloadAck>>

\* A reply resumes an execution that waits, or that has returned for good after
\* it dispatched.
Resumable(e) == binding[e].pc \in {"waiting", "done"}

\* A resume takes what its worker has now.
ResumeTakesCurrent(m, e) ==
    /\ Resumable(e) /\ pluginReg[m].up
    /\ binding' = [binding EXCEPT ![e].pc = "running", ![e].seen = @ \cup {Current(m)}]
    /\ UNCHANGED <<pluginReg, hotReload, reloadBox, reloadAck, snapshots>>

\* A resume on any worker restores the persisted snapshot, or fails.
ResumeRestores(m, e) ==
    /\ Resumable(e) /\ pluginReg[m].up
    /\ binding' = [binding EXCEPT
          ![e].pc = IF binding[e].key /\ snapshots[e] # Unbound THEN "running" ELSE "failed",
          ![e].seen = IF binding[e].key /\ snapshots[e] # Unbound
                      THEN @ \cup {snapshots[e]} ELSE @]
    /\ UNCHANGED <<pluginReg, hotReload, reloadBox, reloadAck, snapshots>>

SnapshotExpires(e) ==
    /\ binding[e].pc = "waiting" /\ snapshots[e] # Unbound
    /\ snapshots' = [snapshots EXCEPT ![e] = Unbound]
    /\ UNCHANGED <<pluginReg, hotReload, reloadBox, reloadAck, binding>>
-----------------------------------------------------------------------------
ConfigsNext ==
    \/ \E m \in Member : RegisterPlugin(m) \/ PluginsInitialized(m) \/ ReplayHook(m)
                         \/ ReloadSucceeds(m) \/ ReloadFails(m)
    \/ \E m \in Member, r \in Reload : SendReload(m, r) \/ TakeReload(m, r)
    \/ \E m \in Member, e \in Run : TakeSnapshot(m, e) \/ ResumeRestores(m, e)
    \/ \E e \in Run : PersistSnapshot(e) \/ BindSnapshot(e) \/ BindFails(e)
                      \/ RunSuspends(e) \/ RunFinishes(e) \/ SnapshotExpires(e)

ConfigsSpec == ConfigsInit /\ [][ConfigsNext]_configVars
-----------------------------------------------------------------------------
(* Properties.                                                             *)

\* Every activation of an execution runs with one snapshot, on whatever worker
\* it resumes and whatever was reloaded in between; a snapshot that is gone
\* fails the resume instead of letting it go on with other configurations.
OneSnapshotPerRun == \A e \in Run : Cardinality(binding[e].seen) <= 1

\* A reload replaces the stable version as a whole: a configuration a reload
\* made is in the registry only once that reload has succeeded there.
ReloadIsAtomic ==
    \A m \in Member, r \in Reload :
        (\E c \in pluginReg[m].configs : c.origin = r) => pluginReg[m].done[r] = "success"

\* The acknowledgements of one worker for one reload agree with each other and
\* with what its registry did, however often the command is delivered.
AcksAgree ==
    \A a \in reloadAck : pluginReg[a[1]].done[a[2]] = a[3]

\* A plugin whose registration failed has none of its configurations in the
\* registry, although its list stays in the build context the next plugins
\* extend.
OnlyInitializedContribute ==
    \A m \in Member : \A c \in pluginReg[m].configs :
        c.origin = Startup => c.by \in pluginReg[m].initialized

\* What a registry holds can be accounted for: by plugins that registered as a
\* whole, and by reloads that succeeded as a whole and were acknowledged so
\* (registry.py, the staged lists of initialize_plugins and reload_plugins).
ReloadHolds == ReloadIsAtomic /\ AcksAgree /\ OnlyInitializedContribute
=============================================================================
