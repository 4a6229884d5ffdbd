---------------------------- MODULE WorkerAdmin ----------------------------
(***************************************************************************)
(* Administration of one worker id: managers suspend, resume, evict, deny  *)
(* and allow it (WorkerManager and the CLI over it), over two channels: a  *)
(* durable state in Redis, which every heartbeat reads, and a command      *)
(* pushed to the worker's control stream.  Membership in the agent types'  *)
(* routing sets is written by the managers, by the heartbeats of the       *)
(* process that serves the id, and by the shutdown of the one before it.   *)
(*                                                                         *)
(* A Redis answer that is used after another party may have acted is a     *)
(* step of its own; a walk over the declared types is one step, or one per *)
(* answer where the membership it leaves depends on the order.             *)
(***************************************************************************)
EXTENDS Naturals, Sequences

CONSTANTS
    Host,           \* processes started with this worker id, each once
    NoHost,         \* the holder of a free lease
    Manager,        \* concurrent callers of WorkerManager
    AgentType,      \* agent types of the deployment
    DeclaredBy,     \* by process: the agent types it serves
    MaxEvents       \* bound: starts and signals of processes, operations of
                    \* the managers, leases that lapse under their holder

Lifecycle == {"active", "suspended", "evicted"}

ASSUME NoHostAssumption == NoHost \notin Host
ASSUME DeclaredAssumption == DeclaredBy \in [Host -> SUBSET AgentType]
ASSUME MaxEventsAssumption == MaxEvents \in Nat

VARIABLES
    holder,     \* the process whose token the lease holds
    admin,      \* hash worker:admin, field lifecycle
    denylist,   \* agent types whose denylist has this worker
    declared,   \* set worker_declared_agent_types
    members,    \* agent types whose members set has this worker
    pushed,     \* the worker's control stream
    manager,    \* by manager: the operation under way
    host,       \* by process: runner and heartbeat thread
    events      \* such events so far

adminVars == <<holder, admin, denylist, declared, members, pushed, manager, host,
               events>>
shared == <<holder, admin, denylist, declared, members, pushed, manager, events>>

\* set: the state is to be written; members: the routing sets; add: the types
\* that restore has found allowed; push: the command.
ManagerRecord == [pc: {"idle", "set", "members", "add", "push"},
                  to: Lifecycle,
                  todo: SUBSET AgentType]
IdleManager == [pc |-> "idle", to |-> "active", todo |-> {}]

\* The heartbeat thread, and start() before it: cas, read the lifecycle, tell
\* the runner, then register_worker_membership: scan the declared types, and
\* for every type check the denylist and add.
BeatStage == {"off", "cas", "read", "tell", "scan", "check", "add", "refresh"}
HostRecord == [pc: {"new", "claim", "start", "serve", "drain", "release",
                    "unregister", "unlist", "gone"},
               life: Lifecycle,             \* _admin_lifecycle
               skip: SUBSET AgentType,      \* _denied_agent_types
               beat: BeatStage,
               read: Lifecycle,             \* the lifecycle the thread has read
               todo: SUBSET AgentType,      \* types still to be registered,
                                            \* or to be removed on shutdown
               found: SUBSET AgentType]     \* the type checked, if allowed
NewHost == [pc |-> "new", life |-> "active", skip |-> {}, beat |-> "off",
            read |-> "active", todo |-> {}, found |-> {}]

AdminTypeOK ==
    /\ holder \in Host \cup {NoHost}
    /\ admin \in Lifecycle
    /\ denylist \subseteq AgentType
    /\ declared \subseteq AgentType
    /\ members \subseteq AgentType
    /\ pushed \in Seq(Lifecycle) /\ Len(pushed) <= MaxEvents
    /\ manager \in [Manager -> ManagerRecord]
    /\ host \in [Host -> HostRecord]
    /\ events \in 0..MaxEvents

AdminInit ==
    /\ holder = NoHost
    /\ admin = "active"
    /\ denylist = {} /\ declared = {} /\ members = {}
    /\ pushed = <<>>
    /\ manager = [g \in Manager |-> IdleManager]
    /\ host = [p \in Host |-> NewHost]
    /\ events = 0

Event ==
    /\ events < MaxEvents
    /\ events' = events + 1
-----------------------------------------------------------------------------
(* The managers.                                                           *)

ManagerAt(g, pc) == manager' = [manager EXCEPT ![g].pc = pc]

\* suspend_worker, resume_worker, evict_worker are called.
LifecycleOp(g, l) ==
    /\ manager[g].pc = "idle"
    /\ Event
    /\ manager' = [manager EXCEPT ![g] = [pc |-> "set", to |-> l, todo |-> {}]]
    /\ UNCHANGED <<holder, admin, denylist, declared, members, pushed, host>>

\* set_worker_admin_state
SetAdminState(g) ==
    /\ manager[g].pc = "set"
    /\ admin' = manager[g].to
    /\ ManagerAt(g, "members")
    /\ UNCHANGED <<holder, denylist, declared, members, pushed, host, events>>

\* remove_worker_from_type_members: every declared type.
RemoveMembers(g) ==
    /\ manager[g].pc = "members" /\ manager[g].to # "active"
    /\ members' = members \ declared
    /\ ManagerAt(g, "push")
    /\ UNCHANGED <<holder, admin, denylist, declared, pushed, host, events>>

\* restore_worker_to_type_members: the declared types that are not denied ...
RestoreChecks(g) ==
    /\ manager[g].pc = "members" /\ manager[g].to = "active"
    /\ manager' = [manager EXCEPT ![g].pc = "add", ![g].todo = declared \ denylist]
    /\ UNCHANGED <<holder, admin, denylist, declared, members, pushed, host,
                   events>>

\* ... are added.
RestoreAdds(g) ==
    /\ manager[g].pc = "add"
    /\ members' = members \cup manager[g].todo
    /\ manager' = [manager EXCEPT ![g].pc = "push", ![g].todo = {}]
    /\ UNCHANGED <<holder, admin, denylist, declared, pushed, host, events>>

PushCommand(g) ==
    /\ manager[g].pc = "push"
    /\ pushed' = Append(pushed, manager[g].to)
    /\ manager' = [manager EXCEPT ![g] = IdleManager]
    /\ UNCHANGED <<holder, admin, denylist, declared, members, host, events>>

\* SADD to the denylist and SREM from the members in one pipeline.
DenyType(t) ==
    /\ Event
    /\ denylist' = denylist \cup {t}
    /\ members' = members \ {t}
    /\ UNCHANGED <<holder, admin, declared, pushed, manager, host>>

\* SREM from the denylist; the next heartbeat adds the worker again.
AllowType(t) ==
    /\ t \in denylist
    /\ Event
    /\ denylist' = denylist \ {t}
    /\ UNCHANGED <<holder, admin, declared, members, pushed, manager, host>>

\* clear_worker_admin_state, allow_worker_rejoin: default active, no push.
ClearAdminState ==
    /\ admin # "active"
    /\ Event
    /\ admin' = "active"
    /\ UNCHANGED <<holder, denylist, declared, members, pushed, manager, host>>

ManagerStep(g) ==
    \/ SetAdminState(g) \/ RemoveMembers(g) \/ RestoreChecks(g)
    \/ RestoreAdds(g) \/ PushCommand(g)

ManagerCalls ==
    \/ \E g \in Manager, l \in Lifecycle : LifecycleOp(g, l)
    \/ \E t \in AgentType : DenyType(t) \/ AllowType(t)
    \/ ClearAdminState
-----------------------------------------------------------------------------
(* The process: claim, heartbeats, commands, shutdown.                     *)

HostStarts(p) ==
    /\ host[p].pc = "new"
    /\ Event
    /\ host' = [host EXCEPT ![p].pc = "claim"]
    /\ UNCHANGED <<holder, admin, denylist, declared, members, pushed, manager>>

\* The claim succeeds; WorkerHeartbeat.start reads the lifecycle next.
HostClaims(p) ==
    /\ host[p].pc = "claim" /\ holder = NoHost
    /\ holder' = p
    /\ host' = [host EXCEPT ![p].pc = "start", ![p].beat = "read"]
    /\ UNCHANGED <<admin, denylist, declared, members, pushed, manager, events>>

\* The lease lapses under its holder: see WorkerLease for when.
HolderLapses ==
    /\ holder # NoHost
    /\ Event
    /\ holder' = NoHost
    /\ UNCHANGED <<admin, denylist, declared, members, pushed, manager, host>>

\* heartbeat_worker: accepted if the lease is absent or its own; the last call
\* of start(), and the first of every round of the thread, where a rejection
\* means the lock was stolen.  A starting process is now told the lifecycle
\* it read and opens its consumer.
BeatCas(p) ==
    /\ host[p].beat = "cas"
    /\ host[p].pc \in {"start", "serve"}
    /\ IF holder \in {NoHost, p}
       THEN /\ holder' = p
            /\ host' = [host EXCEPT
                    ![p].pc = "serve",
                    ![p].beat = IF host[p].pc = "start" THEN "cas" ELSE "read",
                    ![p].life = IF host[p].pc = "start" /\ host[p].read # "active"
                                THEN host[p].read ELSE @]
       ELSE /\ host' = [host EXCEPT ![p].pc = "drain", ![p].beat = "off"]
            /\ UNCHANGED holder
    /\ UNCHANGED <<admin, denylist, declared, members, pushed, manager, events>>

\* get_worker_admin_state
BeatReads(p) ==
    /\ host[p].beat = "read"
    /\ host' = [host EXCEPT
            ![p].read = admin,
            ![p].beat = IF host[p].pc # "start" THEN "tell"
                        ELSE IF admin = "active" THEN "scan" ELSE "cas"]
    /\ UNCHANGED shared

\* The callback is left to the pushed command.
BeatTellsNothing(p) ==
    /\ host[p].beat = "tell"
    /\ host' = [host EXCEPT
            ![p].beat = IF host[p].read = "active" THEN "scan" ELSE "refresh"]
    /\ UNCHANGED shared

\* Membership only when the lifecycle has changed.
BeatTellsOnChange(p) ==
    /\ host[p].beat = "tell"
    /\ host' = [host EXCEPT
            ![p].life = host[p].read,
            ![p].beat = IF host[p].read = "active" /\ host[p].life # "active"
                        THEN "scan" ELSE "refresh"]
    /\ UNCHANGED shared

\* lifecycle_callback, then membership only if active.
BeatTells(p) ==
    /\ host[p].beat = "tell"
    /\ host' = [host EXCEPT
            ![p].life = host[p].read,
            ![p].beat = IF host[p].read = "active" THEN "scan" ELSE "refresh"]
    /\ UNCHANGED shared

\* Types declared by an earlier process are taken out.
BeatScans(p) ==
    /\ host[p].beat = "scan"
    /\ declared' = declared \cap DeclaredBy[p]
    /\ members' = members \ (declared \ DeclaredBy[p])
    /\ host' = [host EXCEPT ![p].beat = "check", ![p].todo = DeclaredBy[p]]
    /\ UNCHANGED <<holder, admin, denylist, pushed, manager, events>>

\* SADD declared and SISMEMBER of the denylist, for the next type ...
BeatChecks(p, t) ==
    /\ host[p].beat = "check"
    /\ t \in host[p].todo
    /\ declared' = declared \cup {t}
    /\ host' = [host EXCEPT ![p].beat = "add", ![p].todo = @ \ {t},
                            ![p].found = {t} \ denylist]
    /\ UNCHANGED <<holder, admin, denylist, members, pushed, manager, events>>

\* ... and SADD members unless it was denied.
BeatAdds(p) ==
    /\ host[p].beat = "add"
    /\ members' = members \cup host[p].found
    /\ host' = [host EXCEPT
            ![p].found = {},
            ![p].beat = IF host[p].todo # {} THEN "check"
                        ELSE IF host[p].pc = "start" THEN "cas" ELSE "refresh"]
    /\ UNCHANGED <<holder, admin, denylist, declared, pushed, manager, events>>

\* _refresh_denylist, then sleep.
BeatRefreshes(p) ==
    /\ host[p].beat = "refresh"
    /\ host' = [host EXCEPT ![p].skip = denylist \cap DeclaredBy[p],
                            ![p].beat = "cas"]
    /\ UNCHANGED shared

\* A command is read from the control stream, by any process of the group
\* whose control loop runs.
HandleCommand(p) ==
    /\ host[p].pc \in {"start", "serve", "drain"}
    /\ pushed # <<>>
    /\ host' = [host EXCEPT ![p].life = Head(pushed)]
    /\ pushed' = Tail(pushed)
    /\ UNCHANGED <<holder, admin, denylist, declared, members, manager, events>>

\* The consumer loop sees the eviction and returns, or a signal arrives.
\* _shutdown cancels the consumer, which the heartbeat finds unhealthy.
HostEvicted(p) ==
    /\ host[p].pc = "serve" /\ host[p].life = "evicted"
    /\ host' = [host EXCEPT ![p].pc = "drain"]
    /\ UNCHANGED shared

HostSignalled(p) ==
    /\ host[p].pc = "serve"
    /\ Event
    /\ host' = [host EXCEPT ![p].pc = "drain"]
    /\ UNCHANGED <<holder, admin, denylist, declared, members, pushed, manager>>

BeatUnhealthy(p) ==
    /\ host[p].pc = "drain" /\ host[p].beat = "cas"
    /\ host' = [host EXCEPT ![p].beat = "off"]
    /\ UNCHANGED shared

\* Tasks have drained and the heartbeat thread has been joined.
HostStops(p) ==
    /\ host[p].pc = "drain" /\ host[p].beat = "off"
    /\ host' = [host EXCEPT ![p].pc = "release"]
    /\ UNCHANGED shared

\* release_worker_id; the membership is left alone unless it was this
\* process's lease.
HostReleases(p) ==
    /\ host[p].pc = "release"
    /\ IF holder = p
       THEN holder' = NoHost /\ host' = [host EXCEPT ![p].pc = "unregister"]
       ELSE host' = [host EXCEPT ![p].pc = "gone"] /\ UNCHANGED holder
    /\ UNCHANGED <<admin, denylist, declared, members, pushed, manager, events>>

\* unregister_worker_membership: read and delete the declared types ...
HostUnregisters(p) ==
    /\ host[p].pc = "unregister"
    /\ host' = [host EXCEPT ![p].pc = "unlist", ![p].todo = declared]
    /\ declared' = {}
    /\ UNCHANGED <<holder, admin, denylist, members, pushed, manager, events>>

\* ... and leave the members sets of those.
HostUnlists(p) ==
    /\ host[p].pc = "unlist"
    /\ members' = members \ host[p].todo
    /\ host' = [host EXCEPT ![p].pc = "gone", ![p].todo = {}]
    /\ UNCHANGED <<holder, admin, denylist, declared, pushed, manager, events>>

BeatStep(p) ==
    \/ BeatCas(p) \/ BeatReads(p) \/ BeatTells(p) \/ BeatScans(p)
    \/ (\E t \in AgentType : BeatChecks(p, t))
    \/ BeatAdds(p) \/ BeatRefreshes(p) \/ BeatUnhealthy(p)

HostStep(p) ==
    \/ HostEvicted(p) \/ HostStops(p) \/ HostReleases(p)
    \/ HostUnregisters(p) \/ HostUnlists(p)

AdminNext ==
    \/ ManagerCalls
    \/ HolderLapses
    \/ \E g \in Manager : ManagerStep(g)
    \/ \E p \in Host : \/ HostStarts(p) \/ HostClaims(p) \/ HostSignalled(p)
                       \/ BeatStep(p) \/ HandleCommand(p) \/ HostStep(p)

\* Redis calls return, threads run, and a live process reads its stream.
\* Nothing is assumed of operators, signals or the lease.
AdminFairness ==
    /\ \A g \in Manager : WF_adminVars(ManagerStep(g))
    /\ \A p \in Host : /\ WF_adminVars(BeatStep(p))
                        /\ SF_adminVars(HandleCommand(p))
                        /\ WF_adminVars(HostStep(p))
AdminSpec == AdminInit /\ [][AdminNext]_adminVars /\ AdminFairness
-----------------------------------------------------------------------------
(* Properties.                                                             *)

\* Once the durable state no longer changes, a process that keeps serving has
\* taken it over for good, and an evicted one does not keep serving, whatever
\* order the pushed commands came in, whoever read them, and whichever stale
\* value a heartbeat told the runner last (heartbeat.py, the callback of every
\* round; worker_manager.py, the "durable fallback").
LifecycleConverges ==
    \A p \in Host, l \in Lifecycle :
        <>[](admin = l /\ host[p].pc = "serve")
            => l # "evicted" /\ <>[](host[p].life = l)

\* A process that keeps serving, active and allowed, ends up routable for its
\* type for good, although the shutdown of the process before it, a manager or
\* a stale heartbeat may take the membership away (runner._shutdown releases
\* the id before it unregisters).
MembershipHeals ==
    \A p \in Host : \A t \in DeclaredBy[p] :
        <>[](admin = "active" /\ t \notin denylist /\ host[p].pc = "serve")
            => <>[](t \in members)

\* heartbeat.py: "a suspended or evicted worker must not re-add itself to the
\* agent_type:members sets".  With every operation done and every thread
\* between two rounds, a worker that is not active is in no members set.
SuspendedNotRouted ==
    /\ \A g \in Manager : manager[g].pc = "idle"
    /\ \A p \in Host : /\ host[p].pc \in {"new", "serve", "gone"}
                        /\ host[p].beat \in {"off", "cas"}
    /\ admin # "active"
    => members = {}
=============================================================================
