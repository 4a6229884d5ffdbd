------------------------------ MODULE Delivery ------------------------------
(***************************************************************************)
(* Sending one command: GatewayClient.send_message with the shared         *)
(* AvailabilityRouter, the reference WakeupController and the              *)
(* DeliveryGate.  A send is one call with a message id of its own; the     *)
(* sends in Resumes wake an execution that is already recorded.            *)
(*                                                                         *)
(* Every Redis call is a step of its own, so the workers that come and go, *)
(* the control-plane keys, the controller and the gate act between any two *)
(* of them.  One online worker stands for the workers of its agent type.   *)
(***************************************************************************)
EXTENDS Naturals, Sequences, FiniteSets

CONSTANTS
    Send,           \* calls of send_message
    Resumes,        \* the sends with action RESUME
    NoSend,
    AgentType,
    NoType,
    TargetOf,       \* by send: target_agent_type
    RoutePolicies,  \* the policies callers use
    MaxPlaneEvents  \* bound: outages, key changes and controller crashes

ASSUME DeliveryAssumption ==
    /\ Resumes \subseteq Send /\ NoSend \notin Send /\ NoType \notin AgentType
    /\ TargetOf \in [Send -> AgentType]
    /\ RoutePolicies \subseteq {"FAIL_FAST", "SEND_ANYWAY", "WAKE_AND_WAIT",
                                "WAKE_AND_QUEUE", "QUEUE_ONLY"}
    /\ MaxPlaneEvents \in Nat

VARIABLES
    live,       \* agent types with an online, active worker
    plane,      \* the control-plane keys: circuit, quota, fallback
    send,       \* by send: where send_message is
    wakeups,    \* the wakeup stream
    controller, \* the wakeup controller
    dedupe,     \* by agent type: the send holding the dedupe key
    decisions,  \* by send: its wakeup result stream
    pending,    \* the pending-delivery stream
    arrived,    \* by send: the control streams its command was added to
    taken,      \* sends whose command a worker has read
    sendRecord, \* by send: status of the execution its message id maps to
    planeEvents \* environment events so far

deliveryVars == <<live, plane, send, wakeups, controller, dedupe, decisions,
                  pending, arrived, taken, sendRecord, planeEvents>>

SendPc == {"idle", "policy", "probe", "fallback", "wake", "await", "recheck",
           "enqueue", "direct", "refuse", "init", "publish", "sent", "refused"}
RouteStatus == {"", "DELIVER_NOW", "WAIT_AND_DELIVER", "QUEUE_PENDING",
                "FALLBACK_TO_OTHER_AGENT_TYPE", "DIRECT_WORKER"}
Decision == {"READY", "STARTING", "QUEUED", "REJECTED", "FAILED", "FALLBACK"}
\* What _wait_for_wakeup_decision keeps waiting after.
Provisional == {"STARTING", "QUEUED"}

DeliveryTypeOK ==
    /\ live \subseteq AgentType
    /\ plane \in [open: SUBSET AgentType, quotaSpent: BOOLEAN,
                  fallback: [AgentType -> AgentType \cup {NoType}]]
    /\ send \in [Send -> [pc: SendPc, policy: RoutePolicies \cup {"FAIL_FAST"},
                          target: AgentType, route: RouteStatus]]
    /\ wakeups \in Seq(Send)
    /\ controller \in [read: Nat, calling: BOOLEAN]
    /\ dedupe \in [AgentType -> Send \cup {NoSend}]
    /\ decisions \in [Send -> Seq(Decision \X AgentType)]
    /\ pending \subseteq Send
    /\ arrived \in [Send -> Seq(AgentType)]
    /\ taken \subseteq Send
    /\ sendRecord \in [Send -> {"none", "QUEUED", "RUNNING", "SUSPENDED", "FAILED"}]
    /\ planeEvents \in 0..MaxPlaneEvents

DeliveryInit ==
    /\ live \in SUBSET AgentType
    /\ plane = [open |-> {}, quotaSpent |-> FALSE,
                fallback |-> [t \in AgentType |-> NoType]]
    /\ send = [s \in Send |-> [pc |-> "idle", policy |-> "FAIL_FAST",
                               target |-> TargetOf[s], route |-> ""]]
    /\ wakeups = <<>>
    /\ controller = [read |-> 0, calling |-> FALSE]
    /\ dedupe = [t \in AgentType |-> NoSend]
    /\ decisions = [s \in Send |-> <<>>]
    /\ pending = {}
    /\ arrived = [s \in Send |-> <<>>]
    /\ taken = {}
    /\ sendRecord = [s \in Send |-> IF s \in Resumes THEN "SUSPENDED" ELSE "none"]
    /\ planeEvents = 0
-----------------------------------------------------------------------------
(* send_message and AvailabilityRouter.prepare_delivery.                   *)

Goto(s, pc) == send' = [send EXCEPT ![s].pc = pc]

\* The route is decided: the execution is initialized next, unless the send
\* resumes one that is already recorded.
Routed(s, route) ==
    send' = [send EXCEPT ![s].route = route,
                         ![s].pc = IF s \in Resumes THEN "publish" ELSE "init"]

Rerouted(s, t) ==
    send' = [send EXCEPT ![s].route = "FALLBACK_TO_OTHER_AGENT_TYPE",
                         ![s].target = t,
                         ![s].pc = IF s \in Resumes THEN "publish" ELSE "init"]

\* Only the sender's own position changes.
Reads == UNCHANGED <<live, plane, wakeups, controller, dedupe, decisions,
                     pending, arrived, taken, sendRecord, planeEvents>>

\* Parameters, ids and the command are built; with target_worker_id the send
\* bypasses the availability router.
SendBegins(s) ==
    /\ send[s].pc = "idle"
    /\ \E p \in RoutePolicies, pc \in {"policy", "direct"} :
          send' = [send EXCEPT ![s].pc = pc, ![s].policy = p]
    /\ Reads

\* _resolve_direct_worker_route: LookupError when the worker is offline; the
\* failed send leaves no record.
DirectRoute(s) ==
    /\ send[s].pc = "direct"
    /\ IF send[s].policy = "SEND_ANYWAY" \/ send[s].target \in live
       THEN Routed(s, "DIRECT_WORKER")
       ELSE Goto(s, "refused")
    /\ Reads

\* _check_control_plane_policy, before any policy of the caller.
PolicyCheck(s) ==
    /\ send[s].pc = "policy"
    /\ IF send[s].target \in plane.open \/ plane.quotaSpent
       THEN Goto(s, "refuse")
       ELSE IF send[s].policy = "SEND_ANYWAY" THEN Routed(s, "DELIVER_NOW")
                                              ELSE Goto(s, "probe")
    /\ Reads

ProbeOnline(s) ==
    /\ send[s].pc = "probe"
    /\ IF send[s].target \in live THEN Routed(s, "DELIVER_NOW")
                                  ELSE Goto(s, "fallback")
    /\ Reads

\* _resolve_configured_fallback, then the caller's offline policy.
ResolveFallback(s) ==
    /\ send[s].pc = "fallback"
    /\ LET other == plane.fallback[send[s].target]
       IN IF other \in live
          THEN Rerouted(s, other)
          ELSE Goto(s, CASE send[s].policy = "FAIL_FAST" -> "refuse"
                         [] send[s].policy = "QUEUE_ONLY" -> "enqueue"
                         [] OTHER -> "wake")
    /\ Reads

\* XADD of the WakeupRequest.
RequestWakeup(s) ==
    /\ send[s].pc = "wake"
    /\ wakeups' = Append(wakeups, s)
    /\ Goto(s, IF send[s].policy = "WAKE_AND_WAIT" THEN "await" ELSE "enqueue")
    /\ UNCHANGED <<live, plane, controller, dedupe, decisions, pending,
                   arrived, taken, sendRecord, planeEvents>>

\* The i-th decision for s is the first that is not provisional.
FirstVerdict(s, i) ==
    /\ decisions[s][i][1] \notin Provisional
    /\ \A j \in 1..(i - 1) : decisions[s][j][1] \in Provisional

\* _wait_for_wakeup_decision returns the first verdict.
DecisionArrives(s) ==
    /\ send[s].pc = "await"
    /\ \E i \in DOMAIN decisions[s] :
          /\ FirstVerdict(s, i)
          /\ LET d == decisions[s][i]
             IN CASE d[1] = "READY" -> Goto(s, "recheck")
                  [] d[1] = "FALLBACK" -> Rerouted(s, d[2])
                  [] OTHER -> Goto(s, "refuse")
    /\ Reads

\* READY is not taken on trust: the agent type is probed again.
RecheckOnline(s) ==
    /\ send[s].pc = "recheck"
    /\ IF send[s].target \in live THEN Routed(s, "WAIT_AND_DELIVER")
                                  ELSE Goto(s, "refuse")
    /\ Reads

\* The block time runs out with nothing decisive read.
AwaitTimesOut(s) ==
    /\ send[s].pc = "await"
    /\ Goto(s, "refuse")
    /\ Reads

\* _queue_pending: the command goes to the pending stream.
EnqueuePending(s) ==
    /\ send[s].pc = "enqueue"
    /\ pending' = pending \cup {s}
    /\ Routed(s, "QUEUE_PENDING")
    /\ UNCHANGED <<live, plane, wakeups, controller, dedupe, decisions,
                   arrived, taken, sendRecord, planeEvents>>

\* record_failed_route_decision initializes the execution as FAILED.
RefuseSend(s) ==
    /\ send[s].pc = "refuse"
    /\ sendRecord' = [sendRecord EXCEPT ![s] = "FAILED"]
    /\ Goto(s, "refused")
    /\ UNCHANGED <<live, plane, wakeups, controller, dedupe, decisions,
                   pending, arrived, taken, planeEvents>>

InitializeExecution(s) ==
    /\ send[s].pc = "init"
    /\ sendRecord' = [sendRecord EXCEPT ![s] = "QUEUED"]
    /\ Goto(s, "publish")
    /\ UNCHANGED <<live, plane, wakeups, controller, dedupe, decisions,
                   pending, arrived, taken, planeEvents>>

Arrives(s, t) == arrived' = [arrived EXCEPT ![s] = Append(@, t)]

\* A queued command is published at once as well.
PublishAlways(s) ==
    /\ send[s].pc = "publish"
    /\ Arrives(s, send[s].target)
    /\ Goto(s, "sent")
    /\ UNCHANGED <<live, plane, wakeups, controller, dedupe, decisions,
                   pending, taken, sendRecord, planeEvents>>

\* should_dispatch_control is false for a pending delivery.
Publish(s) ==
    /\ send[s].pc = "publish"
    /\ IF send[s].route = "QUEUE_PENDING" THEN UNCHANGED arrived
                                          ELSE Arrives(s, send[s].target)
    /\ Goto(s, "sent")
    /\ UNCHANGED <<live, plane, wakeups, controller, dedupe, decisions,
                   pending, taken, sendRecord, planeEvents>>
-----------------------------------------------------------------------------
(* WakeupController.run_once, one controller driven by the manager, which  *)
(* keeps the stream id it returns; and the gate.                           *)

Request == wakeups[controller.read + 1]
Decide(s, d, t) == decisions' = [decisions EXCEPT ![s] = Append(@, <<d, t>>)]

\* The request is read; a dedupe key already held answers QUEUED.
ControllerClaims ==
    /\ ~controller.calling
    /\ controller.read < Len(wakeups)
    /\ LET t == send[Request].target
       IN IF dedupe[t] = NoSend
          THEN /\ dedupe' = [dedupe EXCEPT ![t] = Request]
               /\ controller' = [controller EXCEPT !.calling = TRUE]
               /\ UNCHANGED decisions
          ELSE /\ Decide(Request, "QUEUED", t)
               /\ controller' = [controller EXCEPT !.read = @ + 1]
               /\ UNCHANGED dedupe
    /\ UNCHANGED <<live, plane, send, wakeups, pending, arrived, taken,
                   sendRecord, planeEvents>>

\* The provider answers, or raised max_attempts times (FAILED).  One that
\* says READY or STARTING has started a worker.
ControllerDecides ==
    /\ controller.calling
    /\ \E d \in Decision \ {"QUEUED"}, t \in AgentType :
          /\ d # "FALLBACK" => t = send[Request].target
          /\ Decide(Request, d, t)
          /\ live' = IF d \in {"READY", "STARTING"} THEN live \cup {t} ELSE live
    /\ controller' = [read |-> controller.read + 1, calling |-> FALSE]
    /\ UNCHANGED <<plane, send, wakeups, dedupe, pending, arrived, taken,
                   sendRecord, planeEvents>>

PlaneEvent ==
    /\ planeEvents < MaxPlaneEvents
    /\ planeEvents' = planeEvents + 1

\* The controller dies inside the provider call and is restarted with the
\* stream id of its last return.
ControllerCrashes ==
    /\ controller.calling
    /\ PlaneEvent
    /\ controller' = [controller EXCEPT !.calling = FALSE]
    /\ UNCHANGED <<live, plane, send, wakeups, dedupe, decisions, pending,
                   arrived, taken, sendRecord>>

DedupeExpires(t) ==
    /\ dedupe[t] # NoSend
    /\ dedupe' = [dedupe EXCEPT ![t] = NoSend]
    /\ UNCHANGED <<live, plane, send, wakeups, controller, decisions, pending,
                   arrived, taken, sendRecord, planeEvents>>

\* The manager calls dispatch_ready for an execution once, when a worker of
\* its agent type is up.  The entry carries the stream of the target at
\* queueing time and stays in the pending stream.
GateDispatches(s) ==
    /\ s \in pending
    /\ arrived[s] = <<>>
    /\ send[s].target \in live
    /\ Arrives(s, send[s].target)
    /\ UNCHANGED <<live, plane, send, wakeups, controller, dedupe, decisions,
                   pending, taken, sendRecord, planeEvents>>
-----------------------------------------------------------------------------
(* The workers and the control plane.                                      *)

\* Only a record that is new to the worker is set RUNNING.
WorkerTakesUnrecorded(s) ==
    /\ s \notin taken
    /\ \E t \in live : t \in {arrived[s][i] : i \in DOMAIN arrived[s]}
    /\ taken' = taken \cup {s}
    /\ sendRecord' = [sendRecord EXCEPT ![s] = IF @ = "none" THEN "RUNNING" ELSE @]
    /\ UNCHANGED <<live, plane, send, wakeups, controller, dedupe, decisions,
                   pending, arrived, planeEvents>>

\* A worker reads the command: a record is set RUNNING, a missing one saved.
\* A terminal one is not replayed, unless the command is a resume.
WorkerTakes(s) ==
    /\ s \notin taken
    /\ \E t \in live : t \in {arrived[s][i] : i \in DOMAIN arrived[s]}
    /\ taken' = taken \cup {s}
    /\ sendRecord' = [sendRecord EXCEPT
          ![s] = IF @ = "FAILED" /\ s \notin Resumes THEN @ ELSE "RUNNING"]
    /\ UNCHANGED <<live, plane, send, wakeups, controller, dedupe, decisions,
                   pending, arrived, planeEvents>>

WorkersChange(t) ==
    /\ PlaneEvent
    /\ live' = IF t \in live THEN live \ {t} ELSE live \cup {t}
    /\ UNCHANGED <<plane, send, wakeups, controller, dedupe, decisions,
                   pending, arrived, taken, sendRecord>>

PlaneChanges ==
    /\ PlaneEvent
    /\ \/ \E t \in AgentType : plane' = [plane EXCEPT !.open = @ \cup {t}]
       \/ plane' = [plane EXCEPT !.quotaSpent = ~@]
       \/ \E t, u \in AgentType :
             t # u /\ plane' = [plane EXCEPT !.fallback[t] = u]
    /\ UNCHANGED <<live, send, wakeups, controller, dedupe, decisions,
                   pending, arrived, taken, sendRecord>>
-----------------------------------------------------------------------------
SendStep(s) ==
    \/ SendBegins(s) \/ DirectRoute(s) \/ PolicyCheck(s) \/ ProbeOnline(s)
    \/ ResolveFallback(s) \/ RequestWakeup(s) \/ DecisionArrives(s)
    \/ RecheckOnline(s) \/ AwaitTimesOut(s) \/ EnqueuePending(s)
    \/ RefuseSend(s) \/ InitializeExecution(s) \/ Publish(s)

ControllerStep == ControllerClaims \/ ControllerDecides

DeliveryNext ==
    \/ \E s \in Send : SendStep(s) \/ GateDispatches(s) \/ WorkerTakes(s)
    \/ ControllerStep \/ ControllerCrashes \/ PlaneChanges
    \/ \E t \in AgentType : DedupeExpires(t) \/ WorkersChange(t)

DeliverySpec == DeliveryInit /\ [][DeliveryNext]_deliveryVars
-----------------------------------------------------------------------------
(* Properties.                                                             *)

\* A send that reports success has its command in exactly one place: on one
\* control stream, or in the pending stream until the gate moves it; a send
\* that reports failure has left it nowhere.  No command is on a control stream
\* twice, published and queued for the gate, whatever the controller and late
\* workers do (a gate that is called once for an execution).
SendAccounting ==
    \A s \in Send :
        /\ Len(arrived[s]) <= 1
        /\ send[s].pc = "sent" => arrived[s] # <<>> \/ s \in pending
        /\ send[s].pc = "refused" => arrived[s] = <<>> /\ s \notin pending

\* QUEUED means still waiting for its first pick-up (runner.py): the record is
\* written before the command is published, so a worker never runs a command
\* whose QUEUED record comes later.  Pending deliveries are excluded: their
\* command is in the pending stream before the record is written.
QueuedIsWaiting ==
    \A s \in Send :
        s \in taken /\ s \notin pending => sendRecord[s] # "QUEUED"

\* The comment above the resume lookup in send_message: initializing the
\* record of a resumed execution would "detach this resume from the execution
\* it's meant to continue".  A refused resume leaves its execution suspended.
RefusedResumeKeepsRecord ==
    \A s \in Resumes : send[s].pc = "refused" => sendRecord[s] = "SUSPENDED"
=============================================================================
