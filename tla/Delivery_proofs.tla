-------------------------- MODULE Delivery_proofs --------------------------
(***************************************************************************)
(* For every set of sends, agent types and policies: the variables of      *)
(* Delivery keep to their types (DeliveryTypeCorrect), and a command is    *)
(* where its sender was told it is and runs after its record is written    *)
(* (SendsAccounted, PickUpsAreRecorded).  At the end, the type of the      *)
(* composition the safety run checks (PartsTypeCorrect).                   *)
(***************************************************************************)
EXTENDS MCWorker, WorkerLease_proofs, ExecutionLedger_proofs, SequenceTheorems,
        TLAPS

-----------------------------------------------------------------------------
(* Positions of the sends.                                                 *)

SendPosition == [pc: SendPc, policy: RoutePolicies \cup {"FAIL_FAST"},
                 target: AgentType, route: RouteStatus]

\* One field of a position.
LEMMA PositionField ==
    ASSUME NEW r \in SendPosition
    PROVE  /\ \A pc \in SendPc : LET p == [r EXCEPT !.pc = pc]
                               IN  p \in SendPosition /\ p.pc = pc /\ p.route = r.route
           /\ \A route \in RouteStatus :
                  LET p == [r EXCEPT !.route = route]
                  IN  p \in SendPosition /\ p.pc = r.pc /\ p.route = route
           /\ \A t \in AgentType :
                  LET p == [r EXCEPT !.target = t]
                  IN  p \in SendPosition /\ p.pc = r.pc /\ p.route = r.route
           /\ \A policy \in RoutePolicies :
                  LET p == [r EXCEPT !.policy = policy]
                  IN  p \in SendPosition /\ p.pc = r.pc /\ p.route = r.route
BY SMT DEF SendPosition

\* A send that goes on to another step keeps its route, and the others stay.
LEMMA GotoMoves ==
    ASSUME NEW s \in Send, NEW pc \in SendPc, Goto(s, pc),
           send \in [Send -> SendPosition]
    PROVE  /\ send' \in [Send -> SendPosition]
           /\ send'[s].pc = pc /\ send'[s].route = send[s].route
           /\ \A r \in Send \ {s} : send'[r] = send[r]
<1> DEFINE p == [send[s] EXCEPT !.pc = pc]
<1>1. send[s] \in SendPosition
  OBVIOUS
<1>2. p \in SendPosition /\ p.pc = pc /\ p.route = send[s].route
  BY <1>1, SMT DEF SendPosition
<1>3. send' = [send EXCEPT ![s] = p]
  BY Zenon DEF Goto
<1> HIDE DEF p
<1> QED
  BY <1>2, <1>3, SMT

\* A routed send is initialized or, as a resume, published next.
LEMMA RoutedMoves ==
    ASSUME NEW s \in Send, NEW route \in RouteStatus, Routed(s, route),
           send \in [Send -> SendPosition]
    PROVE  /\ send' \in [Send -> SendPosition]
           /\ send'[s].pc \in {"init", "publish"} /\ send'[s].route = route
           /\ \A r \in Send \ {s} : send'[r] = send[r]
<1> DEFINE pc == IF s \in Resumes THEN "publish" ELSE "init"
           q == [send[s] EXCEPT !.route = route]
           p == [q EXCEPT !.pc = pc]
<1>1. send[s] \in SendPosition /\ pc \in {"init", "publish"}
  OBVIOUS
<1>2. send' = [send EXCEPT ![s] = p]
  BY Zenon DEF Routed
<1> HIDE DEF pc
<1>3. p \in SendPosition /\ p.pc = pc /\ p.route = route
  <2>1. pc \in SendPc
    BY <1>1 DEF SendPc
  <2>2. q \in SendPosition /\ q.route = route
    BY <1>1, PositionField, Zenon
  <2> HIDE DEF q
  <2> QED
    BY <2>1, <2>2, PositionField, Zenon
<1> HIDE DEF p
<1> QED
  BY <1>1, <1>2, <1>3, SMT

\* So is one that is rerouted.
LEMMA ReroutedMoves ==
    ASSUME NEW s \in Send, NEW t \in AgentType, Rerouted(s, t),
           send \in [Send -> SendPosition]
    PROVE  /\ send' \in [Send -> SendPosition]
           /\ send'[s].pc \in {"init", "publish"}
           /\ send'[s].route = "FALLBACK_TO_OTHER_AGENT_TYPE"
           /\ \A r \in Send \ {s} : send'[r] = send[r]
<1> DEFINE pc == IF s \in Resumes THEN "publish" ELSE "init"
           route == "FALLBACK_TO_OTHER_AGENT_TYPE"
           o == [send[s] EXCEPT !.route = route]
           q == [o EXCEPT !.target = t]
           p == [q EXCEPT !.pc = pc]
<1>1. send[s] \in SendPosition /\ pc \in {"init", "publish"}
  OBVIOUS
<1>2. send' = [send EXCEPT ![s] = p]
  BY Zenon DEF Rerouted
<1> HIDE DEF pc
<1>3. p \in SendPosition /\ p.pc = pc /\ p.route = route
  <2>1. pc \in SendPc /\ route \in RouteStatus
    BY <1>1 DEF SendPc, RouteStatus
  <2>2. o \in SendPosition /\ o.route = route
    BY <1>1, <2>1, PositionField, Zenon
  <2> HIDE DEF o
  <2>3. q \in SendPosition /\ q.route = route
    BY <2>2, PositionField, Zenon
  <2> HIDE DEF q
  <2> QED
    BY <2>1, <2>3, PositionField, Zenon
<1> HIDE DEF p
<1> QED
  BY <1>1, <1>2, <1>3, SMT

\* A command added to a control stream.
LEMMA ArrivesAppends ==
    ASSUME NEW s \in Send, NEW t \in AgentType, Arrives(s, t),
           arrived \in [Send -> Seq(AgentType)]
    PROVE  /\ arrived' \in [Send -> Seq(AgentType)]
           /\ Len(arrived'[s]) = Len(arrived[s]) + 1 /\ arrived'[s] # <<>>
           /\ \A r \in Send \ {s} : arrived'[r] = arrived[r]
<1> DEFINE q == Append(arrived[s], t)
<1>1. q \in Seq(AgentType) /\ Len(q) = Len(arrived[s]) + 1 /\ q # <<>>
  BY AppendProperties
<1>2. arrived' = [arrived EXCEPT ![s] = q]
  BY Zenon DEF Arrives
<1> HIDE DEF q
<1> QED
  BY <1>1, <1>2, SMT
-----------------------------------------------------------------------------
(* What the steps of the route do.                                         *)

\* The route is decided.
Placed == {"init", "publish", "sent"}

\* The steps of the router that write to nothing but the sender's position.
RouterStep(s) ==
    \/ SendBegins(s) \/ DirectRoute(s) \/ PolicyCheck(s) \/ ProbeOnline(s)
    \/ ResolveFallback(s) \/ DecisionArrives(s) \/ RecheckOnline(s)
    \/ AwaitTimesOut(s)

\* Such a step starts before the route is decided, and the route it may decide
\* on is not the one of a pending delivery.
LEMMA RouterMoves ==
    ASSUME DeliveryTypeOK, NEW s \in Send, RouterStep(s)
    PROVE  /\ Reads
           /\ send' \in [Send -> SendPosition]
           /\ \A r \in Send \ {s} : send'[r] = send[r]
           /\ send[s].pc \notin Placed
           /\ send'[s].pc \notin Placed \/ send'[s].route # "QUEUE_PENDING"
           /\ send'[s].pc # "sent"
<1>1. send \in [Send -> SendPosition] /\ send[s] \in SendPosition
  BY DEF DeliveryTypeOK, SendPosition
<1>2. ASSUME NEW pc \in SendPc \ Placed, Goto(s, pc)
      PROVE  /\ send' \in [Send -> SendPosition]
             /\ \A r \in Send \ {s} : send'[r] = send[r]
             /\ send'[s].pc \notin Placed /\ send'[s].pc # "sent"
  BY <1>1, <1>2, GotoMoves, Zenon DEF Placed
<1>3. ASSUME NEW route \in RouteStatus \ {"QUEUE_PENDING"}, Routed(s, route)
      PROVE  /\ send' \in [Send -> SendPosition]
             /\ \A r \in Send \ {s} : send'[r] = send[r]
             /\ send'[s].route # "QUEUE_PENDING" /\ send'[s].pc # "sent"
  BY <1>1, <1>3, RoutedMoves, SMT
<1>4. ASSUME NEW t \in AgentType, Rerouted(s, t)
      PROVE  /\ send' \in [Send -> SendPosition]
             /\ \A r \in Send \ {s} : send'[r] = send[r]
             /\ send'[s].route # "QUEUE_PENDING" /\ send'[s].pc # "sent"
  BY <1>1, <1>4, ReroutedMoves, SMT
<1> DEFINE Elsewhere == SendPc \ Placed
<1>5. /\ {"policy", "direct", "refused", "refuse", "probe", "fallback",
          "enqueue", "wake", "recheck"} \subseteq Elsewhere
      /\ {"DIRECT_WORKER", "DELIVER_NOW", "WAIT_AND_DELIVER"}
             \subseteq RouteStatus \ {"QUEUE_PENDING"}
  BY DEF SendPc, Placed, RouteStatus
<1> HIDE DEF Elsewhere
<1>6. CASE SendBegins(s)
  <2>1. PICK policy \in RoutePolicies, pc \in {"policy", "direct"} :
            send' = [send EXCEPT ![s].pc = pc, ![s].policy = policy]
    BY <1>6 DEF SendBegins
  <2> DEFINE q == [send[s] EXCEPT !.pc = pc]
             p == [q EXCEPT !.policy = policy]
  <2>2. q \in SendPosition /\ q.pc = pc
    <3>1. pc \in SendPc
      BY DEF SendPc
    <3> QED
      BY <1>1, <3>1, PositionField, Zenon
  <2>3. send' = [send EXCEPT ![s] = p]
    BY <2>1, Zenon
  <2> HIDE DEF q
  <2>4. p \in SendPosition /\ p.pc = pc
    BY <2>2, PositionField, Zenon
  <2> HIDE DEF p
  <2>5. /\ send' \in [Send -> SendPosition] /\ send'[s] = p
        /\ \A r \in Send \ {s} : send'[r] = send[r]
    BY <1>1, <2>3, <2>4, SMT
  <2>6. Reads /\ send[s].pc = "idle"
    BY <1>6 DEF SendBegins
  <2>7. pc \notin Placed /\ pc # "sent" /\ "idle" \notin Placed
    BY DEF Placed
  <2> QED
    BY <2>4, <2>5, <2>6, <2>7, Zenon
<1>7. CASE DirectRoute(s)
  <2>1. Routed(s, "DIRECT_WORKER") \/ Goto(s, "refused")
    BY <1>7 DEF DirectRoute
  <2> QED
    BY <1>2, <1>3, <1>5, <1>7, <2>1, Zenon DEF DirectRoute, Placed, Elsewhere
<1>8. CASE PolicyCheck(s)
  <2>1. Goto(s, "refuse") \/ Routed(s, "DELIVER_NOW") \/ Goto(s, "probe")
    BY <1>8 DEF PolicyCheck
  <2> QED
    BY <1>2, <1>3, <1>5, <1>8, <2>1, Zenon DEF PolicyCheck, Placed, Elsewhere
<1>9. CASE ProbeOnline(s)
  <2>1. Routed(s, "DELIVER_NOW") \/ Goto(s, "fallback")
    BY <1>9 DEF ProbeOnline
  <2> QED
    BY <1>2, <1>3, <1>5, <1>9, <2>1, Zenon DEF ProbeOnline, Placed, Elsewhere
<1>10. CASE ResolveFallback(s)
  <2>1. \/ \E t \in AgentType : Rerouted(s, t)
        \/ Goto(s, "refuse") \/ Goto(s, "enqueue") \/ Goto(s, "wake")
    BY <1>10, Zenon DEF ResolveFallback, DeliveryTypeOK
  <2> QED
    BY <1>2, <1>4, <1>5, <1>10, <2>1, Zenon
       DEF ResolveFallback, Placed, Elsewhere
<1>11. CASE DecisionArrives(s)
  <2>1. PICK i \in DOMAIN decisions[s] :
            LET d == decisions[s][i]
            IN CASE d[1] = "READY" -> Goto(s, "recheck")
                 [] d[1] = "FALLBACK" -> Rerouted(s, d[2])
                 [] OTHER -> Goto(s, "refuse")
    BY <1>11 DEF DecisionArrives
  <2>2. decisions[s][i] \in Decision \X AgentType
    BY <2>1 DEF DeliveryTypeOK
  <2>3. \/ \E t \in AgentType : Rerouted(s, t)
        \/ Goto(s, "refuse") \/ Goto(s, "recheck")
    BY <2>1, <2>2
  <2> QED
    BY <1>2, <1>4, <1>5, <1>11, <2>3, Zenon
       DEF DecisionArrives, Placed, Elsewhere
<1>12. CASE RecheckOnline(s)
  <2>1. Routed(s, "WAIT_AND_DELIVER") \/ Goto(s, "refuse")
    BY <1>12 DEF RecheckOnline
  <2> QED
    BY <1>2, <1>3, <1>5, <1>12, <2>1, Zenon DEF RecheckOnline, Placed, Elsewhere
<1>13. CASE AwaitTimesOut(s)
  BY <1>2, <1>5, <1>13, Zenon DEF AwaitTimesOut, Placed, Elsewhere
<1> QED
  BY <1>6, <1>7, <1>8, <1>9, <1>10, <1>11, <1>12, <1>13 DEF RouterStep
-----------------------------------------------------------------------------
(* Types.                                                                  *)

\* The variables a route step leaves alone.
LEMMA ReadsTyped ==
    ASSUME DeliveryTypeOK, Reads, send' \in [Send -> SendPosition]
    PROVE  DeliveryTypeOK'
BY Zenon DEF DeliveryTypeOK, Reads, SendPosition

\* A decision added to a sender's stream.
LEMMA DecideTyped ==
    ASSUME decisions \in [Send -> Seq(Decision \X AgentType)],
           NEW s \in Send, NEW d \in Decision, NEW t \in AgentType, Decide(s, d, t)
    PROVE  decisions' \in [Send -> Seq(Decision \X AgentType)]
<1> DEFINE q == Append(decisions[s], <<d, t>>)
<1>1. q \in Seq(Decision \X AgentType)
  BY AppendProperties
<1>2. decisions' = [decisions EXCEPT ![s] = q]
  BY Zenon DEF Decide
<1> HIDE DEF q
<1> QED
  BY <1>1, <1>2, SMT

\* The steps of a sender.
LEMMA SenderTyped ==
    ASSUME DeliveryTypeOK, NEW s \in Send, SendStep(s)
    PROVE  DeliveryTypeOK'
<1>1. send \in [Send -> SendPosition]
  BY DEF DeliveryTypeOK, SendPosition
<1>2. ASSUME NEW pc \in SendPc, Goto(s, pc)
      PROVE  send' \in [Send -> SendPosition]
  BY <1>1, <1>2, GotoMoves, Zenon
<1>3. CASE RouterStep(s)
  BY <1>3, RouterMoves, ReadsTyped, Zenon
<1>4. CASE RequestWakeup(s)
  <2>1. wakeups' \in Seq(Send)
    <3>1. wakeups' = Append(wakeups, s) /\ wakeups \in Seq(Send)
      BY <1>4 DEF RequestWakeup, DeliveryTypeOK
    <3> QED
      BY <3>1, AppendProperties
  <2>2. send' \in [Send -> SendPosition]
    <3>1. Goto(s, "await") \/ Goto(s, "enqueue")
      BY <1>4 DEF RequestWakeup
    <3> QED
      BY <1>2, <3>1, Zenon DEF SendPc
  <2> QED
    BY <1>4, <2>1, <2>2, Zenon DEF RequestWakeup, DeliveryTypeOK, SendPosition
<1>5. CASE EnqueuePending(s)
  <2>1. send' \in [Send -> SendPosition]
    <3>1. "QUEUE_PENDING" \in RouteStatus
      BY DEF RouteStatus
    <3> QED
      BY <1>1, <1>5, <3>1, RoutedMoves, Zenon DEF EnqueuePending
  <2>2. pending' \subseteq Send
    BY <1>5, Zenon DEF EnqueuePending, DeliveryTypeOK
  <2> QED
    BY <1>5, <2>1, <2>2, Zenon DEF EnqueuePending, DeliveryTypeOK, SendPosition
<1>6. CASE RefuseSend(s) \/ InitializeExecution(s)
  <2>1. Goto(s, "refused") \/ Goto(s, "publish")
    BY <1>6 DEF RefuseSend, InitializeExecution
  <2>2. send' \in [Send -> SendPosition]
    BY <1>2, <2>1, Zenon DEF SendPc
  <2>3. \E r \in {"QUEUED", "FAILED"} : sendRecord' = [sendRecord EXCEPT ![s] = r]
    BY <1>6 DEF RefuseSend, InitializeExecution
  <2>4. sendRecord' \in [Send -> {"none", "QUEUED", "RUNNING", "SUSPENDED", "FAILED"}]
    BY <2>3, SMT DEF DeliveryTypeOK
  <2>5. UNCHANGED <<live, plane, wakeups, controller, dedupe, decisions,
                    pending, arrived, taken, planeEvents>>
    BY <1>6 DEF RefuseSend, InitializeExecution
  <2> QED
    BY <2>2, <2>4, <2>5, Zenon DEF DeliveryTypeOK, SendPosition
<1>7. CASE Publish(s)
  <2>1. send' \in [Send -> SendPosition]
    BY <1>2, <1>7, Zenon DEF Publish, SendPc
  <2>2. send[s].target \in AgentType
    BY <1>1 DEF SendPosition
  <2>3. arrived' = arrived \/ Arrives(s, send[s].target)
    BY <1>7 DEF Publish
  <2>4. arrived' \in [Send -> Seq(AgentType)]
    BY <2>2, <2>3, ArrivesAppends, Zenon DEF DeliveryTypeOK
  <2> QED
    BY <1>7, <2>1, <2>4, Zenon DEF Publish, DeliveryTypeOK, SendPosition
<1> QED
  BY <1>3, <1>4, <1>5, <1>6, <1>7 DEF SendStep, RouterStep

\* The controller calls the provider for a request it has read.
CallingReads == controller.calling => controller.read < Len(wakeups)

\* The steps of the controller.
LEMMA ControllerTyped ==
    ASSUME DeliveryTypeOK, CallingReads, ControllerStep \/ ControllerCrashes
    PROVE  DeliveryTypeOK' /\ CallingReads'
<1>1. controller \in [read: Nat, calling: BOOLEAN]
  BY DEF DeliveryTypeOK
<1>2. ASSUME controller.read < Len(wakeups)
      PROVE  Request \in Send /\ send[Request].target \in AgentType
  <2>1. controller.read + 1 \in 1..Len(wakeups)
    BY <1>1, <1>2, SMT DEF DeliveryTypeOK
  <2>2. Request \in Send
    BY <2>1, ElementOfSeq DEF Request, DeliveryTypeOK
  <2> QED
    BY <2>2 DEF DeliveryTypeOK
<1>3. CASE ControllerClaims
  <2> DEFINE t == send[Request].target
  <2>1. Request \in Send /\ t \in AgentType
    BY <1>2, <1>3 DEF ControllerClaims
  <2>2. UNCHANGED <<live, plane, send, wakeups, pending, arrived, taken,
                    sendRecord, planeEvents>>
    BY <1>3 DEF ControllerClaims
  <2>3. CASE dedupe[t] = NoSend
    <3>1. /\ dedupe' = [dedupe EXCEPT ![t] = Request]
          /\ controller' = [controller EXCEPT !.calling = TRUE]
          /\ decisions' = decisions
      BY <1>3, <2>3 DEF ControllerClaims
    <3>2. dedupe' \in [AgentType -> Send \cup {NoSend}]
      BY <2>1, <3>1 DEF DeliveryTypeOK
    <3>3. controller' \in [read: Nat, calling: BOOLEAN] /\ controller'.read = controller.read
      BY <1>1, <3>1
    <3> QED
      BY <1>3, <2>2, <3>1, <3>2, <3>3, Zenon
         DEF DeliveryTypeOK, CallingReads, ControllerClaims
  <2>4. CASE dedupe[t] # NoSend
    <3>1. /\ Decide(Request, "QUEUED", t) /\ dedupe' = dedupe
          /\ controller' = [controller EXCEPT !.read = @ + 1]
      BY <1>3, <2>4 DEF ControllerClaims
    <3>2. controller' \in [read: Nat, calling: BOOLEAN]
          /\ controller'.calling = controller.calling
      BY <1>1, <3>1
    <3>3. "QUEUED" \in Decision
      BY DEF Decision
    <3>4. decisions' \in [Send -> Seq(Decision \X AgentType)]
      BY <2>1, <3>1, <3>3, DecideTyped, Zenon DEF DeliveryTypeOK
    <3> QED
      BY <1>3, <2>2, <3>1, <3>2, <3>4, Zenon
         DEF DeliveryTypeOK, CallingReads, ControllerClaims
  <2> QED
    BY <2>3, <2>4
<1>4. CASE ControllerDecides
  <2>1. PICK d \in Decision \ {"QUEUED"}, t \in AgentType :
            /\ Decide(Request, d, t)
            /\ live' = IF d \in {"READY", "STARTING"} THEN live \cup {t} ELSE live
    BY <1>4, Zenon DEF ControllerDecides
  <2>2. Request \in Send
    BY <1>2, <1>4 DEF ControllerDecides, CallingReads
  <2>3. decisions' \in [Send -> Seq(Decision \X AgentType)]
    BY <2>1, <2>2, DecideTyped, Zenon DEF DeliveryTypeOK
  <2>4. live' \subseteq AgentType
    BY <2>1 DEF DeliveryTypeOK
  <2>5. controller' \in [read: Nat, calling: BOOLEAN] /\ ~controller'.calling
    BY <1>1, <1>4 DEF ControllerDecides
  <2> QED
    BY <1>4, <2>3, <2>4, <2>5, Zenon
       DEF DeliveryTypeOK, CallingReads, ControllerDecides
<1>5. CASE ControllerCrashes
  <2>1. controller' \in [read: Nat, calling: BOOLEAN] /\ ~controller'.calling
    BY <1>1, <1>5 DEF ControllerCrashes
  <2>2. planeEvents' \in 0..MaxPlaneEvents
    BY <1>5, DeliveryAssumption, SMT DEF ControllerCrashes, PlaneEvent, DeliveryTypeOK
  <2> QED
    BY <1>5, <2>1, <2>2, Zenon DEF DeliveryTypeOK, CallingReads, ControllerCrashes
<1> QED
  BY <1>3, <1>4, <1>5 DEF ControllerStep

PlaneKeys == [open: SUBSET AgentType, quotaSpent: BOOLEAN,
              fallback: [AgentType -> AgentType \cup {NoType}]]

\* One of the control-plane keys.
LEMMA PlaneField ==
    ASSUME NEW r \in PlaneKeys
    PROVE  /\ \A o \in SUBSET AgentType : [r EXCEPT !.open = o] \in PlaneKeys
           /\ \A q \in BOOLEAN : [r EXCEPT !.quotaSpent = q] \in PlaneKeys
           /\ \A f \in [AgentType -> AgentType \cup {NoType}] :
                  [r EXCEPT !.fallback = f] \in PlaneKeys
BY DEF PlaneKeys

\* The gate, the workers and the control plane.
LEMMA OthersTyped ==
    ASSUME DeliveryTypeOK,
           \/ \E s \in Send : GateDispatches(s) \/ WorkerTakes(s)
           \/ PlaneChanges
           \/ \E t \in AgentType : DedupeExpires(t) \/ WorkersChange(t)
    PROVE  DeliveryTypeOK'
<1>1. ASSUME PlaneEvent PROVE planeEvents' \in 0..MaxPlaneEvents
  BY <1>1, DeliveryAssumption, SMT DEF PlaneEvent, DeliveryTypeOK
<1>2. ASSUME NEW s \in Send, GateDispatches(s) PROVE DeliveryTypeOK'
  <2>1. send[s].target \in AgentType
    BY DEF DeliveryTypeOK
  <2>2. arrived' \in [Send -> Seq(AgentType)]
    BY <1>2, <2>1, ArrivesAppends, Zenon DEF GateDispatches, DeliveryTypeOK
  <2> QED
    BY <1>2, <2>2, Zenon DEF GateDispatches, DeliveryTypeOK
<1>3. ASSUME NEW s \in Send, WorkerTakes(s) PROVE DeliveryTypeOK'
  <2> DEFINE r == IF sendRecord[s] = "FAILED" /\ s \notin Resumes
                  THEN sendRecord[s] ELSE "RUNNING"
  <2>1. sendRecord' = [sendRecord EXCEPT ![s] = r] /\ r \in {"FAILED", "RUNNING"}
    BY <1>3, Zenon DEF WorkerTakes
  <2> HIDE DEF r
  <2>2. sendRecord' \in [Send -> {"none", "QUEUED", "RUNNING", "SUSPENDED", "FAILED"}]
    BY <2>1, SMT DEF DeliveryTypeOK
  <2>3. taken' \subseteq Send
    BY <1>3, Zenon DEF WorkerTakes, DeliveryTypeOK
  <2> QED
    BY <1>3, <2>2, <2>3, Zenon DEF WorkerTakes, DeliveryTypeOK
<1>4. CASE PlaneChanges
  <2>1. plane' \in [open: SUBSET AgentType, quotaSpent: BOOLEAN,
                    fallback: [AgentType -> AgentType \cup {NoType}]]
    <3>1. plane \in PlaneKeys
      BY DEF DeliveryTypeOK, PlaneKeys
    <3>2. CASE \E t \in AgentType : plane' = [plane EXCEPT !.open = @ \cup {t}]
      <4>1. PICK t \in AgentType : plane' = [plane EXCEPT !.open = @ \cup {t}]
        BY <3>2
      <4> DEFINE o == plane.open \cup {t}
      <4>2. o \in SUBSET AgentType /\ plane' = [plane EXCEPT !.open = o]
        BY <3>1, <4>1 DEF PlaneKeys
      <4> HIDE DEF o
      <4> QED
        BY <3>1, <4>2, PlaneField, Zenon DEF PlaneKeys
    <3>3. CASE plane' = [plane EXCEPT !.quotaSpent = ~@]
      <4> DEFINE q == ~plane.quotaSpent
      <4>1. q \in BOOLEAN
        OBVIOUS
      <4>2. plane' = [plane EXCEPT !.quotaSpent = q]
        BY <3>3
      <4> HIDE DEF q
      <4> QED
        BY <3>1, <4>1, <4>2, PlaneField, Zenon DEF PlaneKeys
    <3>4. CASE \E t, u \in AgentType : plane' = [plane EXCEPT !.fallback[t] = u]
      <4>1. PICK t \in AgentType, u \in AgentType :
                plane' = [plane EXCEPT !.fallback[t] = u]
        BY <3>4
      <4> DEFINE f == [plane.fallback EXCEPT ![t] = u]
      <4>2. f \in [AgentType -> AgentType \cup {NoType}]
        BY <3>1 DEF PlaneKeys
      <4>3. plane' = [plane EXCEPT !.fallback = f]
        BY <4>1, Zenon
      <4> HIDE DEF f
      <4> QED
        BY <3>1, <4>2, <4>3, PlaneField, Zenon DEF PlaneKeys
    <3> QED
      BY <1>4, <3>2, <3>3, <3>4, Zenon DEF PlaneChanges
  <2> QED
    BY <1>1, <1>4, <2>1, Zenon DEF PlaneChanges, DeliveryTypeOK
<1>5. ASSUME NEW t \in AgentType, DedupeExpires(t) PROVE DeliveryTypeOK'
  <2>1. dedupe' \in [AgentType -> Send \cup {NoSend}]
    BY <1>5 DEF DedupeExpires, DeliveryTypeOK
  <2> QED
    BY <1>5, <2>1, Zenon DEF DedupeExpires, DeliveryTypeOK
<1>6. ASSUME NEW t \in AgentType, WorkersChange(t) PROVE DeliveryTypeOK'
  <2>1. live' \subseteq AgentType
    BY <1>6 DEF WorkersChange, DeliveryTypeOK
  <2> QED
    BY <1>1, <1>6, <2>1, Zenon DEF WorkersChange, DeliveryTypeOK
<1> QED
  BY <1>2, <1>3, <1>4, <1>5, <1>6

\* The initial states.
LEMMA DeliveryInitTyped == DeliveryInit => DeliveryTypeOK /\ CallingReads
<1> SUFFICES ASSUME DeliveryInit PROVE DeliveryTypeOK /\ CallingReads
  OBVIOUS
<1>1. \A S : <<>> \in Seq(S)
  BY EmptySeq
<1>2. /\ wakeups \in Seq(Send) /\ decisions \in [Send -> Seq(Decision \X AgentType)]
      /\ arrived \in [Send -> Seq(AgentType)]
  BY <1>1, Zenon DEF DeliveryInit
<1>3. send \in [Send -> SendPosition]
  <2>1. "idle" \in SendPc /\ "" \in RouteStatus
    BY DEF SendPc, RouteStatus
  <2>2. \A s \in Send : TargetOf[s] \in AgentType
    BY DeliveryAssumption
  <2> QED
    BY <2>1, <2>2, Zenon DEF DeliveryInit, SendPosition
<1>4. plane \in PlaneKeys
  <2> DEFINE f == [t \in AgentType |-> NoType]
  <2>1. {} \in SUBSET AgentType /\ FALSE \in BOOLEAN
    OBVIOUS
  <2>2. f \in [AgentType -> AgentType \cup {NoType}]
    OBVIOUS
  <2> HIDE DEF f
  <2>3. plane = [open |-> {}, quotaSpent |-> FALSE, fallback |-> f]
    BY Zenon DEF DeliveryInit, f
  <2> QED
    BY <2>1, <2>2, <2>3, SMT DEF PlaneKeys
<1>5. /\ controller \in [read: Nat, calling: BOOLEAN]
      /\ dedupe \in [AgentType -> Send \cup {NoSend}]
      /\ sendRecord \in [Send -> {"none", "QUEUED", "RUNNING", "SUSPENDED", "FAILED"}]
  BY DEF DeliveryInit
<1>6. planeEvents \in 0..MaxPlaneEvents
  <2>1. MaxPlaneEvents \in Nat
    BY DeliveryAssumption, Zenon
  <2>2. planeEvents = 0
    BY DEF DeliveryInit
  <2> QED
    BY <2>1, <2>2, SMT
<1>7. /\ live \subseteq AgentType /\ pending \subseteq Send /\ taken \subseteq Send
      /\ CallingReads
  BY DEF DeliveryInit, CallingReads
<1> QED
  BY <1>2, <1>3, <1>4, <1>5, <1>6, <1>7, Zenon
     DEF DeliveryTypeOK, SendPosition, PlaneKeys

\* Every step.
LEMMA DeliveryStepTyped ==
    DeliveryTypeOK /\ CallingReads /\ [DeliveryNext]_deliveryVars
        => DeliveryTypeOK' /\ CallingReads'
<1> SUFFICES ASSUME DeliveryTypeOK, CallingReads, [DeliveryNext]_deliveryVars
             PROVE  DeliveryTypeOK' /\ CallingReads'
  OBVIOUS
<1>1. ASSUME UNCHANGED <<wakeups, controller>> PROVE CallingReads'
  BY <1>1 DEF CallingReads
<1>2. ASSUME NEW s \in Send, SendStep(s) PROVE DeliveryTypeOK' /\ CallingReads'
  <2>1. CASE RequestWakeup(s)
    <3>1. wakeups' = Append(wakeups, s) /\ controller' = controller
      BY <2>1 DEF RequestWakeup
    <3>2. Len(wakeups') = Len(wakeups) + 1 /\ Len(wakeups) \in Nat
      BY <3>1, AppendProperties DEF DeliveryTypeOK
    <3>3. controller.read \in Nat
      BY DEF DeliveryTypeOK
    <3>4. CallingReads'
      BY <3>1, <3>2, <3>3, SMT DEF CallingReads
    <3> QED
      BY <1>2, <3>4, SenderTyped
  <2>2. CASE ~RequestWakeup(s)
    <3>1. UNCHANGED <<wakeups, controller>>
      BY <1>2, <2>2, RouterMoves, Zenon
         DEF SendStep, RouterStep, Reads, EnqueuePending, RefuseSend,
             InitializeExecution, Publish
    <3> QED
      BY <1>1, <1>2, <3>1, SenderTyped
  <2> QED
    BY <2>1, <2>2
<1>3. CASE ControllerStep \/ ControllerCrashes
  BY <1>3, ControllerTyped
<1>4. CASE \/ \E s \in Send : GateDispatches(s) \/ WorkerTakes(s)
           \/ PlaneChanges
           \/ \E t \in AgentType : DedupeExpires(t) \/ WorkersChange(t)
  <2>1. UNCHANGED <<wakeups, controller>>
    BY <1>4, Zenon DEF GateDispatches, WorkerTakes, PlaneChanges, DedupeExpires,
                       WorkersChange
  <2> QED
    BY <1>1, <1>4, <2>1, OthersTyped
<1>5. CASE UNCHANGED deliveryVars
  BY <1>1, <1>5, Zenon DEF deliveryVars, DeliveryTypeOK
<1> QED
  BY <1>2, <1>3, <1>4, <1>5, Zenon DEF DeliveryNext

\* Every reachable state of sending, waking and dispatching is well typed
\* (client.py, availability.py, wakeup_controller.py, delivery_gate.py).
THEOREM DeliveryTypeCorrect == DeliverySpec => []DeliveryTypeOK
<1>1. DeliverySpec => [](DeliveryTypeOK /\ CallingReads)
  BY DeliveryInitTyped, DeliveryStepTyped, PTL DEF DeliverySpec
<1> QED
  BY <1>1, PTL
-----------------------------------------------------------------------------
(* Where a command is.                                                     *)

\* By send.  Nothing is published or queued before the route is decided; the
\* pending stream holds the commands routed there; the others are published
\* once, by their last step; and a worker takes what was published or was
\* handed out by the gate, after the record was written unless it was queued.
CommandPlaced(s) ==
    /\ Len(arrived[s]) <= 1
    /\ send[s].pc \notin Placed => arrived[s] = <<>> /\ s \notin pending
    /\ send[s].pc \in Placed => (s \in pending <=> send[s].route = "QUEUE_PENDING")
    /\ s \notin pending => (arrived[s] # <<>> <=> send[s].pc = "sent")
    /\ s \in taken => arrived[s] # <<>>
    /\ s \in taken /\ s \notin pending => sendRecord[s] # "QUEUED"

AllPlaced == \A s \in Send : CommandPlaced(s)

LEMMA PlacedInit == DeliveryInit => AllPlaced
<1> SUFFICES ASSUME DeliveryInit, NEW s \in Send PROVE CommandPlaced(s)
  BY DEF AllPlaced
<1>1. arrived[s] = <<>> /\ send[s].pc = "idle" /\ s \notin pending /\ s \notin taken
  BY DEF DeliveryInit
<1>2. Len(arrived[s]) <= 1
  BY <1>1, EmptySeq, SMT
<1> QED
  BY <1>1, <1>2 DEF CommandPlaced, Placed

\* The commands of the other sends stay where they are.
LEMMA OtherPlaced ==
    ASSUME AllPlaced, NEW s \in Send, NEW r \in Send \ {s},
           send'[r] = send[r], arrived'[r] = arrived[r],
           sendRecord'[r] = sendRecord[r],
           r \in pending' <=> r \in pending, r \in taken' <=> r \in taken
    PROVE  CommandPlaced(r)'
BY Zenon DEF AllPlaced, CommandPlaced

\* The steps of a sender.
LEMMA SenderPlaces ==
    ASSUME DeliveryTypeOK, AllPlaced, NEW s \in Send, SendStep(s)
    PROVE  AllPlaced'
<1>1. send \in [Send -> SendPosition] /\ CommandPlaced(s)
  BY DEF DeliveryTypeOK, SendPosition, AllPlaced
<1>2. ASSUME NEW pc \in SendPc, Goto(s, pc)
      PROVE  /\ send'[s].pc = pc /\ send'[s].route = send[s].route
             /\ \A r \in Send \ {s} : send'[r] = send[r]
  BY <1>1, <1>2, GotoMoves, Zenon
<1>3. CASE RouterStep(s)
  <2>1. /\ Reads /\ send[s].pc \notin Placed /\ send'[s].pc # "sent"
        /\ send'[s].pc \notin Placed \/ send'[s].route # "QUEUE_PENDING"
        /\ \A r \in Send \ {s} : send'[r] = send[r]
    BY <1>3, RouterMoves
  <2>2. CommandPlaced(s)'
    BY <1>1, <2>1, Zenon DEF CommandPlaced, Reads
  <2>3. \A r \in Send \ {s} : CommandPlaced(r)'
    BY <2>1, OtherPlaced, Zenon DEF Reads
  <2> QED
    BY <2>2, <2>3, Zenon DEF AllPlaced
<1>4. CASE RequestWakeup(s)
  <2>1. /\ send[s].pc = "wake" /\ UNCHANGED <<pending, arrived, taken, sendRecord>>
        /\ Goto(s, "await") \/ Goto(s, "enqueue")
    BY <1>4 DEF RequestWakeup
  <2>2. /\ send'[s].pc \in {"await", "enqueue"}
        /\ \A r \in Send \ {s} : send'[r] = send[r]
    BY <1>2, <2>1 DEF SendPc
  <2>3. CommandPlaced(s)'
    BY <1>1, <2>1, <2>2 DEF CommandPlaced, Placed
  <2>4. \A r \in Send \ {s} : CommandPlaced(r)'
    BY <2>1, <2>2, OtherPlaced, Zenon
  <2> QED
    BY <2>3, <2>4, Zenon DEF AllPlaced
<1>5. CASE EnqueuePending(s)
  <2>1. /\ send[s].pc = "enqueue" /\ UNCHANGED <<arrived, taken, sendRecord>>
        /\ pending' = pending \cup {s} /\ Routed(s, "QUEUE_PENDING")
    BY <1>5 DEF EnqueuePending
  <2>2. /\ send'[s].pc \in {"init", "publish"} /\ send'[s].route = "QUEUE_PENDING"
        /\ \A r \in Send \ {s} : send'[r] = send[r]
    BY <1>1, <2>1, RoutedMoves DEF RouteStatus
  <2>3. CommandPlaced(s)'
    BY <1>1, <2>1, <2>2 DEF CommandPlaced, Placed
  <2>4. \A r \in Send \ {s} : CommandPlaced(r)'
    BY <2>1, <2>2, OtherPlaced, Zenon
  <2> QED
    BY <2>3, <2>4, Zenon DEF AllPlaced
<1>6. CASE RefuseSend(s) \/ InitializeExecution(s)
  <2>1. /\ UNCHANGED <<pending, arrived, taken>>
        /\ \/ send[s].pc = "refuse" /\ Goto(s, "refused")
           \/ send[s].pc = "init" /\ Goto(s, "publish")
        /\ \E r \in {"QUEUED", "FAILED"} : sendRecord' = [sendRecord EXCEPT ![s] = r]
    BY <1>6 DEF RefuseSend, InitializeExecution
  <2>2. /\ send'[s].route = send[s].route
        /\ \/ send[s].pc = "refuse" /\ send'[s].pc = "refused"
           \/ send[s].pc = "init" /\ send'[s].pc = "publish"
        /\ \A r \in Send \ {s} : send'[r] = send[r]
    BY <1>2, <2>1 DEF SendPc
  <2>3. s \in taken => s \in pending
    BY <1>1, <2>2, Zenon DEF CommandPlaced, Placed
  <2>4. CommandPlaced(s)'
    BY <1>1, <2>1, <2>2, <2>3 DEF CommandPlaced, Placed
  <2>5. \A r \in Send \ {s} : CommandPlaced(r)'
    <3>1. \A r \in Send \ {s} : sendRecord'[r] = sendRecord[r]
      BY <2>1 DEF DeliveryTypeOK
    <3> QED
      BY <2>1, <2>2, <3>1, OtherPlaced, Zenon
  <2> QED
    BY <2>4, <2>5, Zenon DEF AllPlaced
<1>7. CASE Publish(s)
  <2>1. send[s].pc = "publish" /\ UNCHANGED <<pending, taken, sendRecord>>
    BY <1>7 DEF Publish
  <2>2. /\ send'[s].pc = "sent" /\ send'[s].route = send[s].route
        /\ \A r \in Send \ {s} : send'[r] = send[r]
    BY <1>2, <1>7 DEF Publish, SendPc
  <2>3. CASE send[s].route = "QUEUE_PENDING"
    <3>1. arrived' = arrived
      BY <1>7, <2>3 DEF Publish
    <3>2. CommandPlaced(s)'
      BY <1>1, <2>1, <2>2, <2>3, <3>1, Zenon DEF CommandPlaced, Placed
    <3> QED
      BY <2>1, <2>2, <3>1, <3>2, OtherPlaced, Zenon DEF AllPlaced
  <2>4. CASE send[s].route # "QUEUE_PENDING"
    <3>1. /\ Len(arrived'[s]) = Len(arrived[s]) + 1 /\ arrived'[s] # <<>>
          /\ \A r \in Send \ {s} : arrived'[r] = arrived[r]
      BY <1>1, <1>7, <2>4, ArrivesAppends DEF Publish, DeliveryTypeOK, SendPosition
    <3>2. arrived[s] = <<>> /\ s \notin pending
      BY <1>1, <2>1, <2>4, Zenon DEF CommandPlaced, Placed
    <3>3. Len(arrived'[s]) <= 1
      BY <3>1, <3>2, EmptySeq, SMT
    <3>4. CommandPlaced(s)'
      BY <1>1, <2>1, <2>2, <2>4, <3>1, <3>2, <3>3, Zenon DEF CommandPlaced, Placed
    <3>5. \A r \in Send \ {s} : CommandPlaced(r)'
      BY <2>1, <2>2, <3>1, OtherPlaced, Zenon
    <3> QED
      BY <3>4, <3>5, Zenon DEF AllPlaced
  <2> QED
    BY <2>3, <2>4
<1> QED
  BY <1>3, <1>4, <1>5, <1>6, <1>7 DEF SendStep, RouterStep

\* The gate hands out a pending command that is nowhere else.
LEMMA GatePlaces ==
    ASSUME DeliveryTypeOK, AllPlaced, NEW s \in Send, GateDispatches(s)
    PROVE  AllPlaced'
<1>1. /\ s \in pending /\ arrived[s] = <<>> /\ Arrives(s, send[s].target)
      /\ UNCHANGED <<send, pending, taken, sendRecord>>
  BY DEF GateDispatches
<1>2. /\ Len(arrived'[s]) = Len(arrived[s]) + 1 /\ arrived'[s] # <<>>
      /\ \A r \in Send \ {s} : arrived'[r] = arrived[r]
  BY <1>1, ArrivesAppends DEF DeliveryTypeOK
<1>3. Len(arrived'[s]) <= 1
  BY <1>1, <1>2, EmptySeq, SMT
<1>4. CommandPlaced(s)'
  BY <1>1, <1>2, <1>3, Zenon DEF AllPlaced, CommandPlaced
<1>5. \A r \in Send \ {s} : CommandPlaced(r)'
  BY <1>1, <1>2, OtherPlaced, Zenon
<1> QED
  BY <1>4, <1>5, Zenon DEF AllPlaced

\* A worker takes a command that is on a control stream, and its record is
\* QUEUED no more.
LEMMA WorkerPlaces ==
    ASSUME DeliveryTypeOK, AllPlaced, NEW s \in Send, WorkerTakes(s)
    PROVE  AllPlaced'
<1>1. UNCHANGED <<send, pending, arrived>> /\ taken' = taken \cup {s}
  BY DEF WorkerTakes
<1>2. arrived[s] # <<>>
  <2>1. DOMAIN arrived[s] # {}
    BY DEF WorkerTakes
  <2>2. DOMAIN <<>> = {}
    BY EmptySeq, SMT
  <2> QED
    BY <2>1, <2>2
<1>3. sendRecord'[s] # "QUEUED" /\ \A r \in Send \ {s} : sendRecord'[r] = sendRecord[r]
  BY DEF WorkerTakes, DeliveryTypeOK
<1>4. CommandPlaced(s)'
  BY <1>1, <1>2, <1>3, Zenon DEF AllPlaced, CommandPlaced
<1>5. \A r \in Send \ {s} : CommandPlaced(r)'
  BY <1>1, <1>3, OtherPlaced, Zenon
<1> QED
  BY <1>4, <1>5, Zenon DEF AllPlaced

\* Every step.
LEMMA PlacedKept ==
    DeliveryTypeOK /\ AllPlaced /\ [DeliveryNext]_deliveryVars => AllPlaced'
<1> SUFFICES ASSUME DeliveryTypeOK, AllPlaced, [DeliveryNext]_deliveryVars
             PROVE  AllPlaced'
  OBVIOUS
<1>1. CASE \E s \in Send : SendStep(s) \/ GateDispatches(s) \/ WorkerTakes(s)
  BY <1>1, SenderPlaces, GatePlaces, WorkerPlaces
<1>2. CASE UNCHANGED <<send, pending, arrived, taken, sendRecord>>
  BY <1>2, Zenon DEF AllPlaced, CommandPlaced
<1>3. ASSUME \/ ControllerStep \/ ControllerCrashes \/ PlaneChanges
             \/ \E t \in AgentType : DedupeExpires(t) \/ WorkersChange(t)
             \/ UNCHANGED deliveryVars
      PROVE  UNCHANGED <<send, pending, arrived, taken, sendRecord>>
  BY <1>3, Zenon DEF ControllerStep, ControllerClaims, ControllerDecides,
       ControllerCrashes, PlaneChanges, DedupeExpires, WorkersChange, deliveryVars
<1> QED
  BY <1>1, <1>2, <1>3 DEF DeliveryNext

LEMMA AlwaysPlaced == DeliverySpec => []AllPlaced
<1>1. DeliverySpec => []DeliveryTypeOK
  BY DeliveryTypeCorrect
<1> QED
  BY <1>1, PlacedInit, PlacedKept, PTL DEF DeliverySpec

\* Whatever the wakeup controller, the gate, the workers and the control plane
\* do, a send that reports success has its command in exactly one place, and a
\* refused one has left it nowhere (client.py, _dispatch_pending_delivery).
THEOREM SendsAccounted == DeliverySpec => []SendAccounting
<1>1. AllPlaced => SendAccounting
  <2> SUFFICES ASSUME AllPlaced, NEW s \in Send
               PROVE  /\ Len(arrived[s]) <= 1
                      /\ send[s].pc = "sent" => arrived[s] # <<>> \/ s \in pending
                      /\ send[s].pc = "refused" => arrived[s] = <<>> /\ s \notin pending
    BY DEF SendAccounting
  <2>1. "refused" \notin Placed
    BY DEF Placed
  <2> QED
    BY <2>1, Zenon DEF AllPlaced, CommandPlaced
<1> QED
  BY <1>1, AlwaysPlaced, PTL

\* A command that a worker has picked up is not recorded as waiting for its
\* first pick-up, unless the gate handed it out (runner.py, register_execution).
THEOREM PickUpsAreRecorded == DeliverySpec => []QueuedIsWaiting
<1>1. AllPlaced => QueuedIsWaiting
  BY Zenon DEF AllPlaced, CommandPlaced, QueuedIsWaiting
<1> QED
  BY <1>1, AlwaysPlaced, PTL

-----------------------------------------------------------------------------
(* The parts in one: MCWorker.                                             *)

\* The part that moves keeps its invariant; the others stand still.
PartsOK ==
    /\ part = "lease" => LeaseTypeOK
    /\ part = "ledger" => LedgerOK
    /\ part = "delivery" => DeliveryTypeOK /\ CallingReads

LEMMA PartsStart == PartsInit => PartsOK
BY LeaseInitTyped, LedgerInitOK, DeliveryInitTyped DEF PartsInit, PartsOK

LEMMA PartsStep ==
    PartsOK /\ [PartsNext]_<<part, leaseVars, ledgerVars, deliveryVars>> => PartsOK'
<1> SUFFICES ASSUME PartsOK, [PartsNext]_<<part, leaseVars, ledgerVars, deliveryVars>>
             PROVE  PartsOK'
  OBVIOUS
<1>1. /\ part = "lease" => [LeaseNext]_leaseVars
      /\ part = "ledger" => [LedgerNext]_ledgerVars
      /\ part = "delivery" => [DeliveryNext]_deliveryVars
      /\ part' = part
  BY DEF PartsNext, InPart
<1>2. /\ LeaseTypeOK /\ [LeaseNext]_leaseVars => LeaseTypeOK'
      /\ LedgerOK /\ [LedgerNext]_ledgerVars => LedgerOK'
      /\ DeliveryTypeOK /\ CallingReads /\ [DeliveryNext]_deliveryVars
            => DeliveryTypeOK' /\ CallingReads'
  BY LeaseStepTyped, LedgerStepOK, DeliveryStepTyped
<1> QED
  BY <1>1, <1>2 DEF PartsOK

\* Whichever of the three moves, its variables keep to their types: a lease is
\* held with an expiry, a record has one status (registry.py, SET NX EX).
THEOREM PartsTypeCorrect ==
    PartsSpec => []PartsTypeOK
<1>1. PartsOK => PartsTypeOK
  BY DEF PartsOK, PartsTypeOK, LedgerOK
<1> QED
  BY <1>1, PartsStart, PartsStep, PTL DEF PartsSpec

=============================================================================
