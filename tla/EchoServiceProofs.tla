------------------------- MODULE EchoServiceProofs -------------------------
(***************************************************************************)
(* Proofs about EchoService, for every number of inputs and of iterations: *)
(* how its echoes are numbered, when they are all there, and what main     *)
(* makes of the log.                                                       *)
(***************************************************************************)
EXTENDS EchoService, MessageBridgeEgressProofs, WellFoundedInduction

-----------------------------------------------------------------------------
(***************************************************************************)
(* The number of an echo.                                                  *)
(***************************************************************************)
\* Whether the current copperlist carries an input.
InHand == IF slots[0].payload = None THEN 0 ELSE 1

\* The counter of the machine is the number of inputs it was given.
CountIs == machines[1] = IF pc \in {"stamp", "fsm"} THEN Taken - InHand ELSE Taken

\* The output of the machine carries the number of its input, which is the input.
SlotIs ==
    /\ pc \in {"stampout", "egress", "panicked"} =>
           slots[1].payload = IF InHand = 0 THEN None ELSE Echo(Taken, Taken)
    /\ pc = "stampout" => InHand = 1

\* Whether egress has sent the echo of every input it has been given: it always has
\* while the transport runs, and without timeouts until the end.
Reliable == transport = "running" \/ ~TimeoutsFire

EgressedIs ==
    LET due == IF pc \in {"stamp", "fsm", "stampout", "egress"} THEN Taken - InHand ELSE Taken
    IN  /\ \A k \in 1..Len(egressed) : egressed[k] = Echo(k, k)
        /\ Len(egressed) <= due
        /\ Reliable => pc # "panicked" /\ Len(egressed) = due

\* The transport returns Ok with every echo, and without timeouts does not fail before
\* the application is dropped.
TransportIs ==
    /\ transport = "ok" => got = Inputs
    /\ transport = "err" /\ ~TimeoutsFire => AppDropped

NumberInv == CountIs /\ SlotIs /\ EgressedIs /\ TransportIs

LEMMA EchoFacts ==
    ASSUME TypeInv, InputsInOrder
    PROVE  /\ Stages = 1 /\ stage = 1
           /\ Taken \in 0..Inputs /\ Taken <= nsent /\ nsent \in 0..Inputs
           /\ Inputs \in Nat /\ Extra \in Nat /\ Iterations = Inputs + Extra
           /\ Len(log) \in Nat /\ Len(egressed) \in Nat
           /\ InHand \in {0, 1} /\ (InHand = 0 <=> slots[0].payload = None)
           /\ Ingested /\ InHand = 1 => Taken >= 1 /\ slots[0].payload = Taken
<1>1. Stages = 1 /\ stage = 1
  BY ServiceAssumption DEF TypeInv, TypeOK
<1>2. /\ nsent \in 0..Inputs /\ Len(inq) \in Nat /\ Len(inq) <= nsent
      /\ Inputs \in Nat /\ Extra \in Nat /\ Len(log) \in Nat /\ Len(egressed) \in Nat
  BY BoundAssumption DEF TypeInv, TypeOK
<1>3. Taken \in 0..Inputs /\ Taken <= nsent
  BY <1>2 DEF Taken
<1>4. InHand \in {0, 1} /\ (InHand = 0 <=> slots[0].payload = None)
  BY DEF InHand
<1>5. ASSUME Ingested, InHand = 1 PROVE Taken >= 1 /\ slots[0].payload = Taken
  <2>1. TookOne(TakenBefore(Len(log) + 1), Taken, slots[0].payload)
    BY <1>5 DEF InputsInOrder, Ingested
  <2>2. slots[0].payload = Taken /\ slots[0].payload \in 1..Inputs
    BY <1>4, <1>5, <2>1 DEF TookOne, TypeInv
  <2> QED BY <1>2, <2>2
<1> QED BY <1>1, <1>2, <1>3, <1>4, <1>5 DEF Iterations

\* EchoMachine::step on the trigger in slot 0.
LEMMA EchoStepIs ==
    ASSUME TypeInv, InputsInOrder, CountIs, pc = "fsm"
    PROVE  /\ Step.state = Taken
           /\ Step.outs = IF InHand = 0 THEN <<>> ELSE <<Echo(Taken, Taken)>>
<1> DEFINE trigger == trigger_for(slots[0], clock)
<1>1. stage = 1 /\ stage - 1 = 0 /\ Taken \in 0..Inputs /\ InHand \in {0, 1} /\ Inputs \in Nat
  BY EchoFacts
<1>2. trigger \in Triggers(1)
  BY <1>1, TriggerType
<1>3. machines[1] \in Counts /\ machines[1] = Taken - InHand
  <2>1. machines[1] \in MState
    BY <1>1 DEF TypeInv, TypeOK
  <2> QED BY <2>1, ServiceAssumption DEF CountIs
<1>4. Step = EchoStep(1, machines[1], trigger)
  <2>1. Step = FsmStep(1, machines[1], trigger)
    BY <1>1 DEF Step
  <2> HIDE DEF trigger
  <2> QED BY <1>2, <1>3, <2>1, ServiceAssumption
<1>5. CASE InHand = 0
  <2>1. trigger.msg = None
    BY <1>5, EchoFacts DEF trigger_for, TickAt
  <2> HIDE DEF trigger
  <2> QED BY <1>1, <1>3, <1>4, <1>5, <2>1 DEF EchoStep
<1>6. CASE InHand = 1
  <2>1. slots[0].payload # None /\ slots[0].payload = Taken /\ Taken >= 1
    BY <1>6, EchoFacts DEF Ingested
  <2>2. trigger.msg = Taken /\ Taken # None
    BY <2>1 DEF trigger_for, Message
  <2>3. Bumped(machines[1]) = Taken
    <3>1. (machines[1] + 1) = Taken /\ Taken \in 0..Inputs /\ Width = Inputs + 1
      BY <1>1, <1>3, <1>6 DEF Width
    <3> QED BY <1>1, <3>1 DEF Bumped
  <2> HIDE DEF trigger
  <2> QED BY <1>4, <1>6, <2>2, <2>3 DEF EchoStep
<1> QED BY <1>1, <1>5, <1>6

LEMMA NumberInit == Init => NumberInv
<1> SUFFICES ASSUME Init PROVE NumberInv
  OBVIOUS
<1>1. /\ pc = "idle" /\ transport = "running" /\ nsent = 0 /\ Len(inq) = 0
      /\ Len(egressed) = 0 /\ machines[1] = 0
  BY ServiceAssumption DEF Init
<1>2. Taken = 0
  BY <1>1 DEF Taken
<1> QED BY <1>1, <1>2 DEF NumberInv, CountIs, SlotIs, EgressedIs, TransportIs

\* A step after which nothing is known to differ but, perhaps, that the loop is over.
LEMMA NumberFrame ==
    ASSUME NumberInv, UNCHANGED <<machines, slots, egressed, transport>>, Taken' = Taken,
           transport = "running" \/ got' = got,
           pc' = pc \/ (pc \in {"idle", "collect", "join"} /\ pc' \in {"collect", "join", "joined"})
    PROVE  NumberInv'
<1>1. InHand' = InHand /\ (Reliable' <=> Reliable)
  BY DEF InHand, Reliable
<1>2. CountIs' /\ SlotIs'
  BY <1>1 DEF NumberInv, CountIs, SlotIs
<1>3. EgressedIs'
  BY <1>1 DEF NumberInv, EgressedIs
<1>4. TransportIs'
  BY DEF NumberInv, TransportIs, AppDropped
<1> QED BY <1>2, <1>3, <1>4 DEF NumberInv

\* The transport returns.
LEMMA NumberReturn ==
    ASSUME NumberInv, SendRefused \/ ReceiveFails \/ ReceivedAll
    PROVE  NumberInv'
<1>1. /\ UNCHANGED <<machines, slots, egressed, nsent, inq, pc, got>>
      /\ transport = "running" /\ transport' \in {"ok", "err"}
      /\ transport' = "ok" => got = Inputs
      /\ transport' = "err" /\ ~TimeoutsFire => AppDropped
  BY DEF SendRefused, ReceiveFails, ReceivedAll, Sending, Receiving, Return, machineVars, cuVars
<1>2. Taken' = Taken /\ InHand' = InHand /\ Reliable
  BY <1>1 DEF Taken, InHand, Reliable
<1>3. CountIs' /\ SlotIs'
  BY <1>1, <1>2 DEF NumberInv, CountIs, SlotIs
<1>4. EgressedIs'
  BY <1>1, <1>2 DEF NumberInv, EgressedIs
<1>5. TransportIs'
  BY <1>1 DEF TransportIs, AppDropped
<1> QED BY <1>3, <1>4, <1>5 DEF NumberInv

LEMMA NumberIngress ==
    ASSUME TypeInv, InputsInOrder, NumberInv, IngressOne \/ IngressNone
    PROVE  NumberInv'
<1>1. /\ UNCHANGED <<machines, egressed, nsent, transport, got>>
      /\ pc = "ingress" /\ pc' = "stamp"
  BY DEF IngressOne, IngressNone, SetInput, machineVars, transportVars
<1>2. Taken' = Taken + InHand' /\ Taken \in 0..Inputs
  <2>1. inq \in Seq(1..Inputs) /\ nsent \in Nat /\ Len(inq) \in Nat
    BY BoundAssumption DEF TypeInv, TypeOK
  <2>2. CASE IngressOne
    <3>1. inq # <<>> /\ inq' = Tail(inq) /\ Head(inq) \in 1..Inputs /\ Len(inq') = Len(inq) - 1
      BY <2>1, <2>2, HeadTailProperties DEF IngressOne, SetInput
    <3>2. slots'[0].payload = Head(inq) /\ Head(inq) # None
      BY <2>2, <3>1, IngressSlots, PayloadAssumption DEF IngressOne
    <3> QED BY <1>1, <2>1, <3>1, <3>2, EchoFacts DEF Taken, InHand
  <2>3. CASE IngressNone
    <3>1. inq' = inq
      BY <2>3 DEF IngressNone, SetInput
    <3>2. slots'[0].payload = None
      BY <2>3, IngressSlots DEF IngressNone
    <3> QED BY <1>1, <2>1, <3>1, <3>2, EchoFacts DEF Taken, InHand
  <2> QED BY <2>2, <2>3
<1>3. InHand' \in {0, 1} /\ (Reliable' <=> Reliable)
  BY <1>1 DEF InHand, Reliable
<1>4. CountIs' /\ SlotIs'
  BY <1>1, <1>2, <1>3 DEF NumberInv, CountIs, SlotIs
<1>5. EgressedIs'
  <2>1. Taken' - InHand' = Taken
    <3>1. ASSUME NEW t, NEW i \in {0, 1}, NEW t2 \in 0..Inputs, t = t2 + i
          PROVE  t - i = t2
      BY <3>1, BoundAssumption
    <3> QED BY <1>2, <1>3, <3>1
  <2>2. Len(egressed) <= Taken /\ (Reliable => Len(egressed) = Taken)
    BY <1>1 DEF NumberInv, EgressedIs
  <2>3. \A k \in 1..Len(egressed) : egressed[k] = Echo(k, k)
    BY DEF NumberInv, EgressedIs
  <2> QED BY <1>1, <1>3, <2>1, <2>2, <2>3 DEF EgressedIs
<1>6. TransportIs'
  BY <1>1 DEF NumberInv, TransportIs, AppDropped
<1> QED BY <1>4, <1>5, <1>6 DEF NumberInv

\* The machine takes its step: it never emits more than one value.
LEMMA NumberFsm ==
    ASSUME TypeInv, InputsInOrder, NumberInv,
           FsmSome \/ FsmNone \/ FsmExtraIgnored \/ FsmExtraPanics
    PROVE  NumberInv'
<1>1. pc = "fsm" /\ CountIs
  BY DEF FsmSome, FsmNone, FsmExtraIgnored, FsmExtraPanics, FsmExtra, NumberInv
<1>2. /\ Step.state = Taken
      /\ Step.outs = IF InHand = 0 THEN <<>> ELSE <<Echo(Taken, Taken)>>
  BY <1>1, EchoStepIs
<1>3. stage = 1 /\ Stages = 1 /\ Taken \in 0..Inputs /\ InHand \in {0, 1} /\ Inputs \in Nat
  BY EchoFacts
<1> DEFINE payload == IF InHand = 0 THEN None ELSE Echo(Taken, Taken)
<1>4. RunMachine(payload) /\ pc' = IF InHand = 0 THEN "egress" ELSE "stampout"
  <2>1. CASE InHand = 0
    BY <1>2, <1>3, <2>1 DEF FsmSome, FsmNone, FsmExtraIgnored, FsmExtraPanics, FsmExtra, Advance
  <2>2. CASE InHand = 1
    <3>1. Step.outs = <<Echo(Taken, Taken)>> /\ Len(Step.outs) = 1 /\ Step.outs # <<>>
          /\ Head(Step.outs) = Echo(Taken, Taken)
      BY <1>2, <2>2
    <3> QED BY <2>2, <3>1 DEF FsmSome, FsmNone, FsmExtraIgnored, FsmExtraPanics, FsmExtra
  <2> QED BY <1>3, <2>1, <2>2
<1>5. payload \in Payload \cup {None}
  <2>1. Step.outs \in Seq(Payload)
    BY StepType
  <2>2. InHand = 1 => Echo(Taken, Taken) \in Payload
    <3>1. ASSUME NEW x, <<x>> \in Seq(Payload) PROVE x \in Payload
      <4>1. Len(<<x>>) = 1 /\ <<x>>[1] = x
        OBVIOUS
      <4> QED BY <3>1, <4>1
    <3> QED BY <1>2, <2>1, <3>1
  <2> QED BY <1>3, <2>2
<1> HIDE DEF payload
<1>6. slots'[1].payload = payload /\ slots'[0] = slots[0]
  <2>1. 0 \in 0..Stages /\ 0 # stage
    BY <1>3
  <2> QED BY <1>3, <1>4, <1>5, <2>1, MachineSlots
<1>7. /\ machines'[1] = Taken /\ UNCHANGED <<nsent, inq, transport, got, egressed>>
      /\ pc' \in {"egress", "stampout"}
  BY <1>2, <1>3, <1>4 DEF RunMachine, TypeInv, TypeOK, transportVars
<1>8. Taken' = Taken /\ InHand' = InHand /\ (Reliable' <=> Reliable)
  BY <1>6, <1>7 DEF Taken, InHand, Reliable
<1>9. CountIs' /\ SlotIs'
  BY <1>3, <1>4, <1>6, <1>7, <1>8 DEF CountIs, SlotIs, payload
<1>10. EgressedIs'
  BY <1>1, <1>7, <1>8 DEF NumberInv, EgressedIs
<1>11. TransportIs'
  BY <1>1, <1>7 DEF NumberInv, TransportIs, AppDropped
<1> QED BY <1>9, <1>10, <1>11 DEF NumberInv
\* Egress: it fails only after a timeout, since without one the transport returns when
\* it has every echo or the application is gone.
LEMMA NumberEgress ==
    ASSUME TypeInv, InputsInOrder, EchoesInOrder, NumberInv,
           EgressOne \/ EgressNone \/ EgressErrIgnored \/ EgressErrPanics
    PROVE  NumberInv'
<1>1. /\ pc = "egress" /\ UNCHANGED <<machines, nsent, inq, transport, got, slots>>
      /\ pc' \in {"idle", "panicked"}
  BY DEF EgressOne, EgressNone, EgressErrIgnored, EgressErrPanics, LogCopperlist, machineVars,
         transportVars, cuVars
<1>2. /\ Stages = 1 /\ Taken \in 0..Inputs /\ Inputs \in Nat /\ InHand \in {0, 1}
      /\ InHand = 1 => Taken >= 1
      /\ Len(egressed) \in Nat
  BY <1>1, EchoFacts DEF Ingested
<1>3. /\ machines[1] = Taken
      /\ Output = IF InHand = 0 THEN None ELSE Echo(Taken, Taken)
      /\ \A k \in 1..Len(egressed) : egressed[k] = Echo(k, k)
      /\ Reliable => Len(egressed) = Taken - InHand
      /\ Len(egressed) <= Taken - InHand
  BY <1>1, <1>2 DEF NumberInv, CountIs, SlotIs, EgressedIs, Output
<1>4. Taken' = Taken /\ InHand' = InHand /\ (Reliable' <=> Reliable)
  BY <1>1 DEF Taken, InHand, Reliable
<1>5. Output # None => InHand = 1
  BY <1>2, <1>3
<1>6. Output = None => InHand = 0
  <2>1. Taken \in Nat /\ Width \in Nat
    BY <1>2 DEF Width
  <2>2. Echo(Taken, Taken) \in Nat
    BY <2>1 DEF Echo
  <2> QED BY <1>2, <1>3, <2>2, PayloadAssumption
<1>7. CountIs'
  BY <1>1, <1>3, <1>4 DEF CountIs
<1>8. SlotIs'
  BY <1>1, <1>4 DEF NumberInv, SlotIs
<1>9. EgressedIs'
  <2>1. CASE EgressOne
    <3>1. transport = "running" /\ InHand = 1 /\ egressed' = egressed \o <<Output>> /\ pc' = "idle"
      BY <1>5, <2>1 DEF EgressOne, LogCopperlist
    <3>2. Len(egressed) = Taken - 1 /\ Output = Echo(Taken, Taken)
      BY <1>3, <3>1 DEF Reliable
    <3>3. egressed \in Seq(Payload)
      BY EchoTypes
    <3>4. /\ Len(egressed') = Len(egressed) + 1 /\ egressed'[Len(egressed) + 1] = Output
          /\ \A k \in 1..Len(egressed) : egressed'[k] = egressed[k]
      BY <3>1, <3>3
    <3>5. Len(egressed) + 1 = Taken
      BY <1>2, <3>2
    <3>6. ASSUME NEW k \in 1..Taken PROVE egressed'[k] = Echo(k, k)
      <4>1. CASE k \in 1..Len(egressed)
        BY <1>3, <3>4, <4>1
      <4>2. CASE k = Taken
        BY <3>2, <3>4, <3>5, <4>2
      <4> QED BY <1>2, <3>5, <4>1, <4>2
    <3> QED BY <1>4, <3>1, <3>4, <3>5, <3>6 DEF EgressedIs
  <2>2. CASE EgressNone
    <3>1. InHand = 0 /\ egressed' = egressed /\ pc' = "idle"
      BY <1>6, <2>2, NothingSent DEF EgressNone, LogCopperlist
    <3>2. Len(egressed) <= Taken /\ (Reliable => Len(egressed) = Taken)
      BY <1>2, <1>3, <3>1
    <3> QED BY <1>3, <1>4, <3>1, <3>2 DEF EgressedIs
  <2>3. CASE EgressErrIgnored \/ EgressErrPanics
    <3>1. egressed' = egressed /\ transport # "running" /\ InHand = 1
      BY <1>5, <2>3, NothingSent DEF EgressErrIgnored, EgressErrPanics, LogCopperlist
    <3>2. ~Reliable
      <4>1. SUFFICES ASSUME ~TimeoutsFire PROVE FALSE
        BY <3>1 DEF Reliable
      <4>2. transport = "ok" /\ got = Inputs
        BY <1>1, <3>1, <4>1 DEF NumberInv, TransportIs, AppDropped, TypeInv, TypeOK
      <4>3. Len(Arrived) = got /\ Len(Arrived) <= Len(egressed)
        BY <3>1, EchoTypes DEF EchoesInOrder, Arrived, TypeInv, TypeOK
      <4>4. Len(egressed) = Taken - 1
        BY <1>3, <3>1, <4>1 DEF Reliable
      <4> QED BY <1>2, <4>2, <4>3, <4>4
    <3>3. Len(egressed) <= Taken
      BY <1>2, <1>3, <3>1
    <3> QED BY <1>1, <1>3, <1>4, <3>1, <3>2, <3>3 DEF EgressedIs
  <2> QED BY <2>1, <2>2, <2>3
<1>10. TransportIs'
  BY <1>1 DEF NumberInv, TransportIs, AppDropped
<1> QED BY <1>7, <1>8, <1>9, <1>10 DEF NumberInv

LEMMA NumberStep ==
    TypeInv /\ InputsInOrder /\ EchoesInOrder /\ NumberInv /\ [Next]_vars => NumberInv'
<1> SUFFICES ASSUME TypeInv, InputsInOrder, EchoesInOrder, NumberInv, [Next]_vars
             PROVE  NumberInv'
  OBVIOUS
<1> USE DEF transportVars, cuVars, machineVars
<1>1. CASE Tick \/ Collect \/ ReceiveEcho \/ UNCHANGED vars
  BY <1>1, NumberFrame DEF Tick, Collect, ReceiveEcho, Receiving, vars, Taken
<1>2. CASE Stop \/ CollectFails \/ Collected \/ Join
  BY <1>2, NumberFrame DEF Stop, CollectFails, Collected, Join, Goto, Taken
<1>3. CASE SendInput
  <2>1. Taken' = Taken
    <3>1. nsent' = nsent + 1 /\ inq' = Append(inq, nsent + 1) /\ inq \in Seq(1..Inputs)
          /\ nsent \in Nat
      BY <1>3, BoundAssumption DEF SendInput, TypeInv, TypeOK
    <3>2. Len(inq') = Len(inq) + 1 /\ Len(inq) \in Nat
      BY <3>1
    <3> QED BY <3>1, <3>2 DEF Taken
  <2> QED BY <1>3, <2>1, NumberFrame DEF SendInput
<1>4. CASE StartIteration
  <2>1. /\ pc = "idle" /\ pc' = "ingress"
        /\ UNCHANGED <<machines, egressed, nsent, inq, transport, got>>
    BY <1>4 DEF StartIteration
  <2>2. Taken' = Taken /\ (Reliable' <=> Reliable)
    BY <2>1 DEF Taken, Reliable
  <2> QED BY <2>1, <2>2 DEF NumberInv, CountIs, SlotIs, EgressedIs, TransportIs, AppDropped
<1>5. CASE IngressStamp
  <2>1. /\ pc = "stamp" /\ pc' = "fsm"
        /\ UNCHANGED <<machines, egressed, nsent, inq, transport, got>>
    BY <1>5 DEF IngressStamp
  <2>2. slots'[0].payload = slots[0].payload
    BY <1>5, IngressStampSlots
  <2>3. Taken' = Taken /\ InHand' = InHand /\ (Reliable' <=> Reliable)
    BY <2>1, <2>2 DEF Taken, InHand, Reliable
  <2> QED BY <2>1, <2>3 DEF NumberInv, CountIs, SlotIs, EgressedIs, TransportIs, AppDropped
<1>6. CASE FsmStamp
  <2>1. Stages = 1 /\ stage = 1
    BY EchoFacts
  <2>2. /\ pc = "stampout" /\ pc' = "egress"
        /\ UNCHANGED <<machines, egressed, nsent, inq, transport, got>>
    BY <1>6, <2>1 DEF FsmStamp, Advance
  <2>3. slots'[0] = slots[0] /\ slots'[1].payload = slots[1].payload
    <3>1. 0 \in 0..Stages /\ 0 # stage
      BY <2>1
    <3> QED BY <1>6, <2>1, <3>1, FsmStampSlots
  <2>4. Taken' = Taken /\ InHand' = InHand /\ (Reliable' <=> Reliable)
    BY <2>2, <2>3 DEF Taken, InHand, Reliable
  <2> QED BY <2>2, <2>3, <2>4 DEF NumberInv, CountIs, SlotIs, EgressedIs, TransportIs, AppDropped
<1> QED
  BY <1>1, <1>2, <1>3, <1>4, <1>5, <1>6, NumberReturn, NumberIngress, NumberFsm, NumberEgress
  DEF Next, Transport, Main, Terminated

LEMMA NumberCorrect ==
    Spec => []TypeInv /\ []InputsInOrder /\ []EchoesInOrder /\ []NumberInv
<1>1. Init => TypeInv /\ InputsInOrder /\ EchoesInOrder /\ NumberInv
  BY TypeInit, InputsInOrderInit, EchoesInit, NumberInit
<1>2. TypeInv /\ InputsInOrder /\ EchoesInOrder /\ NumberInv /\ [Next]_vars
        => (TypeInv /\ InputsInOrder /\ EchoesInOrder /\ NumberInv)'
  BY TypeStep, InputsInOrderStep, EchoesStep, NumberStep
<1> QED BY <1>1, <1>2, PTL DEF Spec

\* What main collects is a prefix of what egress has sent.
LEMMA LiveIsEgressed ==
    ASSUME TypeInv, EchoesInOrder
    PROVE  /\ Len(live) \in Nat /\ Len(live) <= Len(egressed)
           /\ \A k \in 1..Len(live) : live[k] = egressed[k]
<1>1. /\ live \in Seq(Payload) /\ results \in Seq(Payload) /\ outq \in Seq(Payload)
      /\ egressed \in Seq(Payload) /\ Arrived \in Seq(Payload)
  BY EchoTypes
<1>2. /\ Len(live) <= Len(Arrived) /\ \A k \in 1..Len(live) : live[k] = Arrived[k]
  BY <1>1 DEF Arrived
<1>3. /\ Len(Arrived) <= Len(egressed) /\ \A k \in 1..Len(Arrived) : Arrived[k] = egressed[k]
  <2>1. CASE transport = "running"
    <3>1. egressed = Arrived \o outq
      BY <2>1 DEF EchoesInOrder
    <3> QED BY <1>1, <3>1
  <2>2. CASE transport # "running"
    <3>1. Len(Arrived) <= Len(egressed) /\ Arrived = SubSeq(egressed, 1, Len(Arrived))
      BY <2>2 DEF EchoesInOrder
    <3> QED BY <1>1, <3>1
  <2> QED BY <2>1, <2>2
<1> QED BY <1>1, <1>2, <1>3

\* The k-th echo that main collects is number k and carries input k, whatever the
\* timeouts and however the inputs were sent.
THEOREM EchoesAreNumbered == Spec => []EchoesNumbered
<1>1. TypeInv /\ EchoesInOrder /\ NumberInv => EchoesNumbered
  <2> SUFFICES ASSUME TypeInv, EchoesInOrder, NumberInv, NEW k \in 1..Len(live)
               PROVE  live[k] = Echo(k, k)
    BY DEF EchoesNumbered
  <2>1. live[k] = egressed[k] /\ k \in 1..Len(egressed)
    BY LiveIsEgressed, EchoTypes
  <2> QED BY <2>1 DEF NumberInv, EgressedIs
<1> QED BY <1>1, NumberCorrect, PTL
-----------------------------------------------------------------------------
(***************************************************************************)
(* Whether all echoes arrive in time.                                      *)
(***************************************************************************)
\* Input k was, or will be, sent too late.
LateAt(k) == k + Extra - 2 < IF k <= nsent THEN sentAt[k] ELSE Len(log)
Late == \E k \in 1..Inputs : LateAt(k)

\* How many times ingress has run.
Looks == Len(log) + IF Ingested THEN 1 ELSE 0

\* In time, ingress took each input when its turn came.
OnTime == ~Late => \A k \in 1..Inputs : k + Extra <= Looks => k <= Taken

\* The loop is over once it has made its iterations.
DroppedLast == pc \in {"collect", "join", "joined"} => Len(log) = Iterations

\* In time and without timeouts, the transport gets every echo, and main as well.
AllThere ==
    ~Late /\ ~TimeoutsFire =>
        /\ transport # "err"
        /\ pc \in {"join", "joined"} => Len(live) = Inputs

InTimeInv == OnTime /\ DroppedLast /\ AllThere

LEMMA InTimeTypes ==
    ASSUME TypeInv, InputsInOrder
    PROVE  /\ nsent \in Nat /\ Len(sentAt) = nsent /\ sentAt \in Seq(0..Iterations)
           /\ \A k \in 1..nsent : sentAt[k] \in Nat
           /\ Len(log) \in Nat /\ Taken \in Nat /\ Taken <= nsent /\ nsent <= Inputs
           /\ Inputs \in Nat /\ Extra \in Nat /\ Looks \in Nat
<1>1. /\ Taken \in 0..Inputs /\ Taken <= nsent /\ nsent \in 0..Inputs /\ Inputs \in Nat
      /\ Extra \in Nat /\ Len(log) \in Nat /\ Iterations = Inputs + Extra
  BY EchoFacts
<1>2. Len(sentAt) = nsent /\ sentAt \in Seq(0..Iterations)
  BY DEF TypeInv, TypeOK
<1> QED BY <1>1, <1>2 DEF Looks

\* What was late stays late.
LEMMA LateKept ==
    ASSUME TypeInv, InputsInOrder, [Next]_vars
    PROVE  \A k \in 1..Inputs : LateAt(k) => LateAt(k)'
<1> SUFFICES ASSUME NEW k \in 1..Inputs, LateAt(k) PROVE LateAt(k)'
  OBVIOUS
<1>1. /\ nsent \in Nat /\ Len(sentAt) = nsent /\ sentAt \in Seq(0..Iterations)
      /\ Len(log) \in Nat /\ Extra \in Nat
  BY InTimeTypes
<1>2. CASE SendInput
  <2>1. nsent' = nsent + 1 /\ sentAt' = Append(sentAt, Len(log)) /\ log' = log
    BY <1>2 DEF SendInput, logVars
  <2>2. /\ \A i \in 1..nsent : sentAt'[i] = sentAt[i]
        /\ sentAt'[nsent + 1] = Len(log)
    BY <1>1, <2>1
  <2>3. CASE k <= nsent
    BY <1>1, <2>1, <2>2, <2>3 DEF LateAt
  <2>4. CASE k = nsent + 1
    BY <1>1, <2>1, <2>2, <2>4 DEF LateAt
  <2>5. CASE k > nsent + 1
    BY <1>1, <2>1, <2>5 DEF LateAt
  <2> QED BY <1>1, <2>3, <2>4, <2>5
<1>3. CASE IngressOne \/ IngressNone
  BY <1>3 DEF IngressOne, IngressNone, SetInput, transportVars, logVars, LateAt
<1>4. ASSUME NEW sends, NEW err, LogCopperlist(sends, err) PROVE LateAt(k)'
  <2>1. UNCHANGED <<nsent, sentAt>> /\ Len(log') = Len(log) + 1
    BY <1>4, Logged DEF LogCopperlist, transportVars
  <2>2. CASE k <= nsent
    BY <2>1, <2>2 DEF LateAt
  <2>3. CASE ~(k <= nsent)
    BY <1>1, <2>1, <2>3 DEF LateAt
  <2> QED BY <2>2, <2>3
<1>5. CASE InboundQuiet
  BY <1>5 DEF InboundQuiet, LateAt
<1> QED BY <1>2, <1>3, <1>4, <1>5, InboundStep

LEMMA OnTimeStep ==
    ASSUME TypeInv, InputsInOrder, OnTime, [Next]_vars
    PROVE  OnTime'
<1> SUFFICES ASSUME ~Late', NEW k \in 1..Inputs, k + Extra <= Looks' PROVE k <= Taken'
  BY DEF OnTime
<1>1. ~Late
  BY LateKept DEF Late
<1>2. \A i \in 1..Inputs : i + Extra <= Looks => i <= Taken
  BY <1>1 DEF OnTime
<1>3. /\ nsent \in Nat /\ Len(log) \in Nat /\ Taken \in Nat /\ Taken <= nsent
      /\ Inputs \in Nat /\ Extra \in Nat /\ Looks \in Nat
      /\ inq \in Seq(1..Inputs) /\ Len(inq) \in Nat
  BY InTimeTypes DEF TypeInv, TypeOK
<1>4. CASE SendInput
  <2>1. nsent' = nsent + 1 /\ inq' = Append(inq, nsent + 1) /\ UNCHANGED <<log, pc>>
    BY <1>4 DEF SendInput, logVars
  <2>2. Len(inq') = Len(inq) + 1
    BY <1>3, <2>1
  <2>3. Taken' = Taken /\ Looks' = Looks
    BY <1>3, <2>1, <2>2 DEF Taken, Looks, Ingested
  <2> QED BY <1>2, <2>3
<1>5. CASE IngressOne \/ IngressNone
  <2>1. pc = "ingress" /\ pc' = "stamp" /\ UNCHANGED <<nsent, sentAt, log>>
    BY <1>5 DEF IngressOne, IngressNone, SetInput, transportVars, logVars
  <2>2. Looks = Len(log) /\ Looks' = Len(log) + 1
    BY <1>3, <2>1 DEF Looks, Ingested
  <2>3. CASE k + Extra <= Len(log)
    <3>1. k <= Taken
      BY <1>2, <2>2, <2>3
    <3>2. Taken' >= Taken /\ Taken' \in Nat
      <4>1. CASE IngressOne
        <5>1. Len(inq') = Len(inq) - 1
          BY <1>3, <4>1, HeadTailProperties DEF IngressOne, SetInput
        <5> QED BY <1>3, <2>1, <5>1 DEF Taken
      <4>2. CASE IngressNone
        BY <1>3, <2>1, <4>2 DEF Taken, IngressNone, SetInput
      <4> QED BY <1>5, <4>1, <4>2
    <3> QED BY <1>3, <3>1, <3>2
  <2>4. CASE k + Extra = Len(log) + 1
    <3>1. k <= nsent
      <4>1. ~LateAt(k)
        BY <1>1 DEF Late
      <4> QED BY <1>3, <2>4, <4>1 DEF LateAt
    <3>2. k - 1 <= Taken
      <4>1. CASE k = 1
        BY <1>3, <4>1
      <4>2. CASE k # 1
        <5>1. k - 1 \in 1..Inputs /\ (k - 1) + Extra <= Looks
          BY <1>3, <2>2, <2>4, <4>2
        <5> QED BY <1>2, <5>1
      <4> QED BY <4>1, <4>2
    <3>3. CASE IngressOne
      <4>1. Len(inq') = Len(inq) - 1
        BY <1>3, <3>3, HeadTailProperties DEF IngressOne, SetInput
      <4>2. Taken' = Taken + 1
        BY <1>3, <2>1, <4>1 DEF Taken
      <4> QED BY <1>3, <3>2, <4>2
    <3>4. CASE IngressNone
      <4>1. inq' = inq /\ Len(inq) = 0
        BY <3>4 DEF IngressNone, SetInput
      <4>2. Taken' = nsent
        BY <1>3, <2>1, <4>1 DEF Taken
      <4> QED BY <3>1, <4>2
    <3> QED BY <1>5, <3>3, <3>4
  <2> QED BY <1>3, <2>2, <2>3, <2>4
<1>6. ASSUME NEW sends, NEW err, LogCopperlist(sends, err) PROVE k <= Taken'
  <2>1. /\ pc = "egress" /\ pc' = "idle" /\ UNCHANGED <<nsent, inq>>
        /\ Len(log') = Len(log) + 1
    BY <1>6, Logged DEF LogCopperlist, transportVars
  <2>2. Taken' = Taken /\ Looks' = Looks
    BY <1>3, <2>1 DEF Taken, Looks, Ingested
  <2> QED BY <1>2, <2>2
<1>7. CASE InboundQuiet
  <2>1. Taken' = Taken /\ Looks' = Looks
    BY <1>7 DEF InboundQuiet, Taken, Looks
  <2> QED BY <1>2, <2>1
<1> QED BY <1>4, <1>5, <1>6, <1>7, InboundStep

LEMMA DroppedStep ==
    ASSUME DroppedLast, [Next]_vars
    PROVE  DroppedLast'
<1> USE DEF transportVars, cuVars, machineVars, logVars, DroppedLast
<1>1. CASE Tick \/ Transport
  BY <1>1 DEF Tick, Transport, SendInput, SendRefused, ReceiveEcho, ReceiveFails, ReceivedAll,
              Return
<1>2. CASE \/ StartIteration \/ IngressOne \/ IngressNone \/ IngressStamp \/ FsmStamp
           \/ EgressOne \/ EgressNone \/ EgressErrIgnored \/ EgressErrPanics
  BY <1>2 DEF StartIteration, IngressOne, IngressNone, SetInput, IngressStamp, FsmStamp,
              EgressOne, EgressNone, EgressErrIgnored, EgressErrPanics, LogCopperlist, Advance
<1>3. CASE FsmSome \/ FsmNone \/ FsmExtraIgnored \/ FsmExtraPanics
  BY <1>3 DEF FsmSome, FsmNone, FsmExtraIgnored, FsmExtraPanics, FsmExtra, Advance
<1>4. CASE Stop \/ Collect \/ CollectFails \/ Collected \/ Join
  BY <1>4 DEF Stop, Collect, CollectFails, Collected, Join, Goto
<1>5. CASE UNCHANGED vars
  BY <1>5 DEF vars
<1> QED BY <1>1, <1>2, <1>3, <1>4, <1>5 DEF Next, Main, Terminated

\* Once the application is dropped, in time, every input has been taken and its echo
\* sent.
LEMMA DroppedHasAll ==
    ASSUME TypeInv, InputsInOrder, NumberInv, OnTime, DroppedLast, ~Late, ~TimeoutsFire,
           AppDropped
    PROVE  nsent = Inputs /\ Len(egressed) = Inputs
<1>1. /\ nsent \in Nat /\ Len(log) \in Nat /\ Taken \in Nat /\ Taken <= nsent /\ nsent <= Inputs
      /\ Inputs \in Nat /\ Extra \in Nat /\ Iterations = Inputs + Extra
  BY InTimeTypes, EchoFacts
<1>2. pc \in {"collect", "join", "joined"} /\ Len(egressed) = Taken
  BY DEF NumberInv, EgressedIs, Reliable, AppDropped
<1>3. Looks = Inputs + Extra
  BY <1>1, <1>2 DEF DroppedLast, Looks, Ingested
<1>4. Inputs <= Taken
  <2>1. CASE Inputs = 0
    BY <1>1, <2>1
  <2>2. CASE Inputs # 0
    <3>1. Inputs \in 1..Inputs /\ Inputs + Extra <= Looks
      BY <1>1, <1>3, <2>2
    <3> QED BY <3>1 DEF OnTime
  <2> QED BY <2>1, <2>2
<1> QED BY <1>1, <1>2, <1>4

LEMMA AllThereStep ==
    ASSUME TypeInv, InputsInOrder, EchoesInOrder, NumberInv, InTimeInv, [Next]_vars
    PROVE  AllThere'
<1> SUFFICES ASSUME ~Late', ~TimeoutsFire
             PROVE  /\ transport' # "err"
                    /\ pc' \in {"join", "joined"} => Len(live') = Inputs
  BY DEF AllThere
<1> USE DEF transportVars, cuVars, machineVars, logVars
<1>1. ~Late /\ OnTime /\ DroppedLast
  BY LateKept DEF Late, InTimeInv
<1>2. transport # "err" /\ (pc \in {"join", "joined"} => Len(live) = Inputs)
  BY <1>1 DEF InTimeInv, AllThere
<1>3. /\ transport \in {"running", "ok", "err"} /\ Len(live) + Len(results) = got
      /\ got \in Nat /\ Len(live) \in Nat /\ Inputs \in Nat
  BY EchoTypes, BoundAssumption DEF TypeInv, TypeOK
<1>4. ~SendRefused
  <2>1. SUFFICES ASSUME SendRefused PROVE FALSE
    OBVIOUS
  <2>2. nsent < Inputs /\ nsent = Inputs
    BY <1>1, <2>1, DroppedHasAll DEF SendRefused, Sending
  <2> QED BY <1>3, <2>2
<1>5. ~ReceiveFails
  <2>1. SUFFICES ASSUME ReceiveFails PROVE FALSE
    OBVIOUS
  <2>2. transport = "running" /\ outq = <<>> /\ got < Inputs /\ AppDropped
    BY <2>1 DEF ReceiveFails, Receiving
  <2>3. Arrived = egressed
    BY <2>2, EchoTypes DEF EchoesInOrder
  <2>4. Len(Arrived) = got
    BY <1>3, EchoTypes DEF Arrived
  <2>5. Len(egressed) = Inputs
    BY <1>1, <2>2, DroppedHasAll
  <2> QED BY <1>3, <2>2, <2>3, <2>4, <2>5
<1>6. ~CollectFails
  <2>1. SUFFICES ASSUME CollectFails PROVE FALSE
    OBVIOUS
  <2>2. Len(live) < Inputs /\ Len(results) = 0 /\ transport # "running"
    BY <2>1 DEF CollectFails
  <2>3. got = Inputs
    BY <1>2, <1>3, <2>2 DEF NumberInv, TransportIs
  <2> QED BY <1>3, <2>2, <2>3
<1>7. CASE Tick \/ SendInput \/ ReceiveEcho \/ ReceivedAll
  BY <1>2, <1>7 DEF Tick, SendInput, ReceiveEcho, ReceivedAll, Return
<1>8. CASE \/ StartIteration \/ IngressOne \/ IngressNone \/ IngressStamp \/ FsmStamp
           \/ EgressOne \/ EgressNone \/ EgressErrIgnored \/ EgressErrPanics
  BY <1>2, <1>8 DEF StartIteration, IngressOne, IngressNone, SetInput, IngressStamp, FsmStamp,
                    EgressOne, EgressNone, EgressErrIgnored, EgressErrPanics, LogCopperlist,
                    Advance
<1>9. CASE FsmSome \/ FsmNone \/ FsmExtraIgnored \/ FsmExtraPanics
  BY <1>2, <1>9 DEF FsmSome, FsmNone, FsmExtraIgnored, FsmExtraPanics, FsmExtra, RunMachine,
                    Advance
<1>10. CASE Stop \/ Collect \/ Collected \/ Join
  BY <1>2, <1>10 DEF Stop, Collect, Collected, Join, Goto
<1>11. CASE UNCHANGED vars
  BY <1>2, <1>11 DEF vars
<1> QED
  BY <1>4, <1>5, <1>6, <1>7, <1>8, <1>9, <1>10, <1>11 DEF Next, Transport, Main, Terminated

\* Without timeouts, the echo example echoes every input if each was sent in time: the
\* extra iterations are enough, the transport does not fail and main collects all.
THEOREM InTimeAllEchoed ==
    ASSUME ~TimeoutsFire
    PROVE  Spec => []InTimeIsEchoed
<1>1. Init => InTimeInv
  <2> SUFFICES ASSUME Init PROVE InTimeInv
    OBVIOUS
  <2>1. pc = "idle" /\ transport = "running" /\ Len(log) = 0
    BY DEF Init
  <2>2. Looks = 0
    BY <2>1 DEF Looks, Ingested
  <2>3. \A k \in 1..Inputs : ~(k + Extra <= Looks)
    BY <2>2, BoundAssumption
  <2> QED BY <2>1, <2>3 DEF InTimeInv, OnTime, DroppedLast, AllThere
<1>2. TypeInv /\ InputsInOrder /\ EchoesInOrder /\ NumberInv /\ InTimeInv /\ [Next]_vars
        => InTimeInv'
  BY OnTimeStep, DroppedStep, AllThereStep DEF InTimeInv
<1>3. TypeInv /\ InputsInOrder /\ InTimeInv => InTimeIsEchoed
  <2> SUFFICES ASSUME TypeInv, InputsInOrder, InTimeInv, pc = "joined", Len(sentAt) = Inputs,
                      \A k \in 1..Inputs : sentAt[k] <= k + Extra - 2
               PROVE  Len(live) = Inputs
    BY DEF InTimeIsEchoed
  <2>1. ~Late
    <3> SUFFICES ASSUME NEW k \in 1..Inputs PROVE ~LateAt(k)
      BY DEF Late
    <3>1. k <= nsent /\ sentAt[k] \in Nat /\ Extra \in Nat
      BY InTimeTypes
    <3> QED BY <3>1 DEF LateAt
  <2> QED BY <2>1 DEF InTimeInv, AllThere
<1> QED BY <1>1, <1>2, <1>3, NumberCorrect, PTL DEF Spec
-----------------------------------------------------------------------------
(***************************************************************************)
(* What main makes of the log.  Recursive functions over an interval are   *)
(* reasoned about with the least argument at which something fails.        *)
(***************************************************************************)
LEMMA Least ==
    ASSUME NEW T \in SUBSET Nat, T # {}
    PROVE  \E x \in T : \A y \in T : x <= y
<1>1. PICK x \in T : \A y \in T : ~(<<y, x>> \in OpToRel(<, Nat))
  BY NatLessThanWellFounded, WFMin
<1>2. OpToRel(<, Nat) = {ss \in Nat \X Nat : ss[1] < ss[2]}
  BY DEF OpToRel
<1>3. ASSUME NEW y \in T PROVE x <= y
  <2>1. <<y, x>> \notin {ss \in Nat \X Nat : ss[1] < ss[2]}
    BY <1>1, <1>2
  <2>2. x \in Nat /\ y \in Nat
    OBVIOUS
  <2>3. ~(y < x)
    BY <2>1, <2>2
  <2> QED BY <2>2, <2>3
<1> QED BY <1>3

\* The replay after a step, given what it had emitted before.
Follows(r, outs) == [state |-> r.state, outs |-> outs \o r.outs]

LEMMA FollowsIs ==
    ASSUME NEW s, NEW outs, NEW before
    PROVE  Follows([state |-> s, outs |-> outs], before) = [state |-> s, outs |-> before \o outs]
BY DEF Follows

\* Whatever satisfies the equations of the recursive function in replay is that
\* function.
LEMMA ReplayIs ==
    ASSUME NEW N \in Nat, NEW read, Len(read) = N, NEW g,
           \A n \in 0..N :
               g[n] = IF n = 0 THEN [state |-> 0, outs |-> <<>>]
                      ELSE Follows(EchoStep(1, g[n - 1].state, Recorded(read[n][0])),
                                   g[n - 1].outs)
    PROVE  replay(read) = g[N].outs
<1> DEFINE After(before, n) ==
               Follows(EchoStep(1, before.state, Recorded(read[n][0])), before.outs)
           Value(f, n) == IF n = 0 THEN [state |-> 0, outs |-> <<>>] ELSE After(f[n - 1], n)
           Run(f) == f = [n \in 0..N |-> Value(f, n)]
           run == CHOOSE f : Run(f)
           h == [n \in 0..N |-> g[n]]
<1>1. replay(read) = run[N].outs
  BY DEF replay, Follows
<1>2. \A n \in 0..N : g[n] = Value(g, n)
  OBVIOUS
<1> HIDE DEF After, run
<1>3. Run(h)
  <2>1. ASSUME NEW n \in 0..N PROVE g[n] = Value(h, n)
    <3>1. CASE n = 0
      BY <1>2, <3>1
    <3>2. CASE n # 0
      <4>1. n - 1 \in 0..N
        BY <3>2
      <4>2. h[n - 1] = g[n - 1]
        BY <4>1
      <4> HIDE DEF h
      <4> QED BY <1>2, <3>2, <4>2
    <3> QED BY <3>1, <3>2
  <2>2. h = [n \in 0..N |-> g[n]]
    OBVIOUS
  <2> HIDE DEF h, Value
  <2> QED BY <2>1, <2>2
<1>4. Run(run)
  <2> HIDE DEF Run, h
  <2> QED BY <1>3 DEF run
<1>5. \A n \in 0..N : run[n] = Value(run, n)
  <2> HIDE DEF Value
  <2>1. run = [n \in 0..N |-> Value(run, n)]
    BY <1>4
  <2> QED BY <2>1
<1>6. \A n \in 0..N : run[n] = g[n]
  <2> DEFINE T == {n \in 0..N : run[n] # g[n]}
  <2>1. SUFFICES ASSUME T # {} PROVE FALSE
    OBVIOUS
  <2>2. PICK k \in T : \A j \in T : k <= j
    <3>1. T \in SUBSET Nat
      OBVIOUS
    <3> HIDE DEF T
    <3> QED BY <2>1, <3>1, Least
  <2>3. CASE k = 0
    BY <1>2, <1>5, <2>3
  <2>4. CASE k # 0
    <3>1. k \in 0..N /\ k - 1 \in 0..N
      BY <2>4
    <3>2. run[k - 1] = g[k - 1]
      BY <2>2, <3>1
    <3> QED BY <1>2, <1>5, <2>4, <3>1, <3>2
  <2> QED BY <2>3, <2>4
<1> QED BY <1>1, <1>6

\* The same of the function in echo_outputs.
LEMMA OutputsAre ==
    ASSUME NEW N \in Nat, NEW read, Len(read) = N, NEW g,
           \A n \in 0..N : g[n] = IF n = 0 THEN <<>> ELSE g[n - 1] \o Held(read[n][1].payload)
    PROVE  echo_outputs(read) = g[N]
<1> DEFINE After(before, n) == before \o Held(read[n][1].payload)
           Value(f, n) == IF n = 0 THEN <<>> ELSE After(f[n - 1], n)
           Run(f) == f = [n \in 0..N |-> Value(f, n)]
           run == CHOOSE f : Run(f)
           h == [n \in 0..N |-> g[n]]
<1>1. echo_outputs(read) = run[N]
  BY DEF echo_outputs
<1>2. \A n \in 0..N : g[n] = Value(g, n)
  OBVIOUS
<1> HIDE DEF After, run
<1>3. Run(h)
  <2>1. ASSUME NEW n \in 0..N PROVE g[n] = Value(h, n)
    <3>1. CASE n = 0
      BY <1>2, <3>1
    <3>2. CASE n # 0
      <4>1. n - 1 \in 0..N
        BY <3>2
      <4>2. h[n - 1] = g[n - 1]
        BY <4>1
      <4> HIDE DEF h
      <4> QED BY <1>2, <3>2, <4>2
    <3> QED BY <3>1, <3>2
  <2>2. h = [n \in 0..N |-> g[n]]
    OBVIOUS
  <2> HIDE DEF h, Value
  <2> QED BY <2>1, <2>2
<1>4. Run(run)
  <2> HIDE DEF Run, h
  <2> QED BY <1>3 DEF run
<1>5. \A n \in 0..N : run[n] = Value(run, n)
  <2> HIDE DEF Value
  <2>1. run = [n \in 0..N |-> Value(run, n)]
    BY <1>4
  <2> QED BY <2>1
<1>6. \A n \in 0..N : run[n] = g[n]
  <2> DEFINE T == {n \in 0..N : run[n] # g[n]}
  <2>1. SUFFICES ASSUME T # {} PROVE FALSE
    OBVIOUS
  <2>2. PICK k \in T : \A j \in T : k <= j
    <3>1. T \in SUBSET Nat
      OBVIOUS
    <3> HIDE DEF T
    <3> QED BY <2>1, <3>1, Least
  <2>3. CASE k = 0
    BY <1>2, <1>5, <2>3
  <2>4. CASE k # 0
    <3>1. k \in 0..N /\ k - 1 \in 0..N
      BY <2>4
    <3>2. run[k - 1] = g[k - 1]
      BY <2>2, <3>1
    <3> QED BY <1>2, <1>5, <2>4, <3>1, <3>2
  <2> QED BY <2>3, <2>4
<1> QED BY <1>1, <1>6

\* The first c echoes.
Counted(c) == [k \in 1..c |-> Echo(k, k)]

\* How many inputs the first n records have taken.
TakenBy(n) == TakenBefore(n + 1)

\* A record of the log holds the echo of the input it took, if it took one.
EchoLogged(n) ==
    log[n][1].payload = IF log[n][0].payload = None THEN None
                        ELSE Echo(trace[n].taken, trace[n].taken)

EchoesLogged == \A n \in 1..Len(log) : EchoLogged(n)

LEMMA CountedNext ==
    ASSUME NEW c \in Nat
    PROVE  /\ Counted(c) \o <<>> = Counted(c)
           /\ Counted(c) \o <<Echo(c + 1, c + 1)>> = Counted(c + 1)
<1>1. Counted(c) \in Seq(Nat) /\ Len(Counted(c)) = c
  <2>1. \A k \in 1..c : Echo(k, k) \in Nat
    BY BoundAssumption DEF Echo, Width
  <2> QED BY <2>1 DEF Counted
<1>2. Echo(c + 1, c + 1) \in Nat
  BY BoundAssumption DEF Echo, Width
<1> DEFINE s == Counted(c) \o <<Echo(c + 1, c + 1)>>
<1>3. /\ s = [k \in 1..(c + 1) |-> s[k]]
      /\ \A k \in 1..c : s[k] = Counted(c)[k]
      /\ s[c + 1] = Echo(c + 1, c + 1)
  BY <1>1, <1>2
<1> HIDE DEF s
<1>4. ASSUME NEW k \in 1..(c + 1) PROVE s[k] = Echo(k, k)
  <2>1. CASE k \in 1..c
    BY <1>3, <2>1 DEF Counted
  <2>2. CASE k = c + 1
    BY <1>3, <2>2
  <2> QED BY <2>1, <2>2
<1>5. s = Counted(c + 1)
  BY <1>3, <1>4 DEF Counted
<1> QED BY <1>1, <1>5 DEF s

LEMMA EchoesLoggedStep ==
    ASSUME TypeInv, InputsInOrder, NumberInv, EchoesLogged, [Next]_vars
    PROVE  EchoesLogged'
<1>1. ASSUME NEW sends, NEW err, LogCopperlist(sends, err) PROVE EchoesLogged'
  <2>1. /\ Len(log') = Len(log) + 1 /\ Len(log) \in Nat
        /\ \A n \in 1..Len(log) : log'[n] = log[n] /\ trace'[n] = trace[n]
        /\ log'[Len(log) + 1] = slots /\ trace'[Len(log) + 1].taken = Taken
    BY <1>1, Logged DEF TypeInv, TypeOK
  <2>2. slots[1].payload = IF slots[0].payload = None THEN None ELSE Echo(Taken, Taken)
    BY <1>1 DEF LogCopperlist, NumberInv, SlotIs, InHand
  <2> SUFFICES ASSUME NEW n \in 1..(Len(log) + 1) PROVE EchoLogged(n)'
    BY <2>1 DEF EchoesLogged
  <2>3. CASE n \in 1..Len(log)
    BY <2>1, <2>3 DEF EchoesLogged, EchoLogged
  <2>4. CASE n = Len(log) + 1
    BY <2>1, <2>2, <2>4 DEF EchoLogged
  <2> QED BY <2>1, <2>3, <2>4
<1>2. CASE UNCHANGED <<log, trace>>
  BY <1>2 DEF EchoesLogged, EchoLogged
<1>3. CASE SendInput
  BY <1>2, <1>3 DEF SendInput, logVars
<1>4. CASE IngressOne \/ IngressNone
  BY <1>2, <1>4 DEF IngressOne, IngressNone, SetInput, logVars
<1> QED BY <1>1, <1>2, <1>3, <1>4, InboundStep DEF InboundQuiet

\* What one record adds.
LEMMA TakenOne ==
    ASSUME TypeInv, InputsInOrder, NEW n \in 1..Len(log)
    PROVE  /\ TakenBy(n) \in 0..Inputs /\ TakenBy(n - 1) \in 0..Inputs
           /\ TakenBy(n) = trace[n].taken
           /\ log[n][0].payload = None => TakenBy(n) = TakenBy(n - 1)
           /\ log[n][0].payload # None =>
                  TakenBy(n) = TakenBy(n - 1) + 1 /\ log[n][0].payload = TakenBy(n)
<1>1. /\ trace \in Seq(Origin) /\ Len(trace) = Len(log) /\ Len(log) \in Nat
  BY DEF TypeInv, TypeOK
<1>2. \A k \in 1..Len(log) : trace[k].taken \in 0..Inputs
  <2>1. \A k \in 1..Len(log) : trace[k] \in Origin
    BY <1>1
  <2>2. \A o \in Origin : o.taken \in 0..Inputs
    BY DEF Origin
  <2> QED BY <2>1, <2>2
<1>3. TakenBy(n) = trace[n].taken
  BY DEF TakenBy, TakenBefore
<1>4. TakenBy(n - 1) = TakenBefore(n)
  BY DEF TakenBy
<1>5. TakenBefore(n) \in 0..Inputs
  <2>1. n = 1 \/ n - 1 \in 1..Len(log)
    BY <1>1
  <2> QED BY <1>2, <2>1, BoundAssumption DEF TakenBefore
<1>6. TookOne(TakenBy(n - 1), TakenBy(n), log[n][0].payload)
  BY <1>3, <1>4 DEF InputsInOrder
<1>7. trace[n].taken # None
  BY <1>2, PayloadAssumption
<1> QED BY <1>2, <1>3, <1>4, <1>5, <1>6, <1>7 DEF TookOne

\* What replay and echo_outputs make of the first N records: the same.
LEMMA ReadIs ==
    ASSUME TypeInv, InputsInOrder, EchoesLogged, NEW N \in 0..Len(log), NEW read,
           read = SubSeq(log, 1, N)
    PROVE  /\ TakenBy(N) \in 0..Inputs
           /\ replay(read) = Counted(TakenBy(N)) /\ echo_outputs(read) = Counted(TakenBy(N))
<1>1. /\ log \in Seq([0..Stages -> Slot]) /\ Len(log) \in Nat /\ Inputs \in Nat
      /\ N \in Nat /\ N <= Len(log)
  BY BoundAssumption DEF TypeInv, TypeOK
<1>2. Len(read) = N /\ \A n \in 1..N : read[n] = log[n]
  BY <1>1
<1>3. TakenBy(0) = 0 /\ Counted(0) = <<>>
  BY DEF TakenBy, TakenBefore, Counted
<1>4. ASSUME NEW n \in 1..N
      PROVE  /\ TakenBy(n - 1) \in 0..Inputs /\ TakenBy(n) \in 0..Inputs
             /\ Follows(EchoStep(1, TakenBy(n - 1), Recorded(read[n][0])), Counted(TakenBy(n - 1)))
                   = [state |-> TakenBy(n), outs |-> Counted(TakenBy(n))]
             /\ Counted(TakenBy(n - 1)) \o Held(read[n][1].payload) = Counted(TakenBy(n))
  <2>1. n \in 1..Len(log) /\ read[n] = log[n]
    BY <1>1, <1>2
  <2>2. /\ TakenBy(n) \in 0..Inputs /\ TakenBy(n - 1) \in 0..Inputs
        /\ TakenBy(n) = trace[n].taken
    BY <2>1, TakenOne
  <2>3. EchoLogged(n)
    BY <2>1 DEF EchoesLogged
  <2>4. CASE log[n][0].payload = None
    <3>1. TakenBy(n) = TakenBy(n - 1)
      BY <2>1, <2>4, TakenOne
    <3>2. Recorded(read[n][0]).msg = None
      BY <2>1, <2>4 DEF Recorded, TickAt
    <3>3. Held(read[n][1].payload) = <<>>
      BY <2>1, <2>3, <2>4 DEF Held, EchoLogged
    <3>4. TakenBy(n - 1) \in Nat
      BY <1>1, <2>2
    <3>5. Counted(TakenBy(n - 1)) \o <<>> = Counted(TakenBy(n))
      BY <3>1, <3>4, CountedNext
    <3>6. Follows(EchoStep(1, TakenBy(n - 1), Recorded(read[n][0])), Counted(TakenBy(n - 1)))
             = Follows([state |-> TakenBy(n - 1), outs |-> <<>>], Counted(TakenBy(n - 1)))
      BY <3>2 DEF EchoStep
    <3>7. Follows([state |-> TakenBy(n - 1), outs |-> <<>>], Counted(TakenBy(n - 1)))
             = [state |-> TakenBy(n), outs |-> Counted(TakenBy(n))]
      BY <3>1, <3>5, FollowsIs, ZenonT(30)
    <3> QED BY <2>2, <3>3, <3>5, <3>6, <3>7
  <2>5. CASE log[n][0].payload # None
    <3>1. TakenBy(n) = TakenBy(n - 1) + 1 /\ log[n][0].payload = TakenBy(n)
      BY <2>1, <2>5, TakenOne
    <3>2. Recorded(read[n][0]).msg = TakenBy(n) /\ TakenBy(n) # None
      BY <2>1, <2>5, <3>1 DEF Recorded, Message
    <3>3. Bumped(TakenBy(n - 1)) = TakenBy(n)
      <4>1. ASSUME NEW c \in Nat, c < Inputs PROVE (c + 1) % (Inputs + 1) = c + 1
        BY <1>1, <4>1
      <4> QED BY <1>1, <2>2, <3>1, <4>1 DEF Bumped, Width
    <3>4. Held(read[n][1].payload) = <<Echo(TakenBy(n), TakenBy(n))>>
      <4>1. log[n][1].payload = Echo(TakenBy(n), TakenBy(n))
        BY <2>2, <2>3, <2>5 DEF EchoLogged
      <4>2. Echo(TakenBy(n), TakenBy(n)) \in Nat
        BY <1>1, <2>2 DEF Echo, Width
      <4> QED BY <2>1, <4>1, <4>2, PayloadAssumption DEF Held
    <3>5. Counted(TakenBy(n - 1)) \o <<Echo(TakenBy(n), TakenBy(n))>> = Counted(TakenBy(n))
      <4>1. TakenBy(n - 1) \in Nat
        BY <1>1, <2>2
      <4> QED BY <3>1, <4>1, CountedNext
    <3>6. Follows(EchoStep(1, TakenBy(n - 1), Recorded(read[n][0])), Counted(TakenBy(n - 1)))
             = Follows([state |-> TakenBy(n), outs |-> <<Echo(TakenBy(n), TakenBy(n))>>],
                       Counted(TakenBy(n - 1)))
      BY <3>2, <3>3 DEF EchoStep
    <3>7. Follows([state |-> TakenBy(n), outs |-> <<Echo(TakenBy(n), TakenBy(n))>>],
                  Counted(TakenBy(n - 1)))
             = [state |-> TakenBy(n), outs |-> Counted(TakenBy(n))]
      BY <3>5, FollowsIs
    <3> QED BY <2>2, <3>4, <3>5, <3>6, <3>7
  <2> QED BY <2>4, <2>5
<1>5. TakenBy(N) \in 0..Inputs
  <2>1. N = 0 \/ N \in 1..Len(log)
    BY <1>1
  <2>2. 0 \in 0..Inputs
    BY <1>1
  <2> QED BY <1>3, <2>1, <2>2, TakenOne
<1>6. replay(read) = Counted(TakenBy(N))
  <2> DEFINE g == [n \in 0..N |-> [state |-> TakenBy(n), outs |-> Counted(TakenBy(n))]]
  <2>1. \A n \in 0..N : g[n].state = TakenBy(n) /\ g[n].outs = Counted(TakenBy(n))
                        /\ g[n] = [state |-> TakenBy(n), outs |-> Counted(TakenBy(n))]
    OBVIOUS
  <2> HIDE DEF g
  <2>2. ASSUME NEW n \in 0..N
        PROVE  g[n] = IF n = 0 THEN [state |-> 0, outs |-> <<>>]
                      ELSE Follows(EchoStep(1, g[n - 1].state, Recorded(read[n][0])),
                                   g[n - 1].outs)
    <3>1. CASE n = 0
      BY <1>3, <2>1, <3>1
    <3>2. CASE n # 0
      <4>1. n \in 1..N /\ n - 1 \in 0..N
        BY <1>1, <3>2
      <4>2. g[n - 1].state = TakenBy(n - 1) /\ g[n - 1].outs = Counted(TakenBy(n - 1))
        BY <2>1, <4>1
      <4>3. g[n] = [state |-> TakenBy(n), outs |-> Counted(TakenBy(n))]
        BY <2>1
      <4> QED BY <1>4, <3>2, <4>1, <4>2, <4>3, Zenon
    <3> QED BY <3>1, <3>2
  <2>3. replay(read) = g[N].outs
    <3>1. /\ N \in Nat /\ Len(read) = N
          /\ \A n \in 0..N :
                g[n] = IF n = 0 THEN [state |-> 0, outs |-> <<>>]
                       ELSE Follows(EchoStep(1, g[n - 1].state, Recorded(read[n][0])),
                                    g[n - 1].outs)
      BY <1>1, <1>2, <2>2
    <3> QED BY ONLY <3>1, ReplayIs
  <2>4. N \in 0..N
    BY <1>1
  <2> QED BY <2>1, <2>3, <2>4
<1>7. echo_outputs(read) = Counted(TakenBy(N))
  <2> DEFINE g == [n \in 0..N |-> Counted(TakenBy(n))]
  <2>1. \A n \in 0..N : g[n] = Counted(TakenBy(n))
    OBVIOUS
  <2> HIDE DEF g
  <2>2. ASSUME NEW n \in 0..N
        PROVE  g[n] = IF n = 0 THEN <<>> ELSE g[n - 1] \o Held(read[n][1].payload)
    <3>1. CASE n = 0
      BY <1>3, <2>1, <3>1
    <3>2. CASE n # 0
      <4>1. n \in 1..N /\ n - 1 \in 0..N
        BY <1>1, <3>2
      <4> QED BY <1>4, <2>1, <3>2, <4>1
    <3> QED BY <3>1, <3>2
  <2>3. echo_outputs(read) = g[N]
    <3>1. /\ N \in Nat /\ Len(read) = N
          /\ \A n \in 0..N :
                g[n] = IF n = 0 THEN <<>> ELSE g[n - 1] \o Held(read[n][1].payload)
      BY <1>1, <1>2, <2>2
    <3> QED BY ONLY <3>1, OutputsAre
  <2>4. N \in 0..N
    BY <1>1
  <2> QED BY <2>1, <2>3, <2>4
<1> QED BY <1>5, <1>6, <1>7

\* No input is ever given back.
LEMMA TakenGrows ==
    ASSUME TypeInv, InputsInOrder, NEW m \in 0..Len(log)
    PROVE  /\ \A n \in m..Len(log) : TakenBy(m) <= TakenBy(n)
           /\ (\A n \in (m + 1)..Len(log) : log[n][0].payload = None)
                  => \A n \in m..Len(log) : TakenBy(n) = TakenBy(m)
<1>1. Len(log) \in Nat /\ Inputs \in Nat /\ m \in Nat
  BY BoundAssumption DEF TypeInv, TypeOK
<1>2. ASSUME NEW n \in (m + 1)..Len(log)
      PROVE  /\ n - 1 \in m..Len(log) /\ TakenBy(n - 1) \in Nat /\ TakenBy(n) \in Nat
             /\ TakenBy(n - 1) <= TakenBy(n)
             /\ log[n][0].payload = None => TakenBy(n) = TakenBy(n - 1)
  <2>1. n \in 1..Len(log)
    BY <1>1
  <2> QED BY <1>1, <2>1, TakenOne
<1>3. TakenBy(m) \in Nat
  <2>1. m = 0 \/ m \in 1..Len(log)
    BY <1>1
  <2>2. TakenBy(0) = 0
    BY DEF TakenBy, TakenBefore
  <2>3. m \in 1..Len(log) => TakenBy(m) \in 0..Inputs
    BY TakenOne
  <2> QED BY <1>1, <2>1, <2>2, <2>3
<1>4. \A n \in m..Len(log) : TakenBy(n) \in Nat /\ TakenBy(m) <= TakenBy(n)
  <2> DEFINE T == {n \in m..Len(log) : ~(TakenBy(n) \in Nat /\ TakenBy(m) <= TakenBy(n))}
  <2>1. SUFFICES ASSUME T # {} PROVE FALSE
    OBVIOUS
  <2>2. PICK k \in T : \A j \in T : k <= j
    <3>1. T \in SUBSET Nat
      BY <1>1
    <3> HIDE DEF T
    <3> QED BY <2>1, <3>1, Least
  <2>3. k \in m..Len(log) /\ k # m
    BY <1>3
  <2>4. k \in (m + 1)..Len(log) /\ k - 1 \notin T /\ k - 1 \in m..Len(log)
    <3> HIDE DEF T
    <3> QED BY <1>1, <2>2, <2>3
  <2>5. TakenBy(m) <= TakenBy(k - 1)
    BY <2>4
  <2> QED BY <1>2, <1>3, <2>4, <2>5
<1>5. ASSUME \A n \in (m + 1)..Len(log) : log[n][0].payload = None
      PROVE  \A n \in m..Len(log) : TakenBy(n) = TakenBy(m)
  <2> DEFINE T == {n \in m..Len(log) : TakenBy(n) # TakenBy(m)}
  <2>1. SUFFICES ASSUME T # {} PROVE FALSE
    OBVIOUS
  <2>2. PICK k \in T : \A j \in T : k <= j
    <3>1. T \in SUBSET Nat
      BY <1>1
    <3> HIDE DEF T
    <3> QED BY <2>1, <3>1, Least
  <2>3. k \in m..Len(log) /\ k # m
    OBVIOUS
  <2>4. k \in (m + 1)..Len(log) /\ k - 1 \notin T /\ k - 1 \in m..Len(log)
    <3> HIDE DEF T
    <3> QED BY <1>1, <2>2, <2>3
  <2>5. TakenBy(k - 1) = TakenBy(m)
    BY <2>4
  <2> QED BY <1>2, <1>5, <2>4, <2>5
<1> QED BY <1>4, <1>5

LEMMA LostIsNoticed ==
    ASSUME TypeInv, InputsInOrder, EchoesInOrder, NumberInv, EchoesLogged, pc = "joined",
           NEW damaged \in 1..(Len(log) + 1)
    PROVE  /\ main(damaged) # "replay diverged"
           /\ main(damaged) = "OK" <=>
                 /\ Len(live) = Inputs
                 /\ \A n \in damaged..Len(log) : log[n][1].payload = None
<1> DEFINE N == damaged - 1
           read == read_recorded(damaged)
<1>1. Len(log) \in Nat /\ Inputs \in Nat /\ N \in 0..Len(log) /\ damaged = N + 1
  BY BoundAssumption DEF TypeInv, TypeOK
<1>2. /\ TakenBy(N) \in 0..Inputs
      /\ replay(read) = Counted(TakenBy(N)) /\ echo_outputs(read) = Counted(TakenBy(N))
  BY <1>1, ReadIs DEF read_recorded
<1> HIDE DEF read
<1>3. main(damaged) =
         IF Len(live) # Inputs THEN "live run did not echo every input"
         ELSE IF Counted(TakenBy(N)) = live THEN "OK" ELSE "FAILED"
  <2>1. CASE Len(live) # Inputs
    BY <1>2, <2>1 DEF main, read
  <2>2. CASE Len(live) = Inputs
    BY <1>2, <2>2 DEF main, read
  <2> QED BY <2>1, <2>2
<1>4. ASSUME Len(live) = Inputs
      PROVE  Counted(TakenBy(N)) = live <=> TakenBy(N) = Inputs
  <2>1. live \in Seq(Payload)
    BY EchoTypes
  <2>2. live = Counted(Inputs)
    <3>1. ASSUME NEW k \in 1..Len(live) PROVE live[k] = Echo(k, k)
      <4>1. live[k] = egressed[k] /\ k \in 1..Len(egressed)
        BY LiveIsEgressed, EchoTypes
      <4> QED BY <4>1 DEF NumberInv, EgressedIs
    <3>2. live = [k \in 1..Inputs |-> live[k]]
      BY <1>4, <2>1
    <3> QED BY <1>4, <3>1, <3>2 DEF Counted
  <2>3. Counted(TakenBy(N)) = live => TakenBy(N) = Inputs
    <3>1. ASSUME NEW c \in Nat PROVE Len(Counted(c)) = c
      <4>1. Counted(c) = [k \in 1..c |-> Counted(c)[k]]
        BY DEF Counted
      <4> QED BY <4>1
    <3> QED BY <1>1, <1>2, <1>4, <3>1
  <2> QED BY <2>2, <2>3
<1>5. ASSUME NEW n \in (N + 1)..Len(log)
      PROVE  log[n][1].payload = None <=> log[n][0].payload = None
  <2>1. n \in 1..Len(log) /\ EchoLogged(n)
    BY <1>1 DEF EchoesLogged
  <2>2. trace[n].taken \in Nat
    BY <1>1, <2>1, TakenOne
  <2>3. Echo(trace[n].taken, trace[n].taken) # None
    BY <1>1, <2>2, PayloadAssumption DEF Echo, Width
  <2> QED BY <2>1, <2>3 DEF EchoLogged
<1>6. ASSUME TakenBy(N) = Inputs, NEW n \in (N + 1)..Len(log)
      PROVE  log[n][0].payload = None
  <2>1. n \in 1..Len(log) /\ n \in N..Len(log) /\ n - 1 \in N..Len(log)
    BY <1>1
  <2>2. Inputs <= TakenBy(n - 1) /\ Inputs <= TakenBy(n)
    BY <1>1, <1>6, <2>1, TakenGrows
  <2> QED BY <1>1, <2>1, <2>2, TakenOne
<1>7. ASSUME Len(live) = Inputs, \A n \in (N + 1)..Len(log) : log[n][0].payload = None
      PROVE  TakenBy(N) = Inputs
  <2>1. TakenBy(Len(log)) = TakenBy(N)
    <3>1. Len(log) \in N..Len(log)
      BY <1>1
    <3> QED BY <1>1, <1>7, <3>1, TakenGrows
  <2>2. Taken = TakenBy(Len(log))
    BY DEF InputsInOrder, TakenBy
  <2>3. Len(live) <= Len(egressed) /\ Len(egressed) <= Taken
    BY LiveIsEgressed DEF NumberInv, EgressedIs
  <2>4. Len(egressed) \in Nat /\ Taken \in 0..Inputs
    BY EchoFacts
  <2> QED BY <1>1, <1>7, <2>1, <2>2, <2>3, <2>4
<1> QED BY <1>1, <1>3, <1>4, <1>5, <1>6, <1>7

\* Wherever the log breaks off, main never finds that the replay diverged from what was
\* read, and says OK exactly if every input was echoed and no echo was in the rest.
THEOREM LostEchoesNoticed == Spec => []GateNoticesLostEchoes
<1>1. Init => EchoesLogged
  <2> SUFFICES ASSUME Init PROVE EchoesLogged
    OBVIOUS
  <2>1. Len(log) = 0
    BY DEF Init
  <2> QED BY <2>1 DEF EchoesLogged
<1>2. TypeInv /\ InputsInOrder /\ NumberInv /\ EchoesLogged /\ [Next]_vars => EchoesLogged'
  BY EchoesLoggedStep
<1>3. TypeInv /\ InputsInOrder /\ EchoesInOrder /\ NumberInv /\ EchoesLogged
        => GateNoticesLostEchoes
  BY LostIsNoticed DEF GateNoticesLostEchoes
<1> QED BY <1>1, <1>2, <1>3, NumberCorrect, PTL DEF Spec
=============================================================================
