------------------------ MODULE MessageBridgeProofs ------------------------
(***************************************************************************)
(* Proofs about the inbound half of MessageBridge, for every value of its  *)
(* constants: types, the order of the inputs, ticks and replay.            *)
(***************************************************************************)
EXTENDS MessageBridge, SequenceTheorems, TLAPS

-----------------------------------------------------------------------------
(***************************************************************************)
(* Type correctness.                                                       *)
(***************************************************************************)
InIteration == pc \in {"ingress", "stamp", "fsm", "stampout", "egress"}

\* What TypeOK needs to be inductive: no more is queued than was sent, an iteration
\* is one of those to be made, and ingress hands on nothing but inputs, also in the
\* copperlists that were used before.
LoggedInputs == \A n \in 1..Len(log) : log[n][0].payload \in 1..Inputs \cup {None}

TypeInv ==
    /\ TypeOK /\ LoggedInputs
    /\ Len(inq) <= nsent /\ Len(sentAt) = nsent
    /\ InIteration => Len(log) < Iterations
    /\ slots[0].payload \in 1..Inputs \cup {None}

\* A slot is well typed exactly when its payload and its tov are.
LEMMA SlotType ==
    ASSUME NEW slot \in Slot
    PROVE  slot.payload \in Payload \cup {None} /\ slot.tov \in (0..MaxClock) \cup {None}
BY DEF Slot

\* Setting the payload of a slot changes nothing else on the copperlist.
LEMMA SetPayload ==
    ASSUME TypeInv, NEW k \in 0..Stages, NEW payload \in Payload \cup {None},
           slots' = [slots EXCEPT ![k].payload = payload]
    PROVE  /\ slots' \in [0..Stages -> Slot]
           /\ slots'[k].payload = payload /\ slots'[k].tov = slots[k].tov
           /\ \A j \in 0..Stages : j # k => slots'[j] = slots[j]
<1> DEFINE slot == [slots[k] EXCEPT !.payload = payload]
<1>1. slots \in [0..Stages -> Slot] /\ slots[k] \in Slot
  BY DEF TypeInv, TypeOK
<1>2. slot \in Slot /\ slot.payload = payload /\ slot.tov = slots[k].tov
  BY <1>1 DEF Slot
<1>3. slots' = [slots EXCEPT ![k] = slot]
  OBVIOUS
<1> HIDE DEF slot
<1> QED BY <1>1, <1>2, <1>3

\* So does stamping it.
LEMMA SetTov ==
    ASSUME TypeInv, NEW k \in 0..Stages, slots' = [slots EXCEPT ![k].tov = clock]
    PROVE  /\ slots' \in [0..Stages -> Slot]
           /\ slots'[k].payload = slots[k].payload /\ slots'[k].tov = clock
           /\ \A j \in 0..Stages : j # k => slots'[j] = slots[j]
<1> DEFINE slot == [slots[k] EXCEPT !.tov = clock]
<1>1. slots \in [0..Stages -> Slot] /\ slots[k] \in Slot /\ clock \in 0..MaxClock
  BY DEF TypeInv, TypeOK
<1>2. slot \in Slot /\ slot.payload = slots[k].payload /\ slot.tov = clock
  BY <1>1 DEF Slot
<1>3. slots' = [slots EXCEPT ![k] = slot]
  OBVIOUS
<1> HIDE DEF slot
<1> QED BY <1>1, <1>2, <1>3

\* What ingress, its stamp, a machine and its stamp do to the copperlist.
LEMMA IngressSlots ==
    ASSUME TypeInv, NEW payload \in 1..Inputs \cup {None}, NEW q, SetInput(payload, q)
    PROVE  /\ slots' \in [0..Stages -> Slot] /\ slots'[0].payload = payload
           /\ \A j \in 1..Stages : slots'[j] = slots[j]
<1>1. payload \in Payload \cup {None} /\ 0 \in 0..Stages
  BY PayloadAssumption, StagesAssumption
<1>2. slots' = [slots EXCEPT ![0].payload = payload]
  BY DEF SetInput
<1> HIDE DEF SetInput
<1>3. /\ slots' \in [0..Stages -> Slot] /\ slots'[0].payload = payload
      /\ \A j \in 0..Stages : j # 0 => slots'[j] = slots[j]
  BY <1>1, <1>2, SetPayload, Zenon
<1> QED BY <1>3, StagesAssumption

LEMMA IngressStampSlots ==
    ASSUME TypeInv, IngressStamp
    PROVE  /\ slots' \in [0..Stages -> Slot]
           /\ slots'[0].payload = slots[0].payload /\ slots'[0].tov = clock
           /\ \A j \in 1..Stages : slots'[j] = slots[j]
<1>1. 0 \in 0..Stages
  BY StagesAssumption
<1>2. slots' = [slots EXCEPT ![0].tov = clock]
  BY DEF IngressStamp
<1>3. /\ slots' \in [0..Stages -> Slot]
      /\ slots'[0].payload = slots[0].payload /\ slots'[0].tov = clock
      /\ \A j \in 0..Stages : j # 0 => slots'[j] = slots[j]
  BY <1>1, <1>2, SetTov, Zenon
<1> QED BY <1>3, StagesAssumption

LEMMA MachineSlots ==
    ASSUME TypeInv, NEW payload \in Payload \cup {None}, RunMachine(payload)
    PROVE  /\ slots' \in [0..Stages -> Slot]
           /\ slots'[stage].payload = payload /\ slots'[stage].tov = slots[stage].tov
           /\ \A j \in 0..Stages : j # stage => slots'[j] = slots[j]
<1>1. stage \in 0..Stages
  BY StagesAssumption DEF TypeInv, TypeOK
<1>2. slots' = [slots EXCEPT ![stage].payload = payload]
  BY DEF RunMachine
<1> QED BY <1>1, <1>2, SetPayload, Zenon

LEMMA FsmStampSlots ==
    ASSUME TypeInv, FsmStamp
    PROVE  /\ slots' \in [0..Stages -> Slot]
           /\ slots'[stage].payload = slots[stage].payload /\ slots'[stage].tov = clock
           /\ \A j \in 0..Stages : j # stage => slots'[j] = slots[j]
<1>1. stage \in 0..Stages
  BY StagesAssumption DEF TypeInv, TypeOK
<1>2. slots' = [slots EXCEPT ![stage].tov = clock]
  BY DEF FsmStamp
<1> QED BY <1>1, <1>2, SetTov, Zenon

\* The trigger of the task that runs is one that its machine may be given.
LEMMA TriggerType ==
    ASSUME TypeInv
    PROVE  trigger_for(slots[stage - 1], clock) \in Triggers(stage)
<1> USE DEF TypeInv, TypeOK
<1>1. stage - 1 \in 0..Stages
  BY StagesAssumption
<1>2. slots[stage - 1] \in Slot
  BY <1>1
<1> DEFINE input == slots[stage - 1]
<1>3. CASE input.payload # None
  <2>1. input.payload \in Payload
    BY <1>2, <1>3, SlotType
  <2>2. stage = 1 => input.payload \in 1..Inputs
    BY <1>3
  <2>3. input.payload \in IF stage = 1 THEN 1..Inputs ELSE Payload
    BY <2>1, <2>2
  <2>4. trigger_for(input, clock) = Message(input.payload)
    BY <1>3 DEF trigger_for
  <2> QED BY <2>3, <2>4 DEF Triggers
<1>4. CASE input.payload = None
  <2>1. (IF input.tov # None THEN input.tov ELSE clock) \in 0..MaxClock
    BY <1>2, SlotType
  <2>2. trigger_for(input, clock) = TickAt(IF input.tov # None THEN input.tov ELSE clock)
    BY <1>4 DEF trigger_for
  <2> QED BY <2>1, <2>2 DEF Triggers
<1> QED BY <1>3, <1>4

\* What the machine that runs does has its type.
LEMMA StepType ==
    ASSUME TypeInv
    PROVE  Step.state \in MState /\ Step.outs \in Seq(Payload)
<1>1. stage \in 1..Stages /\ machines[stage] \in MState
  BY DEF TypeInv, TypeOK
<1> QED BY <1>1, TriggerType, MachineAssumption DEF Step

-----------------------------------------------------------------------------
(***************************************************************************)
(* What a step does to the log and to the inputs.                          *)
(***************************************************************************)
\* Writing a copperlist adds one record and leaves the others alone.
LEMMA Logged ==
    ASSUME TypeInv, NEW sends, NEW err, LogCopperlist(sends, err)
    PROVE  /\ Len(log') = Len(log) + 1
           /\ \A n \in 1..Len(log) : log'[n] = log[n] /\ trace'[n] = trace[n]
           /\ log'[Len(log) + 1] = slots
           /\ trace'[Len(log) + 1].steps = steps /\ trace'[Len(log) + 1].err = err
           /\ trace'[Len(log) + 1].taken = Taken
           /\ trace'[Len(log) + 1].sent = Len(egressed')
           /\ trace'[Len(log) + 1].given = Given \o Held(Output)
<1> DEFINE origin == [steps |-> steps, err |-> err, taken |-> Taken, sent |-> Len(egressed'),
                      given |-> Given \o Held(Output)]
<1>1. log \in Seq([0..Stages -> Slot]) /\ trace \in Seq(Origin) /\ Len(trace) = Len(log)
  BY DEF TypeInv, TypeOK
<1>2. log' = Append(log, slots) /\ trace' = Append(trace, origin)
  BY DEF LogCopperlist
<1> HIDE DEF origin
<1>3. /\ Len(log') = Len(log) + 1 /\ log'[Len(log) + 1] = slots
      /\ \A n \in 1..Len(log) : log'[n] = log[n]
  BY <1>1, <1>2
<1>4. /\ trace'[Len(log) + 1] = origin
      /\ \A n \in 1..Len(log) : trace'[n] = trace[n]
  BY <1>1, <1>2
<1> QED BY <1>3, <1>4 DEF origin

\* Ingress has run in this iteration.
Ingested == pc \in {"stamp", "fsm", "stampout", "egress", "panicked"}

\* No input is sent or taken, and nothing is logged.
InboundQuiet ==
    /\ UNCHANGED <<nsent, sentAt, inq, log, trace>>
    /\ Ingested' <=> Ingested
    /\ Ingested => slots'[0].payload = slots[0].payload

\* The steps that matter to the inbound half.
LEMMA InboundStep ==
    ASSUME TypeInv, [Next]_vars
    PROVE  \/ SendInput \/ IngressOne \/ IngressNone
           \/ \E sends, err : LogCopperlist(sends, err)
           \/ InboundQuiet
<1> USE DEF transportVars, cuVars, machineVars, logVars, InboundQuiet, Ingested
<1>1. CASE Tick
  BY <1>1 DEF Tick
<1>2. ASSUME NEW result, Return(result) PROVE InboundQuiet
  BY <1>2 DEF Return
<1>3. CASE ReceiveEcho
  BY <1>3 DEF ReceiveEcho
<1>4. CASE StartIteration
  BY <1>4 DEF StartIteration
<1>5. CASE IngressStamp
  BY <1>5, IngressStampSlots DEF IngressStamp
<1>6. ASSUME NEW payload \in Payload \cup {None}, RunMachine(payload), pc = "fsm",
             pc' \in {"fsm", "stampout", "egress", "panicked"}
      PROVE  InboundQuiet
  <2>1. stage # 0 /\ 0 \in 0..Stages
    BY StagesAssumption DEF TypeInv, TypeOK
  <2>2. slots'[0] = slots[0]
    BY <1>6, <2>1, MachineSlots
  <2> QED BY <1>6, <2>2 DEF RunMachine
<1>7. CASE FsmSome
  <2>1. Step.outs \in Seq(Payload) /\ Len(Step.outs) = 1
    BY <1>7, StepType DEF FsmSome
  <2>2. Head(Step.outs) \in Payload
    BY <2>1, HeadTailProperties
  <2> QED BY <1>6, <1>7, <2>2 DEF FsmSome
<1>8. Advance => pc' \in {"fsm", "egress"}
  BY DEF Advance
<1>9. CASE FsmNone
  BY <1>6, <1>8, <1>9 DEF FsmNone
<1>10. CASE FsmExtraIgnored
  BY <1>6, <1>8, <1>10 DEF FsmExtraIgnored, FsmExtra
<1>11. CASE FsmExtraPanics
  BY <1>6, <1>11 DEF FsmExtraPanics, FsmExtra
<1>12. CASE FsmStamp
  <2>1. stage # 0 /\ 0 \in 0..Stages
    BY StagesAssumption DEF TypeInv, TypeOK
  <2>2. slots'[0] = slots[0]
    BY <1>12, <2>1, FsmStampSlots
  <2> QED BY <1>8, <1>12, <2>2 DEF FsmStamp
<1>13. CASE EgressErrPanics
  BY <1>13 DEF EgressErrPanics
<1>14. ASSUME NEW from \in {"idle", "collect", "join"}, NEW to \in {"collect", "join", "joined"},
              Goto(from, to)
       PROVE  InboundQuiet
  BY <1>14 DEF Goto
<1>15. CASE Collect
  BY <1>15 DEF Collect
<1>16. CASE UNCHANGED vars
  BY <1>16 DEF vars
<1> QED
  BY <1>1, <1>2, <1>3, <1>4, <1>5, <1>7, <1>9, <1>10, <1>11, <1>12, <1>13, <1>14, <1>15, <1>16
  DEF Next, Transport, SendRefused, ReceiveFails, ReceivedAll, Main, Stop, CollectFails,
      Collected, Join, Terminated, EgressOne, EgressNone, EgressErrIgnored

\* What ingress has logged keeps its type.
LEMMA LoggedInputsStep ==
    ASSUME TypeInv, [Next]_vars
    PROVE  LoggedInputs'
<1>1. LoggedInputs /\ slots[0].payload \in 1..Inputs \cup {None} /\ Len(log) \in Nat
  BY DEF TypeInv, TypeOK
<1>2. CASE log' = log
  BY <1>1, <1>2 DEF LoggedInputs
<1>3. ASSUME NEW sends, NEW err, LogCopperlist(sends, err) PROVE LoggedInputs'
  <2>1. /\ Len(log') = Len(log) + 1 /\ log'[Len(log) + 1] = slots
        /\ \A n \in 1..Len(log) : log'[n] = log[n]
    BY <1>3, Logged
  <2>2. \A n \in 1..Len(log') : n \in 1..Len(log) \/ n = Len(log) + 1
    BY <1>1, <2>1
  <2> QED BY <1>1, <2>1, <2>2 DEF LoggedInputs
<1>4. SendInput \/ IngressOne \/ IngressNone \/ InboundQuiet => log' = log
  BY DEF SendInput, IngressOne, IngressNone, SetInput, InboundQuiet, logVars
<1> QED BY <1>2, <1>3, <1>4, InboundStep

-----------------------------------------------------------------------------
(***************************************************************************)
(* The type invariant.                                                     *)
(***************************************************************************)
LEMMA TypeInit == Init => TypeInv
<1> SUFFICES ASSUME Init PROVE TypeInv
  OBVIOUS
<1> USE StagesAssumption, BoundAssumption DEF Init
<1>1. \A S : <<>> \in Seq(S)
  OBVIOUS
<1>2. Len(<<>>) = 0
  OBVIOUS
<1>3. Empty \in Slot /\ Empty.payload = None
  BY DEF Slot, Empty
<1>4. slots \in [0..Stages -> Slot] /\ slots[0].payload = None
  BY <1>3
<1>5. NoStep \in StepRecord
  BY <1>1, MachineAssumption DEF NoStep, StepRecord
<1>6. machines \in [1..Stages -> MState] /\ steps \in [1..Stages -> StepRecord]
  BY <1>5, MachineAssumption
<1>7. 0 \in 0..MaxClock /\ 0 \in 0..Inputs /\ stage \in 1..Stages /\ Iterations \in Nat
  BY DEF Iterations
<1>8. TypeOK
  BY <1>1, <1>2, <1>4, <1>6, <1>7 DEF TypeOK
<1> QED BY <1>2, <1>4, <1>8 DEF TypeInv, LoggedInputs, InIteration

LEMMA TypeStep == TypeInv /\ [Next]_vars => TypeInv'
<1> SUFFICES ASSUME TypeInv, [Next]_vars PROVE TypeInv'
  OBVIOUS
<1> USE StagesAssumption, BoundAssumption
        DEF TypeInv, TypeOK, InIteration, transportVars, cuVars, machineVars, logVars
<1>0. Iterations \in Nat
  BY DEF Iterations
<1>0a. LoggedInputs'
  BY LoggedInputsStep
<1> USE <1>0a
<1>1. CASE Tick
  BY <1>1 DEF Tick
<1>2. CASE SendInput
  <2> USE <1>2 DEF SendInput, Sending
  <2>1. nsent + 1 \in 1..Inputs /\ Len(log) \in 0..Iterations
    BY <1>0
  <2>2. /\ sentAt' \in Seq(0..Iterations) /\ Len(sentAt') = Len(sentAt) + 1
        /\ inq' \in Seq(1..Inputs) /\ Len(inq') = Len(inq) + 1
    <3>1. /\ sentAt \in Seq(0..Iterations) /\ sentAt' = Append(sentAt, Len(log))
          /\ inq \in Seq(1..Inputs) /\ inq' = Append(inq, nsent + 1)
      OBVIOUS
    <3> QED BY ONLY <2>1, <3>1
  <2> QED BY <2>1, <2>2, SMTT(30)
<1>3. ASSUME NEW result \in {"ok", "err"}, Return(result) PROVE TypeInv'
  BY <1>3, SMTT(30) DEF Return
<1>4. CASE ReceiveEcho
  <2> USE <1>4 DEF ReceiveEcho, Receiving
  <2>1. Head(outq) \in Payload /\ outq' \in Seq(Payload)
    BY HeadTailProperties
  <2>2. results' \in Seq(Payload) /\ Len(results') = Len(results) + 1
    BY <2>1
  <2> QED BY <2>1, <2>2, SMTT(30)
<1>5. CASE StartIteration
  <2>1. Empty \in Slot /\ Empty.payload = None
    BY DEF Slot, Empty
  <2>2. \/ slots' = [i \in 0..Stages |-> Empty]
        \/ \E n \in 1..Len(log) : slots' = log[n]
    BY <1>5 DEF StartIteration
  <2>3. \A n \in 1..Len(log) :
           log[n] \in [0..Stages -> Slot] /\ log[n][0].payload \in 1..Inputs \cup {None}
    <3>1. log \in Seq([0..Stages -> Slot]) /\ LoggedInputs
      OBVIOUS
    <3>2. \A n \in 1..Len(log) : log[n] \in [0..Stages -> Slot]
      BY ONLY <3>1
    <3> QED BY ONLY <3>1, <3>2 DEF LoggedInputs
  <2>4. slots' \in [0..Stages -> Slot] /\ slots'[0].payload \in 1..Inputs \cup {None}
    BY <2>1, <2>2, <2>3
  <2> QED BY <1>5, <2>4 DEF StartIteration
<1>6. ASSUME NEW payload \in 1..Inputs \cup {None}, NEW q \in Seq(1..Inputs), Len(q) <= Len(inq),
             SetInput(payload, q)
      PROVE  TypeInv'
  <2>1. slots' \in [0..Stages -> Slot] /\ slots'[0].payload = payload
    BY <1>6, IngressSlots
  <2> QED BY <1>6, <2>1, SMTT(30) DEF SetInput
<1>7. CASE IngressOne
  <2>1. Head(inq) \in 1..Inputs /\ Tail(inq) \in Seq(1..Inputs) /\ Len(Tail(inq)) <= Len(inq)
    <3>1. inq # <<>> /\ inq \in Seq(1..Inputs)
      BY <1>7 DEF IngressOne
    <3>2. /\ Len(Tail(inq)) = Len(inq) - 1 /\ Tail(inq) \in Seq(1..Inputs)
          /\ Head(inq) \in 1..Inputs
      BY ONLY <3>1, HeadTailProperties
    <3>3. Len(inq) \in Nat
      BY ONLY <3>1
    <3> QED BY ONLY <3>2, <3>3
  <2> QED BY <1>6, <1>7, <2>1 DEF IngressOne
<1>8. CASE IngressNone
  <2>1. inq \in Seq(1..Inputs) /\ Len(inq) <= Len(inq)
    OBVIOUS
  <2> QED BY <1>6, <1>8, <2>1 DEF IngressNone
<1>9. CASE IngressStamp
  <2>1. slots' \in [0..Stages -> Slot] /\ slots'[0].payload = slots[0].payload
    BY <1>9, IngressStampSlots
  <2> QED BY <1>9, <2>1, SMTT(30) DEF IngressStamp
<1>10. ASSUME NEW payload \in Payload \cup {None}, RunMachine(payload),
              pc' \in {"fsm", "stampout", "egress"} \/ pc' = "panicked", pc = "fsm",
              stage' \in 1..Stages, cuError' \in BOOLEAN
       PROVE  TypeInv'
  <2>1. Step.state \in MState /\ Step.outs \in Seq(Payload)
    BY StepType
  <2>2. machines' \in [1..Stages -> MState] /\ steps' \in [1..Stages -> StepRecord]
    BY <1>10, <2>1 DEF RunMachine, StepRecord
  <2>3. slots' \in [0..Stages -> Slot] /\ slots'[0].payload = slots[0].payload
    BY <1>10, MachineSlots, SMTT(30)
  <2> QED BY <1>10, <2>2, <2>3 DEF RunMachine
<1>11. Advance => stage' \in 1..Stages /\ pc' \in {"fsm", "egress"}
  BY SMTT(30) DEF Advance
<1>12. CASE FsmSome
  <2>1. Step.outs \in Seq(Payload) /\ Len(Step.outs) = 1
    BY <1>12, StepType DEF FsmSome
  <2>2. Head(Step.outs) \in Payload
    BY <2>1, HeadTailProperties
  <2> QED BY <1>10, <1>12, <2>2 DEF FsmSome
<1>13. CASE FsmNone
  BY <1>10, <1>11, <1>13 DEF FsmNone
<1>14. CASE FsmExtraIgnored
  BY <1>10, <1>11, <1>14 DEF FsmExtraIgnored, FsmExtra
<1>15. CASE FsmExtraPanics
  BY <1>10, <1>15 DEF FsmExtraPanics, FsmExtra
<1>16. CASE FsmStamp
  <2>1. slots' \in [0..Stages -> Slot] /\ slots'[0].payload = slots[0].payload
    BY <1>16, FsmStampSlots, SMTT(30)
  <2> QED BY <1>11, <1>16, <2>1 DEF FsmStamp
<1>17. ASSUME NEW sends \in Seq(Payload), NEW err \in BOOLEAN, LogCopperlist(sends, err),
              outq' \in Seq(Payload)
       PROVE  TypeInv'
  <2> USE <1>17 DEF LogCopperlist
  <2>1. egressed' \in Seq(Payload) /\ Len(egressed') \in Nat
    OBVIOUS
  <2>2. Output \in Payload \cup {None}
    BY SlotType DEF Output
  <2>3. Given \in Seq(Payload) /\ Held(Output) \in Seq(Payload)
    <3>1. CASE log = <<>>
      BY <2>2, <3>1 DEF Given, Held
    <3>2. CASE log # <<>>
      <4>1. Len(log) \in 1..Len(trace)
        BY <3>2
      <4>2. trace[Len(log)] \in Origin
        BY <4>1, SMTT(30)
      <4>3. trace[Len(log)].given \in Seq(Payload)
        BY <4>2 DEF Origin
      <4> QED BY <2>2, <3>2, <4>3 DEF Given, Held
    <3> QED BY <3>1, <3>2
  <2>4. Given \o Held(Output) \in Seq(Payload)
    BY <2>3
  <2>5. Taken \in 0..Inputs
    BY SMTT(30) DEF Taken
  <2> DEFINE origin == [steps |-> steps, err |-> err, taken |-> Taken, sent |-> Len(egressed'),
                        given |-> Given \o Held(Output)]
  <2>6. origin \in Origin
    BY <2>1, <2>4, <2>5 DEF Origin
  <2>7. /\ log' \in Seq([0..Stages -> Slot]) /\ Len(log') = Len(log) + 1
        /\ trace' \in Seq(Origin) /\ Len(trace') = Len(trace) + 1
    <3>1. /\ log \in Seq([0..Stages -> Slot]) /\ slots \in [0..Stages -> Slot]
          /\ trace \in Seq(Origin) /\ log' = Append(log, slots) /\ trace' = Append(trace, origin)
      OBVIOUS
    <3> HIDE DEF origin
    <3> QED BY ONLY <2>6, <3>1
  <2>8. Len(log') <= Iterations
    BY <1>0, <2>7
  <2> QED BY <2>1, <2>7, <2>8
<1>18. CASE EgressOne
  <2>1. Output \in Payload
    BY <1>18, SlotType DEF EgressOne, Output
  <2>2. outq' \in Seq(Payload) /\ <<Output>> \in Seq(Payload)
    BY <1>18, <2>1 DEF EgressOne
  <2> QED BY <1>17, <1>18, <2>2 DEF EgressOne
<1>19. CASE EgressNone
  <2>1. <<>> \in Seq(Payload)
    OBVIOUS
  <2> QED BY <1>17, <1>19, <2>1 DEF EgressNone
<1>20. CASE EgressErrIgnored
  <2>1. <<>> \in Seq(Payload)
    OBVIOUS
  <2> QED BY <1>17, <1>20, <2>1 DEF EgressErrIgnored
<1>21. CASE EgressErrPanics
  BY <1>21 DEF EgressErrPanics
<1>22. ASSUME NEW from, NEW to \in {"collect", "join", "joined"}, Goto(from, to) PROVE TypeInv'
  BY <1>22 DEF Goto
<1>23. CASE Collect
  <2> USE <1>23 DEF Collect
  <2>1. Head(results) \in Payload /\ results' \in Seq(Payload) /\ Len(results') = Len(results) - 1
    BY HeadTailProperties
  <2>2. live' \in Seq(Payload) /\ Len(live') = Len(live) + 1
    BY <2>1
  <2>3. /\ pc' = pc /\ pc = "collect"
        /\ UNCHANGED <<clock, transportVars, inq, outq, cuVars, machineVars, logVars,
                       cuError, egressed>>
    OBVIOUS
  <2>4. Len(live') + Len(results') = got'
    <3>1. Len(live) \in Nat /\ Len(results) \in Nat /\ Len(live) + Len(results) = got /\ got' = got
      BY SMTT(30)
    <3> QED BY ONLY <2>1, <2>2, <3>1
  <2> HIDE <1>23 DEF Collect
  <2>5. TypeOK'
    BY <2>1, <2>2, <2>3, <2>4
  <2> QED BY <2>3, <2>5
<1>24. CASE UNCHANGED vars
  BY <1>24 DEF vars
<1> QED
  BY <1>1, <1>2, <1>3, <1>4, <1>5, <1>7, <1>8, <1>9, <1>12, <1>13, <1>14, <1>15, <1>16,
     <1>18, <1>19, <1>20, <1>21, <1>22, <1>23, <1>24
  DEF Next, Transport, SendRefused, ReceiveFails, ReceivedAll, Main, Stop, CollectFails,
      Collected, Join, Terminated

\* Every variable keeps its type in every reachable state; in particular the transport
\* receives, and main collects, no more than one echo per input.
THEOREM TypeCorrect == Spec => []TypeOK
<1>1. TypeInv => TypeOK
  BY DEF TypeInv
<1> QED BY <1>1, TypeInit, TypeStep, PTL DEF Spec

-----------------------------------------------------------------------------
(***************************************************************************)
(* The inputs keep their order, and a tick means that none was waiting.    *)
(***************************************************************************)
\* The value of Taken before a record depends on the records before it only.
LEMMA TakenBeforeKept ==
    ASSUME TypeInv, NEW sends, NEW err, LogCopperlist(sends, err)
    PROVE  /\ \A n \in 1..(Len(log) + 1) : TakenBefore(n)' = TakenBefore(n)
           /\ TakenBefore(Len(log) + 1)' = Taken
<1>1. Len(log) \in Nat
  BY DEF TypeInv, TypeOK
<1>2. \A n \in 1..Len(log) : trace'[n] = trace[n]
  BY Logged
<1>3. trace'[Len(log) + 1].taken = Taken
  BY Logged
<1>4. ASSUME NEW n \in 1..(Len(log) + 1) PROVE TakenBefore(n)' = TakenBefore(n)
  <2>1. n = 1 \/ n - 1 \in 1..Len(log)
    BY <1>1
  <2> QED BY <1>2, <2>1 DEF TakenBefore
<1>5. Len(log') + 1 # 1 /\ (Len(log') + 1) - 1 = Len(log) + 1
  BY <1>1, Logged
<1> QED BY <1>3, <1>4, <1>5 DEF TakenBefore

LEMMA InputsInOrderInit == Init => InputsInOrder
<1> SUFFICES ASSUME Init PROVE InputsInOrder
  OBVIOUS
<1>1. nsent = 0 /\ inq = <<>> /\ log = <<>> /\ pc = "idle"
  BY DEF Init
<1>2. Len(inq) = 0 /\ Len(log) = 0
  BY <1>1
<1>3. Taken = 0
  <2>1. nsent = 0
    BY <1>1
  <2> QED BY ONLY <1>2, <2>1 DEF Taken
<1> QED BY <1>1, <1>2, <1>3 DEF InputsInOrder, TakenBefore

LEMMA InputsInOrderStep == TypeInv /\ InputsInOrder /\ [Next]_vars => InputsInOrder'
<1> SUFFICES ASSUME TypeInv, InputsInOrder, [Next]_vars PROVE InputsInOrder'
  OBVIOUS
<1>1. /\ nsent \in Nat /\ inq \in Seq(1..Inputs) /\ Len(inq) \in Nat /\ Len(log) \in Nat
      /\ Taken \in Int /\ Len(inq) <= nsent
  BY BoundAssumption DEF TypeInv, TypeOK, Taken
<1>2. /\ \A i \in 1..Len(inq) : inq[i] = Taken + i
      /\ \A n \in 1..Len(log) : TookOne(TakenBefore(n), trace[n].taken, log[n][0].payload)
      /\ Ingested => TookOne(TakenBefore(Len(log) + 1), Taken, slots[0].payload)
      /\ ~Ingested => Taken = TakenBefore(Len(log) + 1)
  BY DEF InputsInOrder, Ingested
<1>3. ASSUME /\ \A i \in 1..Len(inq') : inq'[i] = Taken' + i
             /\ \A n \in 1..Len(log') :
                   TookOne(TakenBefore(n), trace[n].taken, log[n][0].payload)'
             /\ Ingested' => TookOne(TakenBefore(Len(log) + 1), Taken, slots[0].payload)'
             /\ ~Ingested' => Taken' = TakenBefore(Len(log) + 1)'
      PROVE  InputsInOrder'
  BY <1>3 DEF InputsInOrder, Ingested
<1>4. CASE SendInput
  <2>1. /\ nsent' = nsent + 1 /\ inq' = Append(inq, nsent + 1)
        /\ UNCHANGED <<log, trace, slots, pc>>
    BY <1>4 DEF SendInput, cuVars, logVars
  <2>2. /\ Len(inq') = Len(inq) + 1 /\ inq'[Len(inq) + 1] = nsent + 1
        /\ \A i \in 1..Len(inq) : inq'[i] = inq[i]
    BY <1>1, <2>1
  <2>3. Taken' = Taken /\ nsent + 1 = Taken + (Len(inq) + 1)
    BY <1>1, <2>1, <2>2 DEF Taken
  <2>4. \A i \in 1..Len(inq') : inq'[i] = Taken' + i
    <3> SUFFICES ASSUME NEW i \in 1..Len(inq') PROVE inq'[i] = Taken' + i
      OBVIOUS
    <3>1. i \in 1..Len(inq) \/ i = Len(inq) + 1
      BY <1>1, <2>2
    <3> QED BY <1>2, <2>2, <2>3, <3>1
  <2> QED BY <1>2, <1>3, <2>1, <2>3, <2>4 DEF TookOne, TakenBefore, Ingested
<1>5. CASE IngressOne
  <2>1. /\ inq # <<>> /\ inq' = Tail(inq) /\ pc = "ingress" /\ pc' = "stamp"
        /\ UNCHANGED <<nsent, log, trace>>
    BY <1>5 DEF IngressOne, SetInput, transportVars, logVars
  <2>2. /\ Head(inq) = inq[1] /\ Head(inq) \in 1..Inputs /\ Len(inq') = Len(inq) - 1
        /\ Len(inq) >= 1 /\ \A i \in 1..Len(inq') : inq'[i] = inq[i + 1]
    <3>0. Len(inq) \in Nat \ {0}
      BY <1>1, <2>1, EmptySeq
    <3>1. Len(inq) >= 1
      BY ONLY <3>0
    <3>2. Head(inq) \in 1..Inputs
      BY <1>1, <2>1, HeadTailProperties
    <3>3. Head(inq) = inq[1]
      BY <1>1, <2>1
    <3>4. Len(Tail(inq)) = Len(inq) - 1
      BY <1>1, <2>1, HeadTailProperties
    <3>5. \A i \in 1..Len(Tail(inq)) : Tail(inq)[i] = inq[i + 1]
      BY <1>1, <2>1, HeadTailProperties
    <3> QED BY <2>1, <3>1, <3>2, <3>3, <3>4, <3>5
  <2>3. slots'[0].payload = Head(inq)
    BY <1>5, <2>2, IngressSlots DEF IngressOne
  <2>4. Taken' = Taken + 1 /\ slots'[0].payload = Taken + 1
    BY <1>1, <1>2, <2>1, <2>2, <2>3 DEF Taken
  <2>5. \A i \in 1..Len(inq') : inq'[i] = Taken' + i
    <3> SUFFICES ASSUME NEW i \in 1..Len(inq') PROVE inq'[i] = Taken' + i
      OBVIOUS
    <3>1. i + 1 \in 1..Len(inq) /\ Taken + (i + 1) = (Taken + 1) + i
      BY <1>1, <2>2
    <3> QED BY <1>2, <2>2, <2>4, <3>1
  <2>6. ~Ingested /\ Ingested' /\ TakenBefore(Len(log) + 1)' = TakenBefore(Len(log) + 1)
    BY <2>1 DEF Ingested, TakenBefore
  <2>7. TookOne(TakenBefore(Len(log) + 1), Taken, slots[0].payload)'
    BY <1>2, <2>4, <2>6 DEF TookOne
  <2> QED BY <1>2, <1>3, <2>1, <2>5, <2>6, <2>7 DEF TookOne, TakenBefore
<1>6. CASE IngressNone
  <2>1. /\ pc = "ingress" /\ pc' = "stamp" /\ UNCHANGED <<nsent, inq, log, trace>>
    BY <1>6 DEF IngressNone, SetInput, transportVars, logVars
  <2>2. slots'[0].payload = None
    BY <1>6, IngressSlots DEF IngressNone
  <2>3. ~Ingested /\ Ingested' /\ Taken' = Taken
    BY <2>1 DEF Ingested, Taken
  <2> QED BY <1>2, <1>3, <2>1, <2>2, <2>3 DEF TookOne, TakenBefore
<1>7. ASSUME NEW sends, NEW err, LogCopperlist(sends, err) PROVE InputsInOrder'
  <2>1. /\ Ingested /\ ~Ingested' /\ UNCHANGED <<inq, nsent>>
    BY <1>7 DEF LogCopperlist, Ingested, transportVars
  <2>2. Taken' = Taken
    BY <2>1 DEF Taken
  <2>3. /\ Len(log') = Len(log) + 1
        /\ \A n \in 1..Len(log) : log'[n] = log[n] /\ trace'[n] = trace[n]
        /\ log'[Len(log) + 1] = slots /\ trace'[Len(log) + 1].taken = Taken
    BY <1>7, Logged
  <2>4. \A n \in 1..Len(log') :
          TookOne(TakenBefore(n)', trace'[n].taken, log'[n][0].payload)
    <3> SUFFICES ASSUME NEW n \in 1..Len(log')
                 PROVE  TookOne(TakenBefore(n)', trace'[n].taken, log'[n][0].payload)
      OBVIOUS
    <3>1. n \in 1..(Len(log) + 1) /\ (n \in 1..Len(log) \/ n = Len(log) + 1)
      BY <1>1, <2>3
    <3>2. TakenBefore(n)' = TakenBefore(n)
      BY <1>7, <3>1, TakenBeforeKept
    <3> QED BY <1>2, <2>1, <2>3, <3>1, <3>2
  <2>5. Taken' = TakenBefore(Len(log) + 1)'
    BY <1>7, <2>2, TakenBeforeKept
  <2>6. \A i \in 1..Len(inq') : inq'[i] = Taken' + i
    BY <1>2, <2>1, <2>2
  <2>7. \A n \in 1..Len(log') : TookOne(TakenBefore(n), trace[n].taken, log[n][0].payload)'
    BY <2>4 DEF TookOne
  <2> QED BY <1>3, <2>1, <2>5, <2>6, <2>7
<1>8. CASE InboundQuiet
  <2>1. Taken' = Taken /\ UNCHANGED <<inq, log, trace>>
    BY <1>8 DEF InboundQuiet, Taken
  <2> QED BY <1>2, <1>3, <1>8, <2>1 DEF InboundQuiet, TookOne, TakenBefore
<1> QED BY <1>4, <1>5, <1>6, <1>7, <1>8, InboundStep

\* Every input is taken once and in the order it was sent, one per iteration, whatever
\* the copperlist held before and whatever fails behind ingress.
THEOREM InputsKeepOrder == Spec => []InputsInOrder
<1>1. Init => TypeInv /\ InputsInOrder
  BY TypeInit, InputsInOrderInit
<1>2. TypeInv /\ InputsInOrder /\ [Next]_vars => (TypeInv /\ InputsInOrder)'
  BY TypeStep, InputsInOrderStep
<1> QED BY <1>1, <1>2, PTL DEF Spec

\* What TickMeansDrained needs to be inductive: so it is in the current iteration.
Drained == Ingested /\ slots[0].payload = None =>
               \A i \in 1..nsent : sentAt[i] < Len(log) => i <= Taken

TickInv == TickMeansDrained /\ Drained

LEMMA TickInit == Init => TickInv
BY DEF Init, TickInv, TickMeansDrained, Drained, Ingested

LEMMA TickStep == TypeInv /\ TickInv /\ [Next]_vars => TickInv'
<1> SUFFICES ASSUME TypeInv, TickInv, [Next]_vars PROVE TickInv'
  OBVIOUS
<1>1. /\ nsent \in Nat /\ inq \in Seq(1..Inputs) /\ Len(inq) \in Nat /\ Len(log) \in Nat
      /\ sentAt \in Seq(0..Iterations) /\ Len(sentAt) = nsent /\ Iterations \in Nat
  BY BoundAssumption DEF TypeInv, TypeOK, Iterations
<1>2. CASE SendInput
  <2>1. /\ nsent' = nsent + 1 /\ inq' = Append(inq, nsent + 1)
        /\ sentAt' = Append(sentAt, Len(log)) /\ UNCHANGED <<log, trace, slots, pc>>
    BY <1>2 DEF SendInput, cuVars, logVars
  <2>2. Len(inq') = Len(inq) + 1 /\ Taken' = Taken
    BY <1>1, <2>1 DEF Taken
  <2>3. sentAt'[nsent + 1] = Len(log) /\ \A i \in 1..nsent : sentAt'[i] = sentAt[i]
    BY <1>1, <2>1
  <2>4. ASSUME NEW n \in 1..(Len(log) + 1), NEW i \in 1..nsent', sentAt'[i] < n - 1
        PROVE  i \in 1..nsent /\ sentAt[i] < n - 1
    BY <1>1, <2>1, <2>3, <2>4
  <2>5. TickMeansDrained'
    <3> SUFFICES ASSUME NEW n \in 1..Len(log), log[n][0].payload = None,
                        NEW i \in 1..nsent', sentAt'[i] < n - 1
                 PROVE  i <= trace[n].taken
      BY <2>1 DEF TickMeansDrained
    <3>1. n \in 1..(Len(log) + 1)
      BY <1>1
    <3> QED BY <2>4, <3>1 DEF TickInv, TickMeansDrained
  <2>6. Drained'
    <3> SUFFICES ASSUME Ingested, slots[0].payload = None,
                        NEW i \in 1..nsent', sentAt'[i] < Len(log)
                 PROVE  i <= Taken
      BY <2>1, <2>2 DEF Drained, Ingested
    <3>1. Len(log) + 1 \in 1..(Len(log) + 1) /\ (Len(log) + 1) - 1 = Len(log)
      BY <1>1
    <3>2. i \in 1..nsent /\ sentAt[i] < Len(log)
      BY <2>4, <3>1
    <3> QED BY <3>2 DEF TickInv, Drained
  <2> QED BY <2>5, <2>6 DEF TickInv
<1>3. CASE IngressOne
  <2>1. inq # <<>> /\ UNCHANGED <<nsent, sentAt, log, trace>>
    BY <1>3 DEF IngressOne, SetInput, transportVars, logVars
  <2>2. Head(inq) \in 1..Inputs
    BY <1>1, <2>1, HeadTailProperties
  <2>3. slots'[0].payload = Head(inq)
    BY <1>3, <2>2, IngressSlots DEF IngressOne
  <2>4. slots'[0].payload # None
    BY <2>2, <2>3, PayloadAssumption
  <2> QED BY <2>1, <2>4 DEF TickInv, TickMeansDrained, Drained
<1>4. CASE IngressNone
  <2>1. inq = <<>> /\ UNCHANGED <<nsent, sentAt, inq, log, trace>>
    BY <1>4 DEF IngressNone, SetInput, transportVars, logVars
  <2>2. Taken' = nsent
    BY <1>1, <2>1 DEF Taken
  <2>3. \A i \in 1..nsent : i <= nsent
    BY <1>1
  <2> QED BY <2>1, <2>2, <2>3 DEF TickInv, TickMeansDrained, Drained
<1>5. ASSUME NEW sends, NEW err, LogCopperlist(sends, err) PROVE TickInv'
  <2>1. Ingested /\ ~Ingested' /\ UNCHANGED <<inq, nsent, sentAt>>
    BY <1>5 DEF LogCopperlist, Ingested, transportVars
  <2>2. /\ Len(log') = Len(log) + 1
        /\ \A n \in 1..Len(log) : log'[n] = log[n] /\ trace'[n] = trace[n]
        /\ log'[Len(log) + 1] = slots /\ trace'[Len(log) + 1].taken = Taken
    BY <1>5, Logged
  <2>3. TickMeansDrained'
    <3> SUFFICES ASSUME NEW n \in 1..Len(log'), log'[n][0].payload = None,
                        NEW i \in 1..nsent, sentAt[i] < n - 1
                 PROVE  i <= trace'[n].taken
      BY <2>1 DEF TickMeansDrained
    <3>1. CASE n \in 1..Len(log)
      BY <2>2, <3>1 DEF TickInv, TickMeansDrained
    <3>2. CASE n = Len(log) + 1
      <4>1. slots[0].payload = None /\ sentAt[i] < Len(log)
        BY <1>1, <2>2, <3>2
      <4> QED BY <2>1, <2>2, <3>2, <4>1 DEF TickInv, Drained
    <3> QED BY <1>1, <2>2, <3>1, <3>2
  <2> QED BY <2>1, <2>3 DEF TickInv, Drained
<1>6. CASE InboundQuiet
  <2>1. Taken' = Taken /\ UNCHANGED <<nsent, sentAt, log, trace>>
    BY <1>6 DEF InboundQuiet, Taken
  <2> QED BY <1>6, <2>1 DEF InboundQuiet, TickInv, TickMeansDrained, Drained
<1> QED BY <1>2, <1>3, <1>4, <1>5, <1>6, InboundStep

\* A tick reaches the first machine only in an iteration that found the channel empty:
\* no input sent before that iteration is still waiting.
THEOREM TicksMeanDrained == Spec => []TickMeansDrained
<1>1. Init => TypeInv /\ TickInv
  BY TypeInit, TickInit
<1>2. TypeInv /\ TickInv /\ [Next]_vars => (TypeInv /\ TickInv)'
  BY TypeStep, TickStep
<1>3. TickInv => TickMeansDrained
  BY DEF TickInv
<1> QED BY <1>1, <1>2, <1>3, PTL DEF Spec

-----------------------------------------------------------------------------
(***************************************************************************)
(* The log is enough to replay the first machine.                          *)
(***************************************************************************)
\* FsmTask i has run in this iteration.
Ran(i) == \/ pc = "fsm" /\ i < stage
          \/ pc = "stampout" /\ i <= stage
          \/ pc = "egress"

\* The state that the first machine was left in by the last record.
LastTo == IF log = <<>> THEN MInit ELSE trace[Len(log)].steps[1].to

\* A step of the first machine that can be made again from its slot.
StepReplays(done, input) ==
    /\ input.payload # None \/ input.tov # None
    /\ FsmStep(1, done.from, Recorded(input)).state = done.to
    /\ FsmStep(1, done.from, Recorded(input)).outs = done.outs

\* Where the first machine is while the loop is in its iterations: where the last
\* record left it, or one step further, made from a slot that ingress has stamped.
MachineInv ==
    /\ pc \in {"fsm", "stampout", "egress"} => slots[0].tov # None
    /\ pc \in {"idle", "ingress", "stamp", "fsm", "stampout", "egress"} =>
           \/ ~Ran(1) /\ machines[1] = LastTo
           \/ /\ Ran(1) /\ steps[1].from = LastTo /\ steps[1].to = machines[1]
              /\ StepReplays(steps[1], slots[0])

\* StageReplays(1), record by record.
RecordReplays(n) ==
    /\ trace[n].steps[1].from = IF n = 1 THEN MInit ELSE trace[n - 1].steps[1].to
    /\ StepReplays(trace[n].steps[1], log[n][0])

ReplayInv == MachineInv /\ \A n \in 1..Len(log) : RecordReplays(n)

LEMMA ReplayInvImplies == (\A n \in 1..Len(log) : RecordReplays(n)) <=> ReplayReproduces
BY DEF RecordReplays, StepReplays, ReplayReproduces, StageReplays

LEMMA ReplayInit == Init => ReplayInv
<1> SUFFICES ASSUME Init PROVE ReplayInv
  OBVIOUS
<1>1. log = <<>> /\ pc = "idle" /\ stage = 1 /\ machines[1] = MInit
  BY StagesAssumption DEF Init
<1>2. Len(log) = 0
  BY <1>1
<1> QED BY <1>1, <1>2 DEF ReplayInv, MachineInv, Ran, LastTo

\* A task that is not the first of the chain leaves what MachineInv speaks of alone.
LEMMA MachineInvKept ==
    ASSUME MachineInv, UNCHANGED <<log, trace>>,
           slots'[0] = slots[0], machines'[1] = machines[1], steps'[1] = steps[1],
           Ran(1)' <=> Ran(1),
           pc' \in {"fsm", "stampout", "egress"} => pc \in {"fsm", "stampout", "egress"},
           pc' \in {"idle", "ingress", "stamp"} => pc \in {"idle", "ingress", "stamp"}
    PROVE  MachineInv'
BY DEF MachineInv, LastTo, StepReplays, Recorded

\* The records are kept while nothing is logged.
LEMMA RecordsKept ==
    ASSUME \A n \in 1..Len(log) : RecordReplays(n), UNCHANGED <<log, trace>>
    PROVE  (\A n \in 1..Len(log) : RecordReplays(n))'
BY DEF RecordReplays, StepReplays, Recorded

LEMMA RunMachineReplays ==
    ASSUME TypeInv, MachineInv, NEW payload \in Payload \cup {None}, RunMachine(payload),
           pc = "fsm",
           \/ pc' = "stampout" /\ stage' = stage
           \/ Advance
           \/ pc' = "panicked"
    PROVE  MachineInv'
<1>1. CASE pc' = "panicked"
  BY <1>1 DEF MachineInv
<1>2. CASE pc' # "panicked"
  <2>1. /\ (pc' = "stampout" /\ stage' = stage) \/ Advance
        /\ stage \in 1..Stages /\ Stages \in Nat /\ 1 \in 1..Stages
    BY <1>2, StagesAssumption DEF TypeInv, TypeOK
  <2>2. pc' \in {"fsm", "stampout", "egress"} /\ Ran(1)'
    BY <2>1 DEF Advance, Ran
  <2>3. slots'[0] = slots[0] /\ UNCHANGED <<log, trace>>
    BY <2>1, MachineSlots DEF RunMachine, logVars
  <2>4. machines \in [1..Stages -> MState] /\ steps \in [1..Stages -> StepRecord]
    BY DEF TypeInv, TypeOK
  <2>5. CASE stage # 1
    <3>1. machines'[1] = machines[1] /\ steps'[1] = steps[1]
      BY <2>1, <2>4, <2>5 DEF RunMachine
    <3>2. Ran(1)
      BY <2>1, <2>5 DEF Ran
    <3> QED BY <2>2, <2>3, <3>1, <3>2, MachineInvKept
  <2>6. CASE stage = 1
    <3>1. ~Ran(1) /\ machines[1] = LastTo /\ slots[0].tov # None
      BY <2>6 DEF MachineInv, Ran
    <3>2. trigger_for(slots[0], clock) = Recorded(slots[0])
      BY <3>1 DEF trigger_for, Recorded
    <3>3. Step = FsmStep(1, LastTo, Recorded(slots[0]))
      BY <2>6, <3>1, <3>2 DEF Step
    <3>4. /\ machines'[1] = Step.state
          /\ steps'[1] = [from |-> machines[1], to |-> Step.state, outs |-> Step.outs]
      BY <2>1, <2>4, <2>6 DEF RunMachine
    <3>5. StepReplays(steps'[1], slots[0])
      BY <3>1, <3>3, <3>4 DEF StepReplays
    <3>6. LastTo' = LastTo
      BY <2>3 DEF LastTo
    <3>7. steps'[1].from = LastTo' /\ steps'[1].to = machines'[1]
      BY <3>1, <3>4, <3>6
    <3>8. StepReplays(steps[1], slots[0])'
      BY <2>3, <3>5 DEF StepReplays, Recorded
    <3> QED BY <2>2, <2>3, <3>1, <3>7, <3>8 DEF MachineInv
  <2> QED BY <2>5, <2>6
<1> QED BY <1>1, <1>2

LEMMA ReplayStep == TypeInv /\ ReplayInv /\ [Next]_vars => ReplayInv'
<1> SUFFICES ASSUME TypeInv, ReplayInv, [Next]_vars PROVE ReplayInv'
  OBVIOUS
<1> USE DEF transportVars, cuVars, machineVars, logVars
<1>1. MachineInv /\ \A n \in 1..Len(log) : RecordReplays(n)
  BY DEF ReplayInv
<1>2. ASSUME MachineInv', UNCHANGED <<log, trace>> PROVE ReplayInv'
  BY <1>1, <1>2, RecordsKept DEF ReplayInv
<1>3. ASSUME UNCHANGED <<log, trace, slots, machines, steps, pc, stage>> PROVE ReplayInv'
  <2>1. Ran(1)' <=> Ran(1)
    BY <1>3 DEF Ran
  <2> QED BY <1>1, <1>2, <1>3, <2>1, MachineInvKept
<1>4. CASE Tick
  BY <1>3, <1>4 DEF Tick
<1>5. CASE SendInput
  BY <1>3, <1>5 DEF SendInput
<1>6. ASSUME NEW result, Return(result) PROVE ReplayInv'
  BY <1>3, <1>6 DEF Return
<1>7. CASE ReceiveEcho
  BY <1>3, <1>7 DEF ReceiveEcho
<1>8. CASE Collect
  BY <1>3, <1>8 DEF Collect
<1>9. CASE UNCHANGED vars
  BY <1>3, <1>9 DEF vars
<1>10. CASE StartIteration
  <2>1. /\ pc = "idle" /\ pc' = "ingress" /\ UNCHANGED <<log, trace, machines>>
    BY <1>10 DEF StartIteration
  <2>2. ~Ran(1) /\ ~Ran(1)' /\ LastTo' = LastTo
    BY <2>1 DEF Ran, LastTo
  <2> QED BY <1>1, <1>2, <2>1, <2>2 DEF MachineInv
<1>11. ASSUME NEW payload, NEW q, SetInput(payload, q) PROVE ReplayInv'
  <2>1. /\ pc = "ingress" /\ pc' = "stamp" /\ UNCHANGED <<log, trace, machines>>
    BY <1>11 DEF SetInput
  <2>2. ~Ran(1) /\ ~Ran(1)' /\ LastTo' = LastTo
    BY <2>1 DEF Ran, LastTo
  <2> QED BY <1>1, <1>2, <2>1, <2>2 DEF MachineInv
<1>12. CASE IngressStamp
  <2>1. /\ pc = "stamp" /\ pc' = "fsm" /\ stage' = 1 /\ UNCHANGED <<log, trace, machines>>
    BY <1>12 DEF IngressStamp
  <2>2. slots'[0].tov = clock /\ clock # None
    BY <1>12, IngressStampSlots, PayloadAssumption, BoundAssumption DEF TypeInv, TypeOK
  <2>3. ~Ran(1) /\ ~Ran(1)' /\ LastTo' = LastTo
    BY <2>1 DEF Ran, LastTo
  <2> QED BY <1>1, <1>2, <2>1, <2>2, <2>3 DEF MachineInv
<1>13. ASSUME NEW payload \in Payload \cup {None}, RunMachine(payload), pc = "fsm",
              (pc' = "stampout" /\ stage' = stage) \/ Advance \/ pc' = "panicked"
       PROVE  ReplayInv'
  <2>1. MachineInv'
    BY <1>1, <1>13, RunMachineReplays
  <2> QED BY <1>2, <1>13, <2>1 DEF RunMachine
<1>14. CASE FsmSome
  <2>1. Step.outs \in Seq(Payload) /\ Len(Step.outs) = 1
    BY <1>14, StepType DEF FsmSome
  <2>2. Head(Step.outs) \in Payload
    BY <2>1, HeadTailProperties
  <2> QED BY <1>13, <1>14, <2>2 DEF FsmSome
<1>15. CASE FsmNone
  BY <1>13, <1>15 DEF FsmNone
<1>16. CASE FsmExtraIgnored
  BY <1>13, <1>16 DEF FsmExtraIgnored, FsmExtra
<1>17. CASE FsmExtraPanics
  BY <1>13, <1>17 DEF FsmExtraPanics, FsmExtra
<1>18. CASE FsmStamp
  <2>1. /\ pc = "stampout" /\ UNCHANGED <<log, trace, machines, steps>>
        /\ Advance /\ stage \in 1..Stages /\ Stages \in Nat
    BY <1>18, StagesAssumption DEF FsmStamp, TypeInv, TypeOK
  <2>2. slots'[0] = slots[0]
    BY <1>18, <2>1, FsmStampSlots
  <2>3. Ran(1) /\ Ran(1)' /\ pc' \in {"fsm", "egress"}
    BY <2>1 DEF Ran, Advance
  <2>4. MachineInv'
    BY <1>1, <2>1, <2>2, <2>3, MachineInvKept
  <2> QED BY <1>2, <2>1, <2>4
<1>19. ASSUME NEW sends, NEW err, LogCopperlist(sends, err) PROVE ReplayInv'
  <2>1. /\ pc = "egress" /\ pc' = "idle" /\ UNCHANGED <<machines, slots, steps>>
        /\ log # <<>> => Len(log) # 0
        /\ Len(log) \in Nat
    BY <1>19 DEF LogCopperlist, TypeInv, TypeOK
  <2>2. /\ Len(log') = Len(log) + 1
        /\ \A n \in 1..Len(log) : log'[n] = log[n] /\ trace'[n] = trace[n]
        /\ log'[Len(log) + 1] = slots /\ trace'[Len(log) + 1].steps = steps
    BY <1>19, Logged
  <2>3. Ran(1) /\ ~Ran(1)'
    BY <2>1 DEF Ran
  <2>4. steps[1].from = LastTo /\ steps[1].to = machines[1] /\ StepReplays(steps[1], slots[0])
    BY <1>1, <2>1, <2>3 DEF MachineInv
  <2>5. LastTo' = machines'[1]
    <3>1. log' # <<>>
      BY <2>1, <2>2, EmptySeq
    <3> QED BY <2>1, <2>2, <2>4, <3>1 DEF LastTo
  <2>6. ASSUME NEW n \in 1..Len(log) PROVE RecordReplays(n)'
    <3>1. RecordReplays(n) /\ (n = 1 \/ n - 1 \in 1..Len(log))
      BY <1>1, <2>1
    <3> QED BY <2>2, <3>1 DEF RecordReplays, StepReplays, Recorded
  <2>7. ASSUME NEW n, n = Len(log) + 1 PROVE RecordReplays(n)'
    <3>1. steps[1].from = IF n = 1 THEN MInit ELSE trace'[n - 1].steps[1].to
      <4>1. CASE n = 1
        <5>1. log = <<>>
          BY <2>1, <2>7, <4>1
        <5> QED BY <2>4, <4>1, <5>1 DEF LastTo
      <4>2. CASE n # 1
        <5>1. log # <<>> /\ n - 1 = Len(log) /\ Len(log) \in 1..Len(log)
          BY <2>1, <2>7, <4>2
        <5> QED BY <2>2, <2>4, <4>2, <5>1 DEF LastTo
      <4> QED BY <4>1, <4>2
    <3> QED BY <2>2, <2>4, <2>7, <3>1 DEF RecordReplays, StepReplays, Recorded
  <2>8. \A n \in 1..Len(log') : RecordReplays(n)'
    <3> SUFFICES ASSUME NEW n \in 1..Len(log') PROVE RecordReplays(n)'
      OBVIOUS
    <3>1. n \in 1..Len(log) \/ n = Len(log) + 1
      BY <2>1, <2>2
    <3> QED BY <2>6, <2>7, <3>1
  <2>9. MachineInv'
    BY <2>1, <2>3, <2>5 DEF MachineInv
  <2> QED BY <2>8, <2>9 DEF ReplayInv
<1>20. CASE EgressErrPanics
  BY <1>2, <1>20 DEF EgressErrPanics, MachineInv
<1>21. ASSUME NEW from, NEW to \in {"collect", "join", "joined"}, Goto(from, to) PROVE ReplayInv'
  BY <1>2, <1>21 DEF Goto, MachineInv
<1> QED
  BY <1>4, <1>5, <1>6, <1>7, <1>8, <1>9, <1>10, <1>11, <1>12, <1>14, <1>15, <1>16, <1>17,
     <1>18, <1>19, <1>20, <1>21
  DEF Next, Transport, SendRefused, ReceiveFails, ReceivedAll, Main, IngressOne, IngressNone,
      EgressOne, EgressNone, EgressErrIgnored, Stop, CollectFails, Collected, Join, Terminated

\* The first machine can be replayed from the log: given the recorded triggers it goes
\* through the same states and emits the same, whatever machine it is, whatever the
\* copperlists held before, and whatever goes wrong behind it.
THEOREM ReplayIsExact == Spec => []ReplayReproduces
<1>1. Init => TypeInv /\ ReplayInv
  BY TypeInit, ReplayInit
<1>2. TypeInv /\ ReplayInv /\ [Next]_vars => (TypeInv /\ ReplayInv)'
  BY TypeStep, ReplayStep
<1>3. ReplayInv => ReplayReproduces
  BY ReplayInvImplies DEF ReplayInv
<1> QED BY <1>1, <1>2, <1>3, PTL DEF Spec
=============================================================================
