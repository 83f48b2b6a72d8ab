--------------------- MODULE MessageBridgeEgressProofs ---------------------
(***************************************************************************)
(* Proofs about the outbound half of MessageBridge: what the machines emit *)
(* reaches the log and the transport; and about the whole path, which      *)
(* implements Pipeline.                                                    *)
(***************************************************************************)
EXTENDS MessageBridgeProofs

-----------------------------------------------------------------------------
(***************************************************************************)
(* Sequences.                                                              *)
(***************************************************************************)
\* A value handed from the head of one queue to the end of another keeps its place.
LEMMA MoveHead ==
    ASSUME NEW S, NEW a \in Seq(S), NEW b \in Seq(S), b # <<>>
    PROVE  /\ Append(a, Head(b)) \o Tail(b) = a \o b
           /\ Append(a, Head(b)) \in Seq(S) /\ Tail(b) \in Seq(S)
<1>1. /\ Head(b) \in S /\ Tail(b) \in Seq(S) /\ Len(Tail(b)) = Len(b) - 1
      /\ \A i \in 1..Len(Tail(b)) : Tail(b)[i] = b[i + 1]
  BY HeadTailProperties
<1>2. Len(b) \in Nat \ {0} /\ Len(a) \in Nat
  BY EmptySeq
<1>3. Head(b) = b[1]
  OBVIOUS
<1> DEFINE front == Append(a, Head(b))
           back  == Tail(b)
<1>4. /\ front \in Seq(S) /\ Len(front) = Len(a) + 1 /\ front[Len(a) + 1] = b[1]
      /\ \A i \in 1..Len(a) : front[i] = a[i]
  BY <1>1, <1>3
<1>5. back \in Seq(S) /\ Len(back) = Len(b) - 1 /\ \A i \in 1..Len(back) : back[i] = b[i + 1]
  BY <1>1
<1> HIDE DEF front, back
<1> DEFINE moved == front \o back
           whole == a \o b
<1>6. /\ moved \in Seq(S) /\ Len(moved) = Len(a) + Len(b)
      /\ whole \in Seq(S) /\ Len(whole) = Len(a) + Len(b)
  <2>1. moved \in Seq(S) /\ Len(moved) = Len(front) + Len(back)
    BY <1>4, <1>5, ConcatProperties
  <2>2. whole \in Seq(S) /\ Len(whole) = Len(a) + Len(b)
    OBVIOUS
  <2>3. Len(front) + Len(back) = Len(a) + Len(b)
    BY <1>2, <1>4, <1>5
  <2> QED BY <2>1, <2>2, <2>3
<1>7. ASSUME NEW i \in 1..(Len(a) + Len(b)) PROVE moved[i] = whole[i]
  <2>1. CASE i <= Len(a)
    BY <1>2, <1>4, <1>5, <2>1
  <2>2. CASE i = Len(a) + 1
    BY <1>2, <1>4, <1>5, <2>2
  <2>3. CASE i > Len(a) + 1
    <3>1. i - Len(front) \in 1..Len(back) /\ i > Len(front)
      BY <1>2, <1>4, <1>5, <2>3
    <3>2. moved[i] = back[i - Len(front)]
      BY <1>4, <1>5, <3>1, SMTT(30)
    <3>3. back[i - Len(front)] = b[i - Len(a)]
      <4>1. (i - Len(front)) + 1 = i - Len(a)
        BY <1>2, <1>4
      <4> QED BY <1>5, <3>1, <4>1
    <3>4. whole[i] = b[i - Len(a)]
      BY <1>2, <2>3
    <3> QED BY <3>2, <3>3, <3>4
  <2>4. i \in Int /\ Len(a) \in Int
    BY <1>2
  <2> HIDE DEF moved, whole
  <2> QED BY <2>1, <2>2, <2>3, <2>4
<1> HIDE DEF moved, whole
<1>8. moved = whole
  BY <1>6, <1>7, SeqEqual
<1> QED BY <1>4, <1>5, <1>8 DEF front, back, moved, whole

\* A part of a sequence is not disturbed by what is appended to it, and what is
\* appended is the part behind it.
LEMMA Extended ==
    ASSUME NEW S, NEW a \in Seq(S), NEW b \in Seq(S)
    PROVE  /\ a \o b \in Seq(S) /\ Len(a \o b) = Len(a) + Len(b)
           /\ \A m \in Nat \ {0}, n \in 0..Len(a) : SubSeq(a \o b, m, n) = SubSeq(a, m, n)
           /\ SubSeq(a \o b, 1, Len(a)) = a
           /\ SubSeq(a \o b, Len(a) + 1, Len(a \o b)) = b
<1>1. Len(a) \in Nat /\ Len(b) \in Nat
  OBVIOUS
<1> DEFINE c == a \o b
<1>2. /\ c \in Seq(S) /\ Len(c) = Len(a) + Len(b)
      /\ \A i \in 1..Len(a) : c[i] = a[i]
      /\ \A i \in 1..Len(b) : c[Len(a) + i] = b[i]
  OBVIOUS
<1> HIDE DEF c
<1>3. ASSUME NEW m \in Nat \ {0}, NEW n \in 0..Len(a)
      PROVE  SubSeq(c, m, n) = SubSeq(a, m, n)
  BY <1>1, <1>2, <1>3
<1>4. SubSeq(c, 1, Len(a)) = a
  BY <1>1, <1>2
<1>5. SubSeq(c, Len(a) + 1, Len(c)) = b
  BY <1>1, <1>2
<1> QED BY <1>2, <1>3, <1>4, <1>5 DEF c

\* The part at one position is its value.
LEMMA SubSeqOne ==
    ASSUME NEW S, NEW s \in Seq(S), NEW k \in 1..Len(s)
    PROVE  SubSeq(s, k, k) = <<s[k]>>
<1>1. Len(s) \in Nat /\ s[k] \in S
  OBVIOUS
<1> DEFINE part == SubSeq(s, k, k)
           one  == <<s[k]>>
<1>2. part \in Seq(S) /\ Len(part) = 1 /\ part[1] = s[k]
  BY <1>1
<1>3. one \in Seq(S) /\ Len(one) = 1 /\ one[1] = s[k]
  BY <1>1
<1> HIDE DEF part, one
<1>4. part = one
  BY <1>2, <1>3, SeqEqual
<1> QED BY <1>4 DEF part, one

-----------------------------------------------------------------------------
(***************************************************************************)
(* What the transport forwards.                                            *)
(***************************************************************************)
LEMMA EchoTypes ==
    ASSUME TypeInv
    PROVE  /\ live \in Seq(Payload) /\ results \in Seq(Payload) /\ outq \in Seq(Payload)
           /\ egressed \in Seq(Payload) /\ Arrived \in Seq(Payload)
           /\ Output \in Payload \cup {None}
<1>1. slots[Stages] \in Slot
  BY StagesAssumption DEF TypeInv, TypeOK
<1> QED BY <1>1, SlotType DEF TypeInv, TypeOK, Arrived, Output

LEMMA EchoesInit == Init => EchoesInOrder
<1> SUFFICES ASSUME Init PROVE EchoesInOrder
  OBVIOUS
<1>1. /\ transport = "running" /\ live = <<>> /\ results = <<>> /\ outq = <<>>
      /\ egressed = <<>>
  BY DEF Init
<1>2. Arrived \o outq = egressed
  BY <1>1 DEF Arrived
<1> QED BY <1>1, <1>2 DEF EchoesInOrder

\* An egress that has nothing to send sends nothing.
LEMMA NothingSent ==
    ASSUME TypeInv, egressed' = egressed \o <<>>
    PROVE  egressed' = egressed
BY EchoTypes

LEMMA EchoesStep == TypeInv /\ EchoesInOrder /\ [Next]_vars => EchoesInOrder'
<1> SUFFICES ASSUME TypeInv, EchoesInOrder, [Next]_vars PROVE EchoesInOrder'
  OBVIOUS
<1> USE DEF transportVars, cuVars, machineVars, logVars
<1>1. ASSUME UNCHANGED <<transport, live, results, outq, egressed>> PROVE EchoesInOrder'
  BY <1>1 DEF EchoesInOrder, Arrived
<1>2. CASE ReceiveEcho
  <2>1. /\ transport = "running" /\ outq # <<>> /\ UNCHANGED <<transport, live, egressed>>
        /\ results' = Append(results, Head(outq)) /\ outq' = Tail(outq)
    BY <1>2 DEF ReceiveEcho, Receiving
  <2>2. results' \o outq' = results \o outq /\ results' \in Seq(Payload) /\ outq' \in Seq(Payload)
    <3>1. results \in Seq(Payload) /\ outq \in Seq(Payload) /\ outq # <<>>
      BY <2>1, EchoTypes
    <3>2. /\ Append(results, Head(outq)) \o Tail(outq) = results \o outq
          /\ Append(results, Head(outq)) \in Seq(Payload) /\ Tail(outq) \in Seq(Payload)
      BY ONLY <3>1, MoveHead
    <3> QED BY ONLY <2>1, <3>2
  <2>3. Arrived' \o outq' = live \o (results' \o outq')
    <3> DEFINE r == results'
               q == outq'
    <3>1. Arrived' = live \o r /\ live \in Seq(Payload) /\ r \in Seq(Payload) /\ q \in Seq(Payload)
      BY <2>1, <2>2, EchoTypes DEF Arrived
    <3> HIDE DEF r, q
    <3>2. (live \o r) \o q = live \o (r \o q)
      BY ONLY <3>1, ConcatAssociative, SMTT(30)
    <3> QED BY <3>1, <3>2 DEF r, q
  <2>4. Arrived \o outq = live \o (results \o outq)
    <3>1. live \in Seq(Payload) /\ results \in Seq(Payload) /\ outq \in Seq(Payload)
      BY EchoTypes
    <3> QED BY ONLY <3>1, ConcatAssociative DEF Arrived
  <2> QED BY <2>1, <2>2, <2>3, <2>4 DEF EchoesInOrder
<1>3. ASSUME NEW result \in {"ok", "err"}, transport = "running", Return(result)
      PROVE  EchoesInOrder'
  <2>1. transport' # "running" /\ UNCHANGED <<live, results, egressed>>
    BY <1>3 DEF Return
  <2>2. egressed = Arrived \o outq
    BY <1>3 DEF EchoesInOrder
  <2>3. Len(Arrived) <= Len(egressed) /\ Arrived = SubSeq(egressed, 1, Len(Arrived))
    BY <2>2, EchoTypes, Extended
  <2>4. Arrived' = Arrived
    BY <2>1 DEF Arrived
  <2> QED BY <2>1, <2>3, <2>4 DEF EchoesInOrder
<1>4. CASE EgressOne
  <2>1. /\ transport = "running" /\ outq' = Append(outq, Output)
        /\ egressed' = egressed \o <<Output>> /\ UNCHANGED <<transport, live, results>>
        /\ Output \in Payload
    BY <1>4, EchoTypes DEF EgressOne, LogCopperlist
  <2>2. outq' = outq \o <<Output>> /\ <<Output>> \in Seq(Payload)
    BY <2>1, EchoTypes
  <2>3. (Arrived \o outq) \o <<Output>> = Arrived \o (outq \o <<Output>>)
    <3> DEFINE sent == <<Output>>
    <3>1. Arrived \in Seq(Payload) /\ outq \in Seq(Payload) /\ sent \in Seq(Payload)
      BY <2>2, EchoTypes
    <3> HIDE DEF sent
    <3>2. (Arrived \o outq) \o sent = Arrived \o (outq \o sent)
      BY ONLY <3>1, ConcatAssociative, SMTT(30)
    <3> QED BY <3>2 DEF sent
  <2>4. Arrived' = Arrived
    BY <2>1 DEF Arrived
  <2> QED BY <2>1, <2>2, <2>3, <2>4 DEF EchoesInOrder
<1>5. CASE EgressNone \/ EgressErrIgnored
  <2>1. egressed' = egressed
    BY <1>5, NothingSent DEF EgressNone, EgressErrIgnored, LogCopperlist
  <2> QED BY <1>1, <1>5, <2>1 DEF EgressNone, EgressErrIgnored, LogCopperlist
<1>6. CASE Collect
  <2>1. /\ live' = Append(live, Head(results)) /\ results' = Tail(results) /\ results # <<>>
        /\ UNCHANGED <<transport, outq, egressed>>
    BY <1>6 DEF Collect
  <2>2. Arrived' = Arrived
    BY <2>1, EchoTypes, MoveHead, SMTT(30) DEF Arrived
  <2> QED BY <2>1, <2>2 DEF EchoesInOrder
<1>7. CASE Tick \/ SendInput \/ StartIteration \/ IngressStamp \/ FsmStamp \/ EgressErrPanics
  BY <1>1, <1>7 DEF Tick, SendInput, StartIteration, IngressStamp, FsmStamp, EgressErrPanics
<1>8. CASE IngressOne \/ IngressNone
  BY <1>1, <1>8 DEF IngressOne, IngressNone, SetInput
<1>9. ASSUME NEW payload, RunMachine(payload) PROVE EchoesInOrder'
  BY <1>1, <1>9 DEF RunMachine
<1>10. ASSUME NEW from, NEW to, Goto(from, to) PROVE EchoesInOrder'
  BY <1>1, <1>10 DEF Goto
<1>11. CASE UNCHANGED vars
  BY <1>1, <1>11 DEF vars
<1> QED
  BY <1>2, <1>3, <1>4, <1>5, <1>6, <1>7, <1>8, <1>9, <1>10, <1>11
  DEF Next, Transport, SendRefused, Sending, ReceiveFails, Receiving, ReceivedAll, Main,
      FsmSome, FsmNone, FsmExtraIgnored, FsmExtraPanics, FsmExtra, Stop, CollectFails,
      Collected, Join, Terminated

\* The transport forwards to main what egress sent, in order and once: all of it is
\* forwarded or in the channel while it runs, and what it forwarded before it failed is
\* a prefix.
THEOREM EchoesKeepOrder == Spec => []EchoesInOrder
<1>1. Init => TypeInv /\ EchoesInOrder
  BY TypeInit, EchoesInit
<1>2. TypeInv /\ EchoesInOrder /\ [Next]_vars => (TypeInv /\ EchoesInOrder)'
  BY TypeStep, EchoesStep
<1> QED BY <1>1, <1>2, PTL DEF Spec

-----------------------------------------------------------------------------
(***************************************************************************)
(* Nothing is dropped in silence.                                          *)
(***************************************************************************)
\* While no process() of the iteration has failed, the tasks that have run hold what
\* their machines emitted.
SlotsHold ==
    InIteration /\ ~cuError =>
        \A i \in 1..Stages : Ran(i) => Held(slots[i].payload) = steps[i].outs

\* The records account for what egress has sent.
SentSoFar ==
    /\ SentBefore(Len(log) + 1) = Len(egressed)
    /\ \A n \in 1..Len(log) : trace[n].sent <= Len(egressed)

\* NoSilentDrop, record by record.
RecordHolds(n) ==
    \/ trace[n].err
    \/ /\ \A i \in 1..Stages : Held(log[n][i].payload) = trace[n].steps[i].outs
       /\ SubSeq(egressed, SentBefore(n) + 1, trace[n].sent) = Held(log[n][Stages].payload)

DropInv == SlotsHold /\ SentSoFar /\ \A n \in 1..Len(log) : RecordHolds(n)

LEMMA DropInvImplies == (\A n \in 1..Len(log) : RecordHolds(n)) <=> NoSilentDrop
BY DEF RecordHolds, NoSilentDrop

LEMMA DropInit == Init => DropInv
<1> SUFFICES ASSUME Init PROVE DropInv
  OBVIOUS
<1>1. log = <<>> /\ egressed = <<>> /\ pc = "idle"
  BY DEF Init
<1>2. Len(log) = 0 /\ Len(egressed) = 0
  BY <1>1
<1> QED BY <1>1, <1>2 DEF DropInv, SlotsHold, SentSoFar, SentBefore, InIteration

\* The records stay as they are while nothing is logged.
LEMMA DropFrame ==
    ASSUME DropInv, SlotsHold', UNCHANGED <<log, trace, egressed>>
    PROVE  DropInv'
BY DEF DropInv, SentSoFar, SentBefore, RecordHolds, Held

\* The task that runs hands on what its machine emitted, or fails.
LEMMA RunMachineHolds ==
    ASSUME TypeInv, SlotsHold, NEW payload \in Payload \cup {None}, RunMachine(payload),
           pc = "fsm",
           \/ cuError' = TRUE
           \/ Held(payload) = Step.outs /\ UNCHANGED cuError,
           \/ pc' = "stampout" /\ stage' = stage
           \/ Advance
           \/ pc' = "panicked"
    PROVE  SlotsHold'
<1>1. CASE cuError' = TRUE
  BY <1>1 DEF SlotsHold
<1>2. CASE pc' = "panicked"
  BY <1>2 DEF SlotsHold, InIteration
<1>3. CASE ~cuError /\ Held(payload) = Step.outs /\ ((pc' = "stampout" /\ stage' = stage) \/ Advance)
  <2>1. stage \in 1..Stages /\ Stages \in Nat /\ steps \in [1..Stages -> StepRecord]
    BY StagesAssumption DEF TypeInv, TypeOK
  <2> SUFFICES ASSUME NEW i \in 1..Stages, Ran(i)'
               PROVE  Held(slots'[i].payload) = steps'[i].outs
    BY DEF SlotsHold, Held
  <2>2. i <= stage
    BY <1>3, <2>1 DEF Ran, Advance
  <2>3. /\ slots'[stage].payload = payload
        /\ \A j \in 0..Stages : j # stage => slots'[j] = slots[j]
    BY MachineSlots
  <2>4. CASE i = stage
    <3>1. steps'[i].outs = Step.outs
      BY <2>1, <2>4 DEF RunMachine
    <3> QED BY <1>3, <2>3, <2>4, <3>1
  <2>5. CASE i # stage
    <3>1. Ran(i) /\ InIteration
      BY <2>1, <2>2, <2>5 DEF Ran, InIteration
    <3>2. steps'[i] = steps[i]
      BY <2>1, <2>5 DEF RunMachine
    <3>3. slots'[i] = slots[i]
      BY <2>1, <2>3, <2>5
    <3> QED BY <1>3, <3>1, <3>2, <3>3 DEF SlotsHold
  <2> QED BY <2>4, <2>5
<1>4. CASE cuError /\ UNCHANGED cuError
  BY <1>4 DEF SlotsHold
<1> QED BY <1>1, <1>2, <1>3, <1>4

\* Egress sends what its slot holds, or the record says that it failed.
LEMMA LogHolds ==
    ASSUME TypeInv, DropInv, NEW sends \in Seq(Payload), NEW err \in BOOLEAN,
           LogCopperlist(sends, err), err \/ (sends = Held(Output) /\ err = cuError)
    PROVE  DropInv'
<1>1. /\ pc = "egress" /\ pc' = "idle" /\ egressed' = egressed \o sends
      /\ UNCHANGED <<slots, steps>> /\ Len(log) \in Nat
  BY DEF LogCopperlist, TypeInv, TypeOK, cuVars, machineVars
<1>2. /\ Len(log') = Len(log) + 1
      /\ \A n \in 1..Len(log) : log'[n] = log[n] /\ trace'[n] = trace[n]
      /\ log'[Len(log) + 1] = slots /\ trace'[Len(log) + 1].steps = steps
      /\ trace'[Len(log) + 1].err = err /\ trace'[Len(log) + 1].sent = Len(egressed')
  BY Logged
<1>3. /\ Len(egressed') = Len(egressed) + Len(sends) /\ Len(egressed) \in Nat /\ Len(sends) \in Nat
      /\ \A m \in Nat \ {0}, n \in 0..Len(egressed) :
            SubSeq(egressed', m, n) = SubSeq(egressed, m, n)
      /\ SubSeq(egressed', Len(egressed) + 1, Len(egressed')) = sends
  BY <1>1, EchoTypes, Extended
<1>4. ASSUME NEW n \in 1..Len(log)
      PROVE  trace[n].sent \in Nat /\ SentBefore(n) \in Nat /\ SentBefore(n)' = SentBefore(n)
  <2>1. trace \in Seq(Origin) /\ Len(trace) = Len(log) /\ (n = 1 \/ n - 1 \in 1..Len(log))
    BY <1>1, SMTT(30) DEF TypeInv, TypeOK
  <2>2. \A k \in 1..Len(log) : trace[k].sent \in Nat
    <3>1. \A k \in 1..Len(log) : trace[k] \in Origin
      BY <2>1
    <3> QED BY <3>1 DEF Origin
  <2> QED BY <1>2, <2>1, <2>2 DEF SentBefore
<1>5. ASSUME NEW n \in 1..Len(log) PROVE RecordHolds(n)'
  <2>1. RecordHolds(n) /\ trace[n].sent <= Len(egressed)
    BY DEF DropInv, SentSoFar
  <2>2. trace[n].sent \in 0..Len(egressed) /\ SentBefore(n) + 1 \in Nat \ {0}
    BY <1>3, <1>4, <2>1
  <2>3. SubSeq(egressed', SentBefore(n) + 1, trace[n].sent)
          = SubSeq(egressed, SentBefore(n) + 1, trace[n].sent)
    BY <1>3, <2>2
  <2> QED BY <1>2, <1>4, <2>1, <2>3 DEF RecordHolds, Held
<1>6. ASSUME NEW n, n = Len(log) + 1 PROVE RecordHolds(n)'
  <2>1. SentBefore(n)' = Len(egressed)
    <3>1. SentBefore(n) = Len(egressed)
      BY <1>6 DEF DropInv, SentSoFar
    <3>2. n # 1 => n - 1 \in 1..Len(log)
      BY <1>1, <1>6
    <3> QED BY <1>2, <3>1, <3>2 DEF SentBefore
  <2>2. CASE err
    BY <1>2, <1>6, <2>2 DEF RecordHolds
  <2>3. CASE sends = Held(Output) /\ ~cuError
    <3>1. \A i \in 1..Stages : Held(slots[i].payload) = steps[i].outs
      BY <1>1, <2>3 DEF DropInv, SlotsHold, InIteration, Ran
    <3>2. SubSeq(egressed', SentBefore(n)' + 1, trace'[n].sent) = Held(slots[Stages].payload)
      BY <1>2, <1>3, <1>6, <2>1, <2>3 DEF Output
    <3> QED BY <1>2, <1>6, <3>1, <3>2 DEF RecordHolds, Held
  <2> QED BY <2>2, <2>3
<1>7. \A n \in 1..Len(log') : RecordHolds(n)'
  <2> SUFFICES ASSUME NEW n \in 1..Len(log') PROVE RecordHolds(n)'
    OBVIOUS
  <2>1. n \in 1..Len(log) \/ n = Len(log) + 1
    BY <1>1, <1>2
  <2> QED BY <1>5, <1>6, <2>1
<1>8. SentSoFar'
  <2>1. SentBefore(Len(log) + 1)' = Len(egressed')
    <3>1. Len(log') + 1 # 1 /\ (Len(log') + 1) - 1 = Len(log) + 1
      BY <1>1, <1>2
    <3> QED BY <1>2, <3>1 DEF SentBefore
  <2>2. ASSUME NEW n \in 1..Len(log') PROVE trace'[n].sent <= Len(egressed')
    <3>1. n \in 1..Len(log) \/ n = Len(log) + 1
      BY <1>1, <1>2
    <3>2. CASE n \in 1..Len(log)
      <4>1. trace[n].sent <= Len(egressed) /\ trace[n].sent \in Nat
        BY <1>4, <3>2 DEF DropInv, SentSoFar
      <4> QED BY <1>2, <1>3, <3>2, <4>1
    <3>3. CASE n = Len(log) + 1
      BY <1>2, <1>3, <3>3
    <3> QED BY <3>1, <3>2, <3>3
  <2> QED BY <2>1, <2>2 DEF SentSoFar
<1>9. SlotsHold'
  BY <1>1 DEF SlotsHold, InIteration
<1> QED BY <1>7, <1>8, <1>9 DEF DropInv

LEMMA DropStep == TypeInv /\ DropInv /\ [Next]_vars => DropInv'
<1> SUFFICES ASSUME TypeInv, DropInv, [Next]_vars PROVE DropInv'
  OBVIOUS
<1> USE DEF transportVars, cuVars, machineVars, logVars
<1>1. SlotsHold
  BY DEF DropInv
<1>2. ASSUME UNCHANGED <<log, trace, egressed, slots, steps, pc, stage, cuError>> PROVE DropInv'
  <2>1. SlotsHold'
    BY <1>1, <1>2 DEF SlotsHold, InIteration, Ran, Held
  <2> QED BY <1>2, <2>1, DropFrame
<1>3. CASE Tick \/ SendInput \/ ReceiveEcho \/ Collect
  BY <1>2, <1>3 DEF Tick, SendInput, ReceiveEcho, Collect
<1>4. ASSUME NEW result, Return(result) PROVE DropInv'
  BY <1>2, <1>4 DEF Return
<1>5. CASE UNCHANGED vars
  BY <1>2, <1>5 DEF vars
<1>6. ASSUME UNCHANGED <<log, trace, egressed>>, \A i : ~Ran(i)' PROVE DropInv'
  <2>1. SlotsHold'
    BY <1>6 DEF SlotsHold
  <2> QED BY <1>6, <2>1, DropFrame
<1>7. CASE StartIteration
  BY <1>6, <1>7 DEF StartIteration, Ran
<1>8. ASSUME NEW payload, NEW q, SetInput(payload, q) PROVE DropInv'
  BY <1>6, <1>8 DEF SetInput, Ran
<1>9. CASE IngressStamp
  <2>1. \A i \in 1..Stages : ~Ran(i)'
    BY <1>9 DEF IngressStamp, Ran
  <2>2. SlotsHold'
    BY <2>1 DEF SlotsHold
  <2> QED BY <1>9, <2>2, DropFrame DEF IngressStamp
<1>10. ASSUME NEW payload \in Payload \cup {None}, RunMachine(payload), pc = "fsm",
              cuError' = TRUE \/ (Held(payload) = Step.outs /\ UNCHANGED cuError),
              (pc' = "stampout" /\ stage' = stage) \/ Advance \/ pc' = "panicked"
       PROVE  DropInv'
  <2>1. SlotsHold'
    BY <1>1, <1>10, RunMachineHolds
  <2> QED BY <1>10, <2>1, DropFrame DEF RunMachine
<1>11. CASE FsmSome
  <2>1. Step.outs \in Seq(Payload) /\ Len(Step.outs) = 1
    BY <1>11, StepType DEF FsmSome
  <2>2. Head(Step.outs) \in Payload /\ Step.outs = <<Head(Step.outs)>>
    BY <2>1, HeadTailProperties
  <2>3. Head(Step.outs) # None
    BY <2>2, PayloadAssumption
  <2>4. Held(Head(Step.outs)) = Step.outs
    BY <2>2, <2>3 DEF Held
  <2> QED BY <1>10, <1>11, <2>2, <2>4 DEF FsmSome
<1>12. CASE FsmNone
  <2>1. Held(None) = Step.outs
    BY <1>12 DEF FsmNone, Held
  <2> QED BY <1>10, <1>12, <2>1 DEF FsmNone
<1>13. CASE FsmExtraIgnored
  BY <1>10, <1>13 DEF FsmExtraIgnored, FsmExtra
<1>14. CASE FsmExtraPanics
  BY <1>10, <1>14 DEF FsmExtraPanics, FsmExtra
<1>15. CASE FsmStamp
  <2>1. /\ pc = "stampout" /\ UNCHANGED <<log, trace, steps, egressed, cuError>>
        /\ Advance /\ stage \in 1..Stages /\ Stages \in Nat
    BY <1>15, StagesAssumption DEF FsmStamp, TypeInv, TypeOK
  <2>2. \A i \in 1..Stages : slots'[i].payload = slots[i].payload
    <3>1. /\ slots'[stage].payload = slots[stage].payload
          /\ \A j \in 0..Stages : j # stage => slots'[j] = slots[j]
      BY <1>15, FsmStampSlots
    <3> QED BY <2>1, <3>1
  <2>3. \A i \in 1..Stages : Ran(i)' => Ran(i)
    BY <2>1 DEF Ran, Advance
  <2>4. SlotsHold'
    BY <1>1, <2>1, <2>2, <2>3 DEF SlotsHold, InIteration, Held
  <2> QED BY <2>1, <2>4, DropFrame
<1>16. CASE EgressOne
  <2>1. Output \in Payload /\ Output # None
    BY <1>16, EchoTypes DEF EgressOne
  <2>2. <<Output>> \in Seq(Payload) /\ <<Output>> = Held(Output) /\ cuError \in BOOLEAN
    BY <2>1 DEF Held, TypeInv, TypeOK
  <2> QED BY <1>16, <2>2, LogHolds DEF EgressOne
<1>17. CASE EgressNone
  <2>1. <<>> \in Seq(Payload) /\ <<>> = Held(Output) /\ cuError \in BOOLEAN
    BY <1>17 DEF EgressNone, Held, TypeInv, TypeOK
  <2> QED BY <1>17, <2>1, LogHolds DEF EgressNone
<1>18. CASE EgressErrIgnored
  <2>1. <<>> \in Seq(Payload) /\ TRUE \in BOOLEAN
    OBVIOUS
  <2> QED BY <1>18, <2>1, LogHolds DEF EgressErrIgnored
<1>19. CASE EgressErrPanics
  BY <1>6, <1>19 DEF EgressErrPanics, Ran
<1>20. ASSUME NEW from, NEW to \in {"collect", "join", "joined"}, Goto(from, to) PROVE DropInv'
  BY <1>6, <1>20 DEF Goto, Ran
<1> QED
  BY <1>3, <1>4, <1>5, <1>7, <1>8, <1>9, <1>11, <1>12, <1>13, <1>14, <1>15, <1>16, <1>17,
     <1>18, <1>19, <1>20
  DEF Next, Transport, SendRefused, ReceiveFails, ReceivedAll, Main, IngressOne, IngressNone,
      Stop, CollectFails, Collected, Join, Terminated

\* What a machine emitted is in its slot of the log and, from the last task, was sent by
\* egress in that iteration, or a process() of that iteration returned a CuError: for
\* any chain of machines, no value is dropped in silence.
THEOREM NothingDropped == Spec => []NoSilentDrop
<1>1. Init => TypeInv /\ DropInv
  BY TypeInit, DropInit
<1>2. TypeInv /\ DropInv /\ [Next]_vars => (TypeInv /\ DropInv)'
  BY TypeStep, DropStep
<1>3. DropInv => NoSilentDrop
  BY DropInvImplies DEF DropInv
<1> QED BY <1>1, <1>2, <1>3, PTL DEF Spec

-----------------------------------------------------------------------------
(***************************************************************************)
(* The whole path implements Pipeline.                                     *)
(***************************************************************************)
\* Egress runs after the last machine, and while the transport runs it sends all that
\* it is given.
AtEgress == /\ pc = "egress" => stage = Stages
            /\ transport = "running" => egressed = Given

LEMMA AtEgressInit == Init => AtEgress
BY DEF Init, AtEgress, Given

LEMMA AtEgressStep == TypeInv /\ AtEgress /\ [Next]_vars => AtEgress'
<1> SUFFICES ASSUME TypeInv, AtEgress, [Next]_vars PROVE AtEgress'
  OBVIOUS
<1> USE DEF transportVars, cuVars, machineVars, logVars
<1>1. ASSUME UNCHANGED <<log, trace, egressed>>, transport' = "running" => transport = "running",
             pc' = "egress" => stage' = Stages
      PROVE  AtEgress'
  BY <1>1 DEF AtEgress, Given
<1>2. stage \in 1..Stages /\ Stages \in Nat
  BY StagesAssumption DEF TypeInv, TypeOK
<1>3. CASE Tick \/ SendInput \/ ReceiveEcho \/ Collect \/ StartIteration \/ IngressStamp
  BY <1>1, <1>3 DEF AtEgress, Tick, SendInput, ReceiveEcho, Collect, StartIteration, IngressStamp
<1>4. ASSUME NEW result \in {"ok", "err"}, Return(result) PROVE AtEgress'
  BY <1>1, <1>4 DEF AtEgress, Return
<1>5. CASE IngressOne \/ IngressNone
  BY <1>1, <1>5 DEF IngressOne, IngressNone, SetInput
<1>6. Advance => (pc' = "egress" => stage' = Stages)
  BY <1>2 DEF Advance
<1>7. CASE FsmSome \/ FsmNone \/ FsmExtraIgnored \/ FsmExtraPanics \/ FsmStamp
  BY <1>1, <1>6, <1>7 DEF FsmSome, FsmNone, FsmExtraIgnored, FsmExtraPanics, FsmExtra,
                          RunMachine, FsmStamp
<1>8. ASSUME NEW sends, NEW err, LogCopperlist(sends, err),
             transport' = "running" => sends = Held(Output) /\ transport = "running"
      PROVE  AtEgress'
  <2>1. Given' = Given \o Held(Output)
    <3>1. /\ Len(log') = Len(log) + 1
          /\ trace'[Len(log) + 1].given = Given \o Held(Output)
      BY <1>8, Logged
    <3>2. Len(log) \in Nat
      BY DEF TypeInv, TypeOK
    <3>3. log' # <<>>
      BY <3>1, <3>2, EmptySeq
    <3> QED BY <3>1, <3>3 DEF Given
  <2>2. egressed' = egressed \o sends /\ pc' = "idle"
    BY <1>8 DEF LogCopperlist
  <2> QED BY <1>8, <2>1, <2>2 DEF AtEgress
<1>9. CASE EgressOne
  BY <1>8, <1>9 DEF EgressOne, LogCopperlist, Held
<1>10. CASE EgressNone
  BY <1>8, <1>10 DEF EgressNone, LogCopperlist, Held
<1>11. CASE EgressErrIgnored
  BY <1>8, <1>11 DEF EgressErrIgnored, LogCopperlist
<1>12. CASE EgressErrPanics
  BY <1>1, <1>12 DEF EgressErrPanics
<1>13. ASSUME NEW from, NEW to \in {"collect", "join", "joined"}, Goto(from, to) PROVE AtEgress'
  BY <1>1, <1>13 DEF Goto
<1>14. CASE UNCHANGED vars
  BY <1>1, <1>14 DEF vars, AtEgress
<1> QED
  BY <1>3, <1>4, <1>5, <1>7, <1>9, <1>10, <1>11, <1>12, <1>13, <1>14
  DEF Next, Transport, SendRefused, ReceiveFails, ReceivedAll, Main, Stop, CollectFails,
      Collected, Join, Terminated

RefInv == TypeInv /\ InputsInOrder /\ EchoesInOrder /\ AtEgress

LEMMA RefInvInit == Init => RefInv
BY TypeInit, InputsInOrderInit, EchoesInit, AtEgressInit DEF RefInv

LEMMA RefInvStep == RefInv /\ [Next]_vars => RefInv'
BY TypeStep, InputsInOrderStep, EchoesStep, AtEgressStep DEF RefInv

\* What a step leaves alone if the pipeline does not see it.
seen == <<AcceptedInputs, ConsumedCount, OpenStep, LoggedSteps, Produced, Arrived>>

\* The types of what the pipeline sees.
LEMMA SeenTypes ==
    ASSUME TypeInv
    PROVE  /\ nsent \in Nat /\ Len(inq) \in Nat /\ Taken \in Nat /\ Taken <= nsent
           /\ AcceptedInputs \in Seq(1..Inputs) /\ Len(AcceptedInputs) = nsent
           /\ Given \in Seq(Payload) /\ Arrived \in Seq(Payload)
           /\ Held(Output) \in Seq(Payload) /\ Len(log) \in Nat
<1>1. /\ nsent \in Nat /\ nsent <= Inputs /\ Len(inq) \in Nat /\ Len(inq) <= nsent
      /\ Len(log) \in Nat
  BY BoundAssumption DEF TypeInv, TypeOK
<1>2. Taken \in Nat /\ Taken <= nsent
  BY <1>1 DEF Taken
<1>3. AcceptedInputs \in Seq(1..Inputs) /\ Len(AcceptedInputs) = nsent
  <2>1. \A i \in 1..nsent : i \in 1..Inputs
    BY <1>1, BoundAssumption
  <2> QED BY <1>1, <2>1 DEF AcceptedInputs
<1>4. Given \in Seq(Payload)
  <2>1. CASE log = <<>>
    BY <2>1 DEF Given
  <2>2. CASE log # <<>>
    <3>1. Len(log) \in 1..Len(trace) /\ trace \in Seq(Origin)
      BY <1>1, <2>2 DEF TypeInv, TypeOK
    <3>2. trace[Len(log)] \in Origin
      BY <3>1
    <3>3. trace[Len(log)].given \in Seq(Payload)
      BY <3>2 DEF Origin
    <3> QED BY <2>2, <3>3 DEF Given
  <2> QED BY <2>1, <2>2
<1>5. Held(Output) \in Seq(Payload)
  BY EchoTypes DEF Held
<1> QED BY <1>1, <1>2, <1>3, <1>4, <1>5, EchoTypes

LEMMA MapsInit == Init => Pipe!Init
<1> SUFFICES ASSUME Init PROVE Pipe!Init
  OBVIOUS
<1>1. /\ nsent = 0 /\ inq = <<>> /\ log = <<>> /\ pc = "idle" /\ live = <<>> /\ results = <<>>
  BY DEF Init
<1>2. Len(inq) = 0 /\ Len(log) = 0 /\ ~StepOpen
  BY <1>1 DEF StepOpen
<1>3. AcceptedInputs = <<>> /\ LoggedSteps = <<>>
  BY <1>1, <1>2 DEF AcceptedInputs, LoggedSteps
<1>4. ConsumedCount = 0 /\ OpenStep = <<>>
  BY <1>2 DEF ConsumedCount, OpenStep, TakenBefore
<1>5. Produced = <<>> /\ Arrived = <<>>
  BY <1>1, <1>2 DEF Produced, Given, Arrived
<1> QED BY <1>3, <1>4, <1>5 DEF Pipe!Init

\* A step that changes nothing of this is not seen.
LEMMA Unseen ==
    ASSUME UNCHANGED <<nsent, inq, log, trace, live, results>>,
           StepOpen' = StepOpen, StepOpen => UNCHANGED slots
    PROVE  UNCHANGED seen
<1>1. UNCHANGED <<AcceptedInputs, LoggedSteps, Arrived, Taken, Given>>
  BY DEF AcceptedInputs, LoggedSteps, Arrived, Taken, Given, StepOf, Held
<1>2. UNCHANGED <<ConsumedCount, OpenStep, Produced>>
  BY <1>1 DEF ConsumedCount, OpenStep, Produced, TakenBefore, StepOf, Held, Output
<1> QED BY <1>1, <1>2 DEF seen

\* The transport sends an input.
LEMMA MapsSend ==
    ASSUME RefInv, RefInv', SendInput
    PROVE  Pipe!Accept
<1>1. /\ nsent' = nsent + 1 /\ inq' = Append(inq, nsent + 1)
      /\ UNCHANGED <<log, trace, live, results, pc, stage, slots>>
  BY DEF SendInput, cuVars, logVars
<1>2. nsent \in Nat /\ nsent + 1 \in 1..Inputs /\ inq \in Seq(1..Inputs)
  BY <1>1, BoundAssumption DEF RefInv, TypeInv, TypeOK
<1>3. AcceptedInputs' = Append(AcceptedInputs, nsent + 1)
  <2> DEFINE longer == Append(AcceptedInputs, nsent + 1)
  <2>1. /\ AcceptedInputs \in Seq(1..Inputs) /\ Len(AcceptedInputs) = nsent
        /\ \A i \in 1..nsent : AcceptedInputs[i] = i
    BY SeenTypes DEF RefInv, AcceptedInputs
  <2>2. /\ longer \in Seq(1..Inputs) /\ Len(longer) = nsent + 1 /\ longer[nsent + 1] = nsent + 1
        /\ \A i \in 1..nsent : longer[i] = i
    BY <1>2, <2>1
  <2>3. /\ AcceptedInputs' \in Seq(1..Inputs) /\ Len(AcceptedInputs') = nsent + 1
        /\ \A i \in 1..(nsent + 1) : AcceptedInputs'[i] = i
    <3>1. AcceptedInputs' = [i \in 1..(nsent + 1) |-> i]
      BY <1>1 DEF AcceptedInputs
    <3>2. \A i \in 1..(nsent + 1) : i \in 1..Inputs
      BY <1>2, BoundAssumption
    <3> QED BY <1>2, <3>1, <3>2
  <2> HIDE DEF longer
  <2>4. \A i \in 1..(nsent + 1) : longer[i] = AcceptedInputs'[i]
    BY <1>2, <2>2, <2>3
  <2>5. longer = AcceptedInputs'
    BY <2>2, <2>3, <2>4, SeqEqual
  <2> QED BY <2>5 DEF longer
<1>4. Taken' = Taken
  <2>1. Len(inq') = Len(inq) + 1 /\ Len(inq) \in Nat
    BY <1>1, <1>2
  <2> QED BY <1>1, <1>2, <2>1 DEF Taken
<1>5. UNCHANGED <<ConsumedCount, OpenStep, LoggedSteps, Produced, Arrived>>
  BY <1>1, <1>4 DEF ConsumedCount, OpenStep, LoggedSteps, Produced, Arrived, StepOpen,
                    TakenBefore, Given, Output, StepOf, Held
<1> QED BY <1>2, <1>3, <1>5 DEF Pipe!Accept

\* It receives an echo, which main will collect.
LEMMA MapsReceive ==
    ASSUME RefInv, ReceiveEcho
    PROVE  Pipe!Deliver
<1>1. /\ transport = "running" /\ outq # <<>> /\ results' = Append(results, Head(outq))
      /\ UNCHANGED <<nsent, inq, log, trace, live, pc, stage, slots>>
  BY DEF ReceiveEcho, Receiving, transportVars, cuVars, logVars
<1>2. /\ Arrived \in Seq(Payload) /\ outq \in Seq(Payload) /\ Len(outq) \in Nat \ {0}
      /\ Len(Arrived) \in Nat /\ Head(outq) = outq[1] /\ Head(outq) \in Payload
      /\ live \in Seq(Payload) /\ results \in Seq(Payload)
  BY <1>1, EchoTypes, EmptySeq, HeadTailProperties DEF RefInv
<1>3. Given = Arrived \o outq
  BY <1>1 DEF RefInv, EchoesInOrder, AtEgress
<1>4. Given[Len(Arrived) + 1] = Head(outq) /\ Len(Given) = Len(Arrived) + Len(outq)
  BY <1>2, <1>3
<1>5. Len(Arrived) < Len(Produced) /\ Produced[Len(Arrived) + 1] = Head(outq)
  <2> DEFINE rest == IF StepOpen THEN Held(Output) ELSE <<>>
  <2>1. rest \in Seq(Payload) /\ Given \in Seq(Payload)
    BY SeenTypes DEF RefInv
  <2>2. Produced = Given \o rest
    BY DEF Produced
  <2> HIDE DEF rest
  <2>3. Len(Given) \in Nat /\ Len(rest) \in Nat /\ Len(Produced) = Len(Given) + Len(rest)
    BY <2>1, <2>2
  <2>4. Len(Arrived) + 1 \in 1..Len(Given)
    BY <1>2, <1>4, <2>3
  <2>5. Produced[Len(Arrived) + 1] = Given[Len(Arrived) + 1]
    BY <2>1, <2>2, <2>4
  <2> QED BY <1>2, <1>4, <2>3, <2>4, <2>5
<1>6. Arrived' = Append(Arrived, Head(outq))
  <2> DEFINE v == Head(outq)
  <2> HIDE DEF v
  <2>1. Append(results, v) = results \o <<v>> /\ <<v>> \in Seq(Payload)
    BY <1>2 DEF v
  <2>2. live \o (results \o <<v>>) = (live \o results) \o <<v>>
    BY <1>2, <2>1, ConcatAssociative
  <2>3. (live \o results) \o <<v>> = Append(live \o results, v)
    BY <1>2, <2>1 DEF v, Arrived
  <2> QED BY <1>1, <2>1, <2>2, <2>3 DEF Arrived, v
<1>7. UNCHANGED <<AcceptedInputs, ConsumedCount, OpenStep, LoggedSteps, Produced>>
  BY <1>1 DEF AcceptedInputs, ConsumedCount, OpenStep, LoggedSteps, Produced, StepOpen,
              Taken, TakenBefore, Given, Output, StepOf, Held
<1> QED BY <1>5, <1>6, <1>7 DEF Pipe!Deliver

\* The last task is done: a step consumes the input that ingress took, if any, and adds
\* the payload of the last slot, if any, to what is produced.
LEMMA MapsEgressOpens ==
    ASSUME RefInv, RefInv', pc \in {"fsm", "stampout"}, pc' = "egress",
           UNCHANGED <<nsent, inq, log, trace, live, results>>,
           slots'[0].payload = slots[0].payload
    PROVE  \E n \in 0..1 : Pipe!Step(n)
<1> DEFINE m == TakenBefore(Len(log) + 1)
           n == Taken - m
<1>1. TookOne(m, Taken, slots[0].payload)
  BY DEF RefInv, InputsInOrder
<1>2. ~StepOpen /\ StepOpen'
  BY DEF StepOpen
<1>3. /\ OpenStep = <<>> /\ ConsumedCount = m /\ Produced = Given \o <<>>
      /\ OpenStep' = <<StepOf(slots')>> /\ ConsumedCount' = Taken
      /\ Produced' = Given \o Held(Output')
  BY <1>2 DEF OpenStep, ConsumedCount, Produced, StepOf, Held, Output, Taken, Given
<1>4. UNCHANGED <<AcceptedInputs, LoggedSteps, Arrived>>
  BY DEF AcceptedInputs, LoggedSteps, Arrived, StepOf, Held
<1>5. /\ Taken \in Nat /\ Taken <= nsent /\ nsent \in Nat /\ Len(AcceptedInputs) = nsent
      /\ AcceptedInputs \in Seq(1..Inputs) /\ Given \in Seq(Payload)
  BY SeenTypes DEF RefInv
<1>6. Held(Output') \in Seq(Payload)
  <2>1. slots' \in [0..Stages -> Slot] /\ Stages \in 0..Stages
    BY StagesAssumption DEF RefInv, TypeInv, TypeOK
  <2>2. slots'[Stages].payload \in Payload \cup {None}
    BY <2>1, SlotType
  <2> QED BY <2>2 DEF Held, Output
<1>7. /\ Produced = Given /\ Len(Produced) <= Len(Produced')
      /\ Produced = SubSeq(Produced', 1, Len(Produced))
      /\ SubSeq(Produced', Len(Produced) + 1, Len(Produced')) = Held(Output')
  <2> DEFINE new == Held(Output')
  <2> HIDE DEF new
  <2>1. new \in Seq(Payload) /\ Len(new) \in Nat /\ Len(Given) \in Nat
    BY <1>5, <1>6 DEF new
  <2>2. Produced = Given
    BY <1>3, <1>5
  <2>3. Produced' = Given \o new
    BY <1>3 DEF new
  <2>4. /\ Len(Given \o new) = Len(Given) + Len(new) /\ SubSeq(Given \o new, 1, Len(Given)) = Given
        /\ SubSeq(Given \o new, Len(Given) + 1, Len(Given \o new)) = new
    BY <1>5, <2>1, Extended
  <2> QED BY <2>1, <2>2, <2>3, <2>4 DEF new
<1>8. /\ n \in 0..1 /\ ConsumedCount' = ConsumedCount + n
      /\ Held(slots[0].payload) = SubSeq(AcceptedInputs, m + 1, Taken)
  <2>1. CASE Taken = m /\ slots[0].payload = None
    <3>1. SubSeq(AcceptedInputs, m + 1, Taken) = <<>>
      BY <1>5, <2>1, SubSeqEmpty
    <3> QED BY <1>3, <1>5, <2>1, <3>1 DEF Held
  <2>2. CASE Taken = m + 1 /\ slots[0].payload = Taken
    <3>1. m \in Nat
      <4>1. Len(log) \in Nat /\ trace \in Seq(Origin) /\ Len(trace) = Len(log)
        BY SMTT(30) DEF RefInv, TypeInv, TypeOK
      <4>2. Len(log) # 0 => trace[Len(log)].taken \in Nat
        <5>1. Len(log) # 0 => trace[Len(log)] \in Origin
          BY <4>1
        <5> QED BY <5>1 DEF Origin
      <4> QED BY <4>1, <4>2 DEF TakenBefore
    <3> HIDE DEF m
    <3>2. n = 1 /\ Taken \in 1..nsent
      BY <1>5, <2>2, <3>1
    <3>3. slots[0].payload # None
      BY <1>5, <2>2, PayloadAssumption
    <3>4. AcceptedInputs[Taken] = Taken
      BY <3>2 DEF AcceptedInputs
    <3>5. SubSeq(AcceptedInputs, Taken, Taken) = <<Taken>>
      BY <1>5, <3>2, <3>4, SubSeqOne
    <3>6. ConsumedCount' = ConsumedCount + n
      BY <1>3, <2>2, <3>2
    <3>7. Held(slots[0].payload) = <<Taken>>
      BY <2>2, <3>3 DEF Held
    <3>8. SubSeq(AcceptedInputs, m + 1, Taken) = <<Taken>>
      BY <2>2, <3>5, Zenon
    <3>9. n \in 0..1
      BY <3>2
    <3> HIDE DEF n
    <3> QED BY <3>6, <3>7, <3>8, <3>9, Zenon
  <2> QED BY <1>1, <2>1, <2>2 DEF TookOne
<1>9. OpenStep' = << [ ins  |-> SubSeq(AcceptedInputs, ConsumedCount + 1, ConsumedCount'),
                       outs |-> SubSeq(Produced', Len(Produced) + 1, Len(Produced')) ] >>
  <2>1. StepOf(slots') = [ins |-> Held(slots[0].payload), outs |-> Held(Output')]
    BY DEF StepOf, Output
  <2> QED BY <1>3, <1>7, <1>8, <2>1
<1>10. ConsumedCount' <= Len(AcceptedInputs)
  BY <1>3, <1>5
<1>11. Pipe!Step(n)
  BY <1>3, <1>4, <1>7, <1>8, <1>9, <1>10 DEF Pipe!Step
<1> QED BY <1>8, <1>11

\* Its copperlist is logged.
LEMMA MapsLog ==
    ASSUME RefInv, RefInv', NEW sends, NEW err, LogCopperlist(sends, err)
    PROVE  Pipe!Record
<1>1. /\ pc = "egress" /\ pc' = "idle" /\ UNCHANGED <<nsent, inq, live, results, slots>>
  BY DEF LogCopperlist, transportVars, cuVars
<1>2. /\ Len(log') = Len(log) + 1 /\ Len(log) \in Nat
      /\ \A n \in 1..Len(log) : log'[n] = log[n]
      /\ log'[Len(log) + 1] = slots
      /\ trace'[Len(log) + 1].taken = Taken
      /\ trace'[Len(log) + 1].given = Given \o Held(Output)
  BY Logged, SeenTypes DEF RefInv
<1>3. StepOpen /\ ~StepOpen'
  BY <1>1 DEF StepOpen
<1>4. Taken' = Taken /\ TakenBefore(Len(log) + 1)' = Taken
  <2>1. TypeInv
    BY DEF RefInv
  <2>2. TakenBefore(Len(log) + 1)' = Taken
    BY <2>1, TakenBeforeKept
  <2> QED BY <1>1, <2>2 DEF Taken
<1>5. Given' = Given \o Held(Output)
  <2>1. log' # <<>>
    BY <1>2, EmptySeq
  <2> QED BY <1>2, <2>1 DEF Given
<1>6. /\ ConsumedCount' = ConsumedCount /\ OpenStep = <<StepOf(slots)>> /\ OpenStep' = <<>>
      /\ AcceptedInputs' = AcceptedInputs /\ Arrived' = Arrived
  BY <1>1, <1>3, <1>4 DEF ConsumedCount, OpenStep, AcceptedInputs, Arrived
<1>7. Produced' = Produced
  <2>1. Given \o Held(Output) \in Seq(Payload)
    BY SeenTypes DEF RefInv
  <2>2. Produced' = (Given \o Held(Output)) \o <<>> /\ Produced = Given \o Held(Output)
    BY <1>3, <1>5 DEF Produced
  <2> QED BY <2>1, <2>2
<1>8. LoggedSteps' = LoggedSteps \o OpenStep
  <2>1. /\ LoggedSteps = [n \in 1..Len(log) |-> StepOf(log[n])]
        /\ LoggedSteps' = [n \in 1..(Len(log) + 1) |-> StepOf(log'[n])]
    BY <1>2 DEF LoggedSteps, StepOf, Held
  <2> DEFINE S == {StepOf(log[n]) : n \in 1..Len(log)} \cup {StepOf(slots)}
             step == StepOf(slots)
             longer == LoggedSteps \o <<step>>
  <2>2. /\ step \in S /\ \A n \in 1..Len(log) : StepOf(log[n]) \in S
    OBVIOUS
  <2>3. \A n \in 1..(Len(log) + 1) : StepOf(log'[n]) =
                                       IF n <= Len(log) THEN StepOf(log[n]) ELSE step
    BY <1>2 DEF StepOf, Held
  <2> HIDE DEF S, step
  <2>4. LoggedSteps \in Seq(S) /\ Len(LoggedSteps) = Len(log)
    BY <1>2, <2>1, <2>2
  <2>5. /\ longer \in Seq(S) /\ Len(longer) = Len(log) + 1 /\ longer[Len(log) + 1] = step
        /\ \A n \in 1..Len(log) : longer[n] = LoggedSteps[n]
    BY <1>2, <2>2, <2>4, SMTT(30)
  <2>6. \A n \in 1..(Len(log) + 1) : StepOf(log'[n]) \in S
    BY <1>2, <2>2, <2>3
  <2>7. LoggedSteps' \in Seq(S) /\ Len(LoggedSteps') = Len(log) + 1
    BY <1>2, <2>1, <2>6
  <2>8. \A n \in 1..(Len(log) + 1) : LoggedSteps'[n] = longer[n]
    BY <1>2, <2>1, <2>3, <2>5
  <2> HIDE DEF longer
  <2>9. LoggedSteps' = longer
    BY <2>5, <2>7, <2>8, SeqEqual
  <2> QED BY <1>6, <2>9 DEF longer, step
<1>9. OpenStep # <<>>
  BY <1>6
<1> QED BY <1>6, <1>7, <1>8, <1>9 DEF Pipe!Record

\* main collects an echo.
LEMMA UnseenCollect ==
    ASSUME RefInv, Collect
    PROVE  UNCHANGED seen
<1>1. /\ live' = Append(live, Head(results)) /\ results' = Tail(results) /\ results # <<>>
      /\ UNCHANGED <<nsent, inq, log, trace, pc, stage, slots>>
  BY DEF Collect, transportVars, cuVars, logVars
<1>2. Arrived' = Arrived
  BY <1>1, EchoTypes, MoveHead, SMTT(30) DEF RefInv, Arrived
<1> QED
  BY <1>1, <1>2 DEF seen, AcceptedInputs, ConsumedCount, OpenStep, LoggedSteps, Produced,
                    StepOpen, Taken, TakenBefore, Given, Output, StepOf, Held

\* Before the last task is done, nothing that ingress or a machine does is seen.
LEMMA UnseenInside ==
    ASSUME UNCHANGED <<nsent, log, trace, live, results>>, ~StepOpen, ~StepOpen'
    PROVE  UNCHANGED seen
BY DEF seen, AcceptedInputs, ConsumedCount, OpenStep, LoggedSteps, Produced, Arrived,
       TakenBefore, Given, StepOf, Held

LEMMA MapsNext == RefInv /\ RefInv' /\ [Next]_vars => Pipe!Next \/ UNCHANGED seen
<1> SUFFICES ASSUME RefInv, RefInv', [Next]_vars PROVE Pipe!Next \/ UNCHANGED seen
  OBVIOUS
<1> USE DEF transportVars, cuVars, machineVars, logVars
<1>1. TypeInv /\ AtEgress /\ stage \in 1..Stages /\ Stages \in Nat
  BY StagesAssumption DEF RefInv, TypeInv, TypeOK
<1>2. CASE SendInput
  BY <1>2, MapsSend DEF Pipe!Next
<1>3. CASE ReceiveEcho
  BY <1>3, MapsReceive DEF Pipe!Next
<1>4. ASSUME NEW sends, NEW err, LogCopperlist(sends, err) PROVE Pipe!Next
  BY <1>4, MapsLog DEF Pipe!Next
<1>5. CASE Collect
  BY <1>5, UnseenCollect
<1>6. CASE Tick
  BY <1>6, Unseen DEF Tick, StepOpen, Output
<1>7. ASSUME NEW result, Return(result) PROVE UNCHANGED seen
  BY <1>7, Unseen DEF Return, StepOpen, Output
<1>8. CASE UNCHANGED vars
  BY <1>8, Unseen DEF vars, StepOpen, Output
<1>9. CASE StartIteration \/ IngressOne \/ IngressNone \/ IngressStamp
  BY <1>9, UnseenInside DEF StartIteration, IngressOne, IngressNone, SetInput, IngressStamp,
                            StepOpen
<1>10. ASSUME NEW payload \in Payload \cup {None}, RunMachine(payload), pc = "fsm", Advance
       PROVE  Pipe!Next \/ UNCHANGED seen
  <2>1. slots'[0] = slots[0]
    BY <1>1, <1>10, MachineSlots
  <2>2. CASE pc' = "egress"
    BY <1>10, <2>1, <2>2, MapsEgressOpens DEF RunMachine, Pipe!Next
  <2>3. CASE pc' = "fsm"
    BY <1>10, <2>3, UnseenInside DEF RunMachine, StepOpen
  <2> QED BY <1>10, <2>2, <2>3 DEF Advance
<1>11. CASE FsmSome
  BY <1>11, UnseenInside DEF FsmSome, RunMachine, StepOpen
<1>12. CASE FsmNone
  BY <1>10, <1>12 DEF FsmNone
<1>13. CASE FsmExtraIgnored
  BY <1>10, <1>13 DEF FsmExtraIgnored, FsmExtra
<1>14. CASE FsmExtraPanics
  <2>1. slots'[stage].payload = None /\ stage' = stage /\ pc = "fsm" /\ pc' = "panicked"
    BY <1>1, <1>14, MachineSlots DEF FsmExtraPanics, FsmExtra
  <2>2. ~StepOpen /\ ~StepOpen'
    BY <2>1 DEF StepOpen, Output
  <2> QED BY <1>14, <2>2, UnseenInside DEF FsmExtraPanics, FsmExtra, RunMachine
<1>15. CASE FsmStamp
  <2>1. slots'[0] = slots[0]
    BY <1>1, <1>15, FsmStampSlots
  <2>2. CASE pc' = "egress"
    BY <1>15, <2>1, <2>2, MapsEgressOpens DEF FsmStamp, Pipe!Next
  <2>3. CASE pc' = "fsm"
    BY <1>15, <2>3, UnseenInside DEF FsmStamp, StepOpen
  <2> QED BY <1>15, <2>2, <2>3 DEF FsmStamp, Advance
<1>16. CASE EgressErrPanics
  <2>1. StepOpen /\ StepOpen'
    BY <1>1, <1>16 DEF EgressErrPanics, AtEgress, StepOpen, Output
  <2> QED BY <1>16, <2>1, Unseen DEF EgressErrPanics
<1>17. ASSUME NEW from \in {"idle", "collect", "join"}, NEW to \in {"collect", "join", "joined"},
              Goto(from, to)
       PROVE  UNCHANGED seen
  BY <1>17, Unseen DEF Goto, StepOpen
<1> QED
  BY <1>2, <1>3, <1>4, <1>5, <1>6, <1>7, <1>8, <1>9, <1>11, <1>12, <1>13, <1>14, <1>15,
     <1>16, <1>17
  DEF Next, Transport, SendRefused, ReceiveFails, ReceivedAll, Main, EgressOne, EgressNone,
      EgressErrIgnored, Stop, CollectFails, Collected, Join, Terminated

\* The single-message tasks implement Pipeline, for any chain of machines and any number
\* of inputs: steps consume the inputs in order, the log holds each step with what it
\* produced, and the transport is given what was produced, in order and once, up to a
\* failure of its own or a panic of the loop.
THEOREM PathIsPipeline == Spec => ImplementsPipeline
<1>1. Spec => []RefInv
  BY RefInvInit, RefInvStep, PTL DEF Spec
<1>2. RefInv /\ RefInv' /\ [Next]_vars => [Pipe!Next]_seen
  BY MapsNext
<1>3. Spec => [][Pipe!Next]_seen
  BY <1>1, <1>2, PTL DEF Spec
<1> QED
  BY <1>3, MapsInit, PTL DEF Spec, ImplementsPipeline, Pipe!Spec, Pipe!vars, seen
=============================================================================
