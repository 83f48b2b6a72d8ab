------------------------- MODULE CycleBridgeProofs -------------------------
(***************************************************************************)
(* Proofs about CycleBridge, for every value of its constants.             *)
(***************************************************************************)
EXTENDS CycleBridge, SequenceTheorems, TLAPS

-----------------------------------------------------------------------------
(***************************************************************************)
(* Sequences of bounded length.                                            *)
(***************************************************************************)
Batches(S, k) == UNION {[1..n -> S] : n \in 0..k}

\* A batch is a sequence no longer than the limit, and conversely.
LEMMA BatchIsSeq ==
    ASSUME NEW S, NEW k \in Nat, NEW s
    PROVE  s \in Batches(S, k) <=> s \in Seq(S) /\ Len(s) <= k
<1>1. ASSUME s \in Batches(S, k) PROVE s \in Seq(S) /\ Len(s) <= k
  <2>1. PICK n \in 0..k : s \in [1..n -> S]
    BY <1>1 DEF Batches
  <2>2. s \in Seq(S) /\ Len(s) = n
    BY <2>1, SMTT(30)
  <2> QED BY <2>2
<1>2. ASSUME s \in Seq(S), Len(s) <= k PROVE s \in Batches(S, k)
  <2>1. Len(s) \in 0..k /\ s \in [1..Len(s) -> S]
    BY <1>2
  <2> QED BY <2>1 DEF Batches
<1> QED BY <1>1, <1>2

\* The Cycle on the copperlist is well typed exactly when its fields are.
LEMMA CycleType ==
    TheCycle \in Cycle <=> /\ now_ns \in 0..MaxClock
                           /\ events \in Seq(1..MaxSent) /\ Len(events) <= MaxBatch
                           /\ pending \in 0..MaxSent
<1>1. MaxBatch \in Nat BY MaxBatchAssumption
<1>2. events \in Batches(1..MaxSent, MaxBatch)
        <=> events \in Seq(1..MaxSent) /\ Len(events) <= MaxBatch
  BY <1>1, BatchIsSeq
<1>3. Cycle = [now_ns : 0..MaxClock, events : Batches(1..MaxSent, MaxBatch),
               pending : 0..MaxSent]
  BY DEF Cycle, Batches
<1> QED BY <1>2, <1>3 DEF TheCycle

-----------------------------------------------------------------------------
(***************************************************************************)
(* Type correctness.                                                       *)
(***************************************************************************)
\* What TypeOK needs to be inductive: a blocked thread's own message is offered
\* but not accepted, and there is a batch only while it is being sent.
Offers == feeder = "blocked" => Len(sent) < offered

Slots == pc \notin {"egress", "panicked"} => outs = <<>> /\ cursor = 0

TypeInv == TypeOK /\ Offers /\ Slots

LEMMA TypeInit == Init => TypeInv
<1> SUFFICES ASSUME Init PROVE TypeInv
  OBVIOUS
<1>1. TheCycle \in Cycle
  <2>1. events \in Seq(1..MaxSent) /\ Len(events) = 0
    BY DEF Init
  <2> QED BY <2>1, CycleType, BoundAssumption, MaxBatchAssumption DEF Init
<1>2. \A S : <<>> \in Seq(S)
  OBVIOUS
<1>3. Len(<<>>) = 0
  OBVIOUS
<1>4. /\ clock \in 0..MaxClock /\ offered \in 0..MaxSent
      /\ Len(log) <= MaxCycles /\ ~InIteration
      /\ cursor \in 0..Len(outs) /\ Len(trace) = Len(log)
      /\ Len(inq) + Len(events) <= Len(sent) /\ Len(sent) <= offered
      /\ Len(outs) <= Len(emitted) /\ upto \in Nat
  BY <1>3, BoundAssumption DEF Init, InIteration
<1>5. TypeOK
  BY <1>1, <1>2, <1>3, <1>4, MachineAssumption DEF Init, TypeOK
<1> QED BY <1>5 DEF Init, TypeInv, Offers, Slots

LEMMA TypeStep == TypeInv /\ [Next]_vars => TypeInv'
<1> SUFFICES ASSUME TypeInv, [Next]_vars PROVE TypeInv'
  OBVIOUS
<1> USE BoundAssumption, MaxBatchAssumption
        DEF TypeInv, TypeOK, Offers, Slots, Message, InIteration, Sent,
            threadVars, cycleVars, fsmVars, logVars, loopVars
<1>1. now_ns \in 0..MaxClock /\ events \in Seq(1..MaxSent) /\ pending \in 0..MaxSent
  BY CycleType
<1>2. Len(events) <= MaxBatch
  BY CycleType
<1>3. ASSUME now_ns' \in 0..MaxClock, events' \in Seq(1..MaxSent), pending' \in 0..MaxSent,
             Len(events') <= MaxBatch
      PROVE  (TheCycle \in Cycle)'
  <2>1. events' \in Batches(1..MaxSent, MaxBatch)
    BY <1>3, BatchIsSeq
  <2> QED BY <1>3, <2>1 DEF TheCycle, Cycle, Batches
<1>0. /\ clock \in 0..MaxClock /\ offered \in 0..MaxSent /\ Len(log) \in 0..MaxCycles
      /\ Len(inq) \in Nat /\ Len(events) \in Nat /\ Len(sent) \in Nat
      /\ Len(inq) + Len(events) <= Len(sent) /\ Len(sent) <= offered /\ Offers
  BY <1>1
<1>4. CASE Tick
  BY <1>1, <1>2, <1>3, <1>4 DEF Tick
<1>5. CASE FeedAccepted
  <2> USE <1>5 DEF FeedAccepted, Accept
  <2>0. Len(inq) + 1 \in 0..MaxSent
    <3>1. offered < MaxSent
      OBVIOUS
    <3> QED BY ONLY <1>0, <3>1, BoundAssumption
  <2>1. Sent(offered + 1, Len(inq) + 1) \in Message /\ offered + 1 \in 1..MaxSent
    BY <2>0, SMTT(30)
  <2>2. sent' \in Seq(Message) /\ Len(sent') = Len(sent) + 1
    BY <2>1
  <2>3. inq' \in Seq(1..MaxSent) /\ Len(inq') = Len(inq) + 1
    BY <2>1
  <2>4. (TheCycle \in Cycle)'
    BY <1>1, <1>2, <1>3
  <2> QED BY <1>1, <2>2, <2>3, <2>4, SMTT(30)
<1>6. CASE FeedBlocks
  BY <1>1, <1>2, <1>3, <1>6, SMTT(30) DEF FeedBlocks
<1>7. CASE FeedShed
  BY <1>1, <1>2, <1>3, <1>7 DEF FeedShed
<1>8. CASE FeedUnblocked
  <2>0. /\ feeder = "blocked" /\ feeder' = "ready" /\ Accept(offered)
        /\ UNCHANGED <<clock, offered, relay, received, outq, loopVars>>
    BY <1>8 DEF FeedUnblocked
  <2>1. /\ Sent(offered, Len(inq) + 1) \in Message /\ offered \in 1..MaxSent
        /\ Len(sent) < offered
    <3>1. /\ offered \in 1..MaxSent /\ Len(sent) < offered /\ Len(inq) + 1 \in 0..MaxSent
      BY ONLY <1>0, <2>0, BoundAssumption DEF Offers
    <3> QED BY ONLY <1>0, <3>1, BoundAssumption DEF Sent, Message
  <2>2. sent' \in Seq(Message) /\ Len(sent') = Len(sent) + 1
    BY <2>0, <2>1 DEF Accept
  <2>3. inq' \in Seq(1..MaxSent) /\ Len(inq') = Len(inq) + 1
    BY <2>0, <2>1 DEF Accept
  <2>4. (TheCycle \in Cycle)'
    BY <1>1, <1>2, <1>3, <2>0
  <2>5. Offers' /\ Slots'
    <3>1. UNCHANGED <<pc, outs, cursor>>
      BY ONLY <2>0 DEF loopVars, fsmVars
    <3> QED BY ONLY TypeInv, <2>0, <3>1 DEF TypeInv, Offers, Slots
  <2>6. Len(inq') + Len(events') <= Len(sent') /\ Len(sent') <= offered'
    <3>1. events' = events /\ offered' = offered
      BY ONLY <2>0 DEF loopVars, cycleVars
    <3>2. Len(events') = Len(events)
      BY ONLY <3>1
    <3> QED BY ONLY <1>0, <2>1, <2>2, <2>3, <3>1, <3>2, SMTT(30)
  <2> QED BY <2>0, <2>2, <2>3, <2>4, <2>5, <2>6
<1>9. CASE FeedRefused
  BY <1>1, <1>2, <1>3, <1>9 DEF FeedRefused
<1>10. CASE FeederReturns
  BY <1>1, <1>2, <1>3, <1>10 DEF FeederReturns
<1>11. CASE RelayOne
  <2> USE <1>11 DEF RelayOne
  <2>1. Head(outq) \in Out /\ outq' \in Seq(Out)
    BY HeadTailProperties
  <2>2. received' \in Seq(Out)
    BY <2>1
  <2>3. (TheCycle \in Cycle)'
    BY <1>1, <1>2, <1>3
  <2> HIDE DEF RelayOne
  <2>4. UNCHANGED <<clock, feeder, offered, relay, inq, sent, loopVars>>
    BY DEF RelayOne
  <2> QED BY <1>1, <1>2, <2>1, <2>2, <2>3, <2>4
<1>12. CASE RelayEnds
  BY <1>1, <1>2, <1>3, <1>12 DEF RelayEnds
<1>13. CASE RelayFails
  BY <1>1, <1>2, <1>3, <1>13 DEF RelayFails
<1>14. CASE StartIteration
  BY <1>1, <1>2, <1>3, <1>14 DEF StartIteration
<1>15. CASE DrainOne
  <2> USE <1>15 DEF DrainOne
  <2>1. Head(inq) \in 1..MaxSent /\ inq' \in Seq(1..MaxSent) /\ Len(inq') = Len(inq) - 1
    BY HeadTailProperties
  <2>2. events' \in Seq(1..MaxSent) /\ Len(events') = Len(events) + 1
    BY <1>1, <2>1
  <2>3. (TheCycle \in Cycle)'
    BY <1>1, <1>2, <1>3, <2>2
  <2> QED BY <1>1, <2>1, <2>2, <2>3
<1>16. CASE DrainHandover
  <2> USE <1>16 DEF DrainHandover, Handover
  <2>1. Sent(offered, 0) \in Message /\ offered \in 1..MaxSent
    BY <1>1
  <2>2. sent' \in Seq(Message) /\ Len(sent') = Len(sent) + 1
    BY <2>1
  <2>3. events' \in Seq(1..MaxSent) /\ Len(events') = Len(events) + 1
    BY <1>1, <2>1
  <2>4. (TheCycle \in Cycle)'
    BY <1>1, <1>2, <1>3, <2>3
  <2> QED BY <1>1, <2>2, <2>3, <2>4
<1>17. CASE DrainEnds
  BY <1>1, <1>2, <1>3, <1>17 DEF DrainEnds, EndDrain
<1>18. CASE CountPending
  BY <1>1, <1>2, <1>3, <1>18 DEF CountPending
<1>19. CASE StampCycle
  BY <1>1, <1>2, <1>3, <1>19 DEF StampCycle
<1>20. CASE RunFsm
  <2>1. /\ FsmStep(machine, TheCycle).state \in MState
        /\ FsmStep(machine, TheCycle).outs \in Seq(Out)
    BY MachineAssumption
  <2> QED BY <1>1, <1>2, <1>3, <1>20, <2>1, SMTT(30) DEF RunFsm, StepMachine
<1>21. CASE EgressOne
  <2> USE <1>21 DEF EgressOne
  <2>1. outq' \in Seq(Out) /\ cursor' \in 0..Len(outs)
    BY SMTT(30)
  <2>2. (TheCycle \in Cycle)'
    BY <1>1, <1>2, <1>3
  <2> QED BY <2>1, <2>2
<1>22. ASSUME LogCopperlist, pc = "egress", cuError' \in BOOLEAN PROVE TypeInv'
  <2> DEFINE record == [cycle |-> TheCycle, outs |-> outs]
             origin == [first |-> Taken - Len(events), upto |-> upto,
                        outFirst |-> Len(emitted) - Len(outs),
                        before |-> before, after |-> machine]
  <2>0. log' = Append(log, record) /\ trace' = Append(trace, origin)
    BY <1>22 DEF LogCopperlist, LogWith
  <2> USE DEF LogCopperlist, LogWith
  <2>1. (TheCycle \in Cycle)'
    BY <1>1, <1>3, <1>22
  <2>2. record \in Record
    BY DEF Record
  <2>3. origin \in Origin
    BY <1>1 DEF Origin, Taken
  <2>4. /\ log' \in Seq(Record) /\ trace' \in Seq(Origin)
        /\ Len(log') = Len(log) + 1 /\ Len(trace') = Len(log')
    <3>1. log \in Seq(Record) /\ trace \in Seq(Origin) /\ Len(trace) = Len(log)
      OBVIOUS
    <3> HIDE DEF record, origin
    <3> QED BY ONLY <2>0, <2>2, <2>3, <3>1
  <2>5. Slots' /\ Offers'
    BY <1>22
  <2> QED BY <1>1, <1>22, <2>1, <2>4, <2>5, SMTT(30)
<1>23. CASE EndIteration
  BY <1>22, <1>23 DEF EndIteration
<1>24. CASE EgressErrIgnored
  BY <1>22, <1>24 DEF EgressErrIgnored, EgressErr
<1>25. CASE EgressErrPanics
  BY <1>1, <1>2, <1>3, <1>25 DEF EgressErrPanics, EgressErr
<1>26. CASE StopLoop
  BY <1>1, <1>2, <1>3, <1>26 DEF StopLoop
<1>27. CASE JoinDriver
  BY <1>1, <1>2, <1>3, <1>27 DEF JoinDriver
<1>28. CASE UNCHANGED vars
  BY <1>1, <1>2, <1>3, <1>28 DEF vars
<1> QED
  BY <1>4, <1>5, <1>6, <1>7, <1>8, <1>9, <1>10, <1>11, <1>12, <1>13, <1>14, <1>15,
     <1>16, <1>17, <1>18, <1>19, <1>20, <1>21, <1>23, <1>24, <1>25, <1>26, <1>27,
     <1>28 DEF Next, Feeder, Relay, Loop, Terminated

\* Every variable keeps its type in every reachable state: no drain exceeds
\* max_batch and egress stays within its batch.
THEOREM TypeCorrect == Spec => []TypeOK
<1>1. TypeInv => TypeOK
  BY DEF TypeInv
<1> QED BY <1>1, TypeInit, TypeStep, PTL DEF Spec

-----------------------------------------------------------------------------
(***************************************************************************)
(* The inbound path keeps the order of the messages.                       *)
(***************************************************************************)
\* No record, and not the current cycle, reaches past what was taken out of the
\* channel; needed so that a message accepted later is not in an old record.
SlicesBounded ==
    \A n \in 1..Len(log) :
        trace[n].first + Len(log[n].cycle.events) <= Taken - Len(events)

InOrderInv == MessagesInOrder /\ SlicesBounded

\* What TypeInv says of the variables of the inbound path.
LEMMA InboundTypes ==
    ASSUME TypeInv
    PROVE  /\ inq \in Seq(1..MaxSent) /\ events \in Seq(1..MaxSent)
           /\ sent \in Seq(Message) /\ Len(inq) + Len(events) <= Len(sent)
           /\ log \in Seq(Record) /\ trace \in Seq(Origin) /\ Len(trace) = Len(log)
           /\ \A n \in 1..Len(log) : /\ trace[n].first \in Nat
                                     /\ Len(log[n].cycle.events) \in Nat
<1> USE DEF TypeInv, TypeOK
<1>1. events \in Seq(1..MaxSent)
  BY CycleType
<1>2. \A n \in 1..Len(log) : trace[n] \in Origin /\ log[n] \in Record
  OBVIOUS
<1>3. ASSUME NEW c \in Cycle PROVE Len(c.events) \in Nat
  <2>1. c.events \in Batches(1..MaxSent, MaxBatch)
    BY DEF Cycle, Batches
  <2> QED BY <2>1, BatchIsSeq, MaxBatchAssumption
<1> QED BY <1>1, <1>2, <1>3 DEF Origin, Record

\* A step that touches neither the inbound channel nor the log keeps the order.
LEMMA InOrderFrame ==
    ASSUME InOrderInv, UNCHANGED <<inq, sent, events, log, trace>>
    PROVE  InOrderInv'
BY DEF InOrderInv, MessagesInOrder, QueueInOrder, BatchInOrder, LogInOrder, SlicesBounded,
       NextFirst, Taken

\* The records keep their slices while no slice moves and sent only grows.
LEMMA LogInOrderFrame ==
    ASSUME TypeInv, InOrderInv, UNCHANGED <<log, trace>>,
           Taken' - Len(events') = Taken - Len(events),
           Taken' = Len(events') <=> Taken = Len(events),
           \A k \in 1..Len(sent) : sent'[k] = sent[k]
    PROVE  LogInOrder' /\ SlicesBounded'
<1> USE InboundTypes DEF InOrderInv
<1>1. \A n \in 1..Len(log) : NextFirst(n)' = NextFirst(n)
  BY DEF NextFirst
<1>2. SlicesBounded'
  BY DEF SlicesBounded
<1>3. Taken \in Int /\ Len(events) \in Nat /\ Taken <= Len(sent)
  BY DEF Taken
<1>4. ASSUME NEW n \in 1..Len(log), NEW i \in 1..Len(log[n].cycle.events)
      PROVE  log[n].cycle.events[i] = sent'[trace[n].first + i].val
  <2> DEFINE len == Len(log[n].cycle.events)
  <2>0. /\ trace[n].first \in Nat /\ len \in Nat /\ Len(sent) \in Nat
        /\ trace[n].first + len <= Taken - Len(events)
    <3>1. SlicesBounded
      OBVIOUS
    <3> QED BY ONLY <3>1, n \in 1..Len(log), TypeInv, InboundTypes DEF SlicesBounded
  <2>1. trace[n].first + i \in 1..Len(sent)
    <3> DEFINE first == trace[n].first
    <3> HIDE DEF first, len
    <3>1. first \in Nat /\ len \in Nat /\ first + len <= Taken - Len(events)
      BY <2>0 DEF first, len
    <3>2. ASSUME NEW j \in 1..len PROVE first + j \in 1..Len(sent)
      BY ONLY <1>3, <2>0, <3>1, j \in 1..len
    <3>3. i \in 1..len
      BY DEF len
    <3>4. first + i \in 1..Len(sent)
      BY <3>2, <3>3
    <3> QED BY <3>4 DEF first
  <2>2. log[n].cycle.events[i] = sent[trace[n].first + i].val
    BY DEF MessagesInOrder, LogInOrder
  <2> QED BY <2>1, <2>2
<1>5. \A n \in 1..Len(log) : NextFirst(n) = trace[n].first + Len(log[n].cycle.events)
  BY DEF MessagesInOrder, LogInOrder
<1>6. (Len(log) > 0 => trace[1].first = 0) /\ (Len(log) = 0 => Taken = Len(events))
  BY DEF MessagesInOrder, LogInOrder
<1> QED BY <1>1, <1>2, <1>4, <1>5, <1>6 DEF LogInOrder

LEMMA InOrderAccept ==
    ASSUME TypeInv, InOrderInv, NEW v \in 1..MaxSent, Accept(v), UNCHANGED <<events, log, trace>>
    PROVE  InOrderInv'
<1>1. /\ Len(sent') = Len(sent) + 1 /\ Len(inq') = Len(inq) + 1
      /\ \A k \in 1..Len(sent) : sent'[k] = sent[k]
      /\ sent'[Len(sent) + 1].val = v
      /\ \A k \in 1..Len(inq) : inq'[k] = inq[k]
      /\ inq'[Len(inq) + 1] = v
  BY InboundTypes DEF Accept, Sent
<1>2. /\ Taken \in Nat /\ Taken + Len(inq) = Len(sent) /\ Len(events) <= Taken
      /\ Taken' = Taken /\ Len(inq) \in Nat /\ Len(events) \in Nat
  BY <1>1, InboundTypes DEF Taken
<1>3. ASSUME NEW i \in 1..Len(inq') PROVE inq'[i] = sent'[Taken' + i].val
  <2>1. CASE i = Len(inq) + 1
    BY <1>1, <1>2, <2>1
  <2>2. CASE i \in 1..Len(inq)
    <3>1. inq[i] = sent[Taken + i].val
      BY <2>2 DEF InOrderInv, MessagesInOrder, QueueInOrder
    <3> QED BY <1>1, <1>2, <2>2, <3>1
  <2> QED BY <1>1, <1>2, <2>1, <2>2
<1>4. ASSUME NEW i \in 1..Len(events) PROVE events[i] = sent'[Taken - Len(events) + i].val
  <2>1. events[i] = sent[Taken - Len(events) + i].val
    BY DEF InOrderInv, MessagesInOrder, BatchInOrder
  <2>2. Taken - Len(events) + i \in 1..Len(sent)
    BY <1>2
  <2> QED BY <1>1, <2>1, <2>2
<1>5. LogInOrder' /\ SlicesBounded'
  BY <1>1, <1>2, LogInOrderFrame
<1> QED BY <1>2, <1>3, <1>4, <1>5 DEF InOrderInv, MessagesInOrder, QueueInOrder, BatchInOrder

LEMMA InOrderDrainOne ==
    ASSUME TypeInv, InOrderInv, DrainOne
    PROVE  InOrderInv'
<1>1. /\ Len(inq') = Len(inq) - 1 /\ \A i \in 1..Len(inq') : inq'[i] = inq[i + 1]
      /\ Head(inq) = inq[1] /\ Len(inq) > 0 /\ Len(inq) \in Nat
  BY InboundTypes, HeadTailProperties DEF DrainOne
<1>2. /\ Len(events') = Len(events) + 1 /\ Len(events) \in Nat
      /\ \A i \in 1..Len(events) : events'[i] = events[i]
      /\ events'[Len(events) + 1] = inq[1]
  BY <1>1, InboundTypes DEF DrainOne
<1>3. UNCHANGED <<sent, log, trace>>
  BY DEF DrainOne, logVars
<1>4. /\ Taken \in Nat /\ Taken' = Taken + 1 /\ Len(events) <= Taken
      /\ Taken' - Len(events') = Taken - Len(events)
  BY <1>1, <1>2, <1>3, InboundTypes DEF Taken
<1>5. ASSUME NEW i \in 1..Len(inq') PROVE inq'[i] = sent'[Taken' + i].val
  <2>1. i + 1 \in 1..Len(inq) /\ Taken' + i = Taken + (i + 1)
    BY <1>1, <1>4
  <2>2. inq[i + 1] = sent[Taken + (i + 1)].val
    BY <2>1 DEF InOrderInv, MessagesInOrder, QueueInOrder
  <2> QED BY <1>1, <1>3, <2>1, <2>2
<1>6. ASSUME NEW i \in 1..Len(events')
      PROVE  events'[i] = sent'[Taken' - Len(events') + i].val
  <2>1. CASE i = Len(events) + 1
    <3>1. inq[1] = sent[Taken + 1].val
      BY <1>1 DEF InOrderInv, MessagesInOrder, QueueInOrder
    <3> QED BY <1>2, <1>3, <1>4, <2>1, <3>1
  <2>2. CASE i \in 1..Len(events)
    <3>1. events[i] = sent[Taken - Len(events) + i].val
      BY <2>2 DEF InOrderInv, MessagesInOrder, BatchInOrder
    <3> QED BY <1>2, <1>3, <1>4, <2>2, <3>1
  <2> QED BY <1>2, <2>1, <2>2
<1>7. LogInOrder' /\ SlicesBounded'
  BY <1>2, <1>3, <1>4, LogInOrderFrame
<1> QED BY <1>5, <1>6, <1>7 DEF InOrderInv, MessagesInOrder, QueueInOrder, BatchInOrder

LEMMA InOrderHandover ==
    ASSUME TypeInv, InOrderInv, DrainHandover
    PROVE  InOrderInv'
<1>1. /\ Len(sent') = Len(sent) + 1 /\ Len(sent) \in Nat
      /\ \A k \in 1..Len(sent) : sent'[k] = sent[k]
      /\ sent'[Len(sent) + 1].val = offered
  BY InboundTypes DEF DrainHandover, Sent
<1>2. /\ Len(events') = Len(events) + 1 /\ Len(events) \in Nat
      /\ \A i \in 1..Len(events) : events'[i] = events[i]
      /\ events'[Len(events) + 1] = offered
  <2>1. offered \in 1..MaxSent
    BY InboundTypes DEF DrainHandover, Handover, TypeInv, Offers, TypeOK
  <2> QED BY <2>1, InboundTypes DEF DrainHandover
<1>3. UNCHANGED <<inq, log, trace>> /\ Len(inq) = 0
  BY DEF DrainHandover, logVars
<1>4. /\ Taken = Len(sent) /\ Taken' = Taken + 1 /\ Len(events) <= Taken
      /\ Taken' - Len(events') = Taken - Len(events)
  BY <1>1, <1>2, <1>3, InboundTypes DEF Taken
<1>5. ASSUME NEW i \in 1..Len(events')
      PROVE  events'[i] = sent'[Taken' - Len(events') + i].val
  <2>1. CASE i = Len(events) + 1
    BY <1>1, <1>2, <1>4, <2>1
  <2>2. CASE i \in 1..Len(events)
    <3>1. events[i] = sent[Taken - Len(events) + i].val
      BY <2>2 DEF InOrderInv, MessagesInOrder, BatchInOrder
    <3> QED BY <1>1, <1>2, <1>4, <2>2, <3>1
  <2> QED BY <1>2, <2>1, <2>2
<1>6. LogInOrder' /\ SlicesBounded'
  BY <1>1, <1>2, <1>3, <1>4, LogInOrderFrame
<1>7. QueueInOrder'
  BY <1>3 DEF QueueInOrder
<1> QED BY <1>5, <1>6, <1>7 DEF InOrderInv, MessagesInOrder, BatchInOrder

\* What a copperlist adds to the log, whatever its output.
LEMMA LogAppends ==
    ASSUME TypeInv, LogCopperlist
    PROVE  /\ Len(log') = Len(log) + 1 /\ Len(trace') = Len(log')
           /\ \A n \in 1..Len(log) : log'[n] = log[n] /\ trace'[n] = trace[n]
           /\ log'[Len(log')] = [cycle |-> TheCycle, outs |-> outs]
           /\ trace'[Len(log')] = [ first    |-> Taken - Len(events),
                                    upto     |-> upto,
                                    outFirst |-> Len(emitted) - Len(outs),
                                    before   |-> before,
                                    after    |-> machine ]
BY InboundTypes DEF LogCopperlist, LogWith

LEMMA InOrderLog ==
    ASSUME TypeInv, InOrderInv, LogCopperlist
    PROVE  InOrderInv'
<1> DEFINE last == Len(log')
<1>1. /\ events' = <<>> /\ Len(events') = 0 /\ UNCHANGED <<inq, sent>> /\ Taken' = Taken
  BY DEF LogCopperlist, LogWith, Taken
<1>2. /\ Taken \in Nat /\ Len(events) \in Nat /\ Len(log) \in Nat
      /\ last = Len(log) + 1 /\ last \in Nat
  BY InboundTypes, LogAppends DEF Taken
<1>3. /\ log'[last].cycle.events = events /\ trace'[last].first = Taken - Len(events)
  BY LogAppends DEF TheCycle
<1>4. \A n \in 1..Len(log) : log'[n] = log[n] /\ trace'[n] = trace[n]
  BY LogAppends
<1> HIDE DEF last
<1>5. ASSUME NEW n \in 1..last
      PROVE  /\ NextFirst(n)' = trace'[n].first + Len(log'[n].cycle.events)
             /\ \A i \in 1..Len(log'[n].cycle.events) :
                   log'[n].cycle.events[i] = sent'[trace'[n].first + i].val
             /\ trace'[n].first + Len(log'[n].cycle.events) <= Taken' - Len(events')
  <2>0. n = last \/ n \in 1..Len(log)
    BY ONLY <1>2, n \in 1..last
  <2>1. CASE n = last
    <3>1. NextFirst(n)' = Taken
      BY <1>1, <1>2, <2>1 DEF NextFirst, last
    <3>2. Taken = trace'[n].first + Len(log'[n].cycle.events)
      BY <1>2, <1>3, <2>1
    <3>3. \A i \in 1..Len(events) : events[i] = sent'[trace'[n].first + i].val
      BY <1>1, <1>3, <2>1 DEF InOrderInv, MessagesInOrder, BatchInOrder
    <3>4. Len(events') = 0 /\ log'[n].cycle.events = events
      BY <1>1, <1>3, <2>1
    <3>5. Taken <= Taken' - Len(events')
      BY ONLY <1>1, <1>2, <3>4
    <3> QED BY <3>1, <3>2, <3>3, <3>4, <3>5
  <2>2. CASE n \in 1..Len(log)
    <3>1. NextFirst(n)' = NextFirst(n)
      BY <1>1, <1>2, <1>3, <1>4, <2>2 DEF NextFirst, last
    <3>2. /\ NextFirst(n) = trace[n].first + Len(log[n].cycle.events)
          /\ \A i \in 1..Len(log[n].cycle.events) :
                log[n].cycle.events[i] = sent[trace[n].first + i].val
          /\ trace[n].first + Len(log[n].cycle.events) <= Taken - Len(events)
      BY <2>2 DEF InOrderInv, MessagesInOrder, LogInOrder, SlicesBounded
    <3>3. trace[n].first \in Nat /\ Len(log[n].cycle.events) \in Nat
      BY <2>2, InboundTypes
    <3>4. log'[n] = log[n] /\ trace'[n] = trace[n]
      BY <1>4, <2>2
    <3>5. trace[n].first + Len(log[n].cycle.events) <= Taken' - Len(events')
      <4> DEFINE end == trace[n].first + Len(log[n].cycle.events)
      <4>1. end \in Nat /\ end <= Taken - Len(events)
        BY <3>2, <3>3
      <4> HIDE DEF end
      <4>2. end <= Taken' - Len(events')
        BY ONLY <1>1, <1>2, <4>1
      <4> QED BY <4>2 DEF end
    <3> QED BY <1>1, <3>1, <3>2, <3>4, <3>5
  <2> QED BY <2>0, <2>1, <2>2
<1>6. trace'[1].first = 0
  <2>1. CASE Len(log) = 0
    BY <1>2, <1>3, <2>1 DEF InOrderInv, MessagesInOrder, LogInOrder
  <2>2. CASE Len(log) > 0
    BY <1>2, <1>4, <2>2 DEF InOrderInv, MessagesInOrder, LogInOrder
  <2> QED BY <1>2, <2>1, <2>2
<1>7. LogInOrder' /\ SlicesBounded'
  BY <1>2, <1>5, <1>6 DEF LogInOrder, SlicesBounded, last
<1>8. QueueInOrder' /\ BatchInOrder'
  BY <1>1 DEF InOrderInv, MessagesInOrder, QueueInOrder, BatchInOrder
<1> QED BY <1>7, <1>8 DEF InOrderInv, MessagesInOrder

LEMMA InOrderInit == Init => InOrderInv
BY DEF Init, InOrderInv, MessagesInOrder, QueueInOrder, BatchInOrder, LogInOrder,
       SlicesBounded, Taken

LEMMA InOrderStep == TypeInv /\ InOrderInv /\ [Next]_vars => InOrderInv'
<1> SUFFICES ASSUME TypeInv, InOrderInv, [Next]_vars PROVE InOrderInv'
  OBVIOUS
<1> USE DEF loopVars, logVars, cycleVars
<1>1. CASE FeedAccepted
  <2>1. offered + 1 \in 1..MaxSent
    BY <1>1, BoundAssumption DEF FeedAccepted, TypeInv, TypeOK
  <2> QED BY <1>1, <2>1, InOrderAccept DEF FeedAccepted
<1>2. CASE FeedUnblocked
  <2>1. offered \in 1..MaxSent
    BY <1>2, InboundTypes DEF FeedUnblocked, TypeInv, Offers, TypeOK
  <2> QED BY <1>2, <2>1, InOrderAccept DEF FeedUnblocked
<1>3. CASE DrainOne
  BY <1>3, InOrderDrainOne
<1>4. CASE DrainHandover
  BY <1>4, InOrderHandover
<1>5. CASE EndIteration \/ EgressErrIgnored
  BY <1>5, InOrderLog DEF EndIteration, EgressErrIgnored
<1>6. CASE \/ Tick \/ FeedBlocks \/ FeedShed \/ FeedRefused \/ FeederReturns \/ Relay
  BY <1>6, InOrderFrame DEF Tick, FeedBlocks, FeedShed, FeedRefused, FeederReturns,
                            Relay, RelayOne, RelayEnds, RelayFails
<1>7. CASE \/ StartIteration \/ DrainEnds \/ CountPending \/ StampCycle \/ RunFsm
           \/ EgressOne \/ EgressErrPanics \/ StopLoop \/ JoinDriver
  BY <1>7, InOrderFrame DEF StartIteration, DrainEnds, EndDrain, CountPending, StampCycle,
                            RunFsm, StepMachine, EgressOne, EgressErrPanics, StopLoop, JoinDriver
<1>8. CASE UNCHANGED vars
  BY <1>8, InOrderFrame DEF vars
<1> QED
  BY <1>1, <1>2, <1>3, <1>4, <1>5, <1>6, <1>7, <1>8 DEF Next, Feeder, Loop, Terminated

\* No message accepted by the inbound channel is lost, duplicated or overtaken on
\* its way into the log.
THEOREM InboundFifo == Spec => []MessagesInOrder
<1>1. InOrderInv => MessagesInOrder
  BY DEF InOrderInv
<1> QED BY <1>1, InOrderInit, TypeInit, TypeStep, InOrderStep, PTL DEF Spec

-----------------------------------------------------------------------------
(***************************************************************************)
(* The time of a cycle, and what an underfull cycle says.                  *)
(***************************************************************************)
\* The clock was read for the current cycle.
Stamped == pc \in {"fsm", "egress", "panicked"}

\* Nothing was accepted and no cycle was stamped later than the clock now shows;
\* the stamp of the current cycle, once taken, is no earlier than its messages
\* and than the stamps in the log.
PastOnly == /\ \A i \in 1..Len(sent) : sent[i].at <= clock
            /\ \A n \in 1..Len(log) : log[n].cycle.now_ns <= clock

StampCovers ==
    Stamped => /\ now_ns <= clock
               /\ \A i \in 1..Len(events) : sent[Taken - Len(events) + i].at <= now_ns
               /\ \A n \in 1..Len(log) : log[n].cycle.now_ns <= now_ns

TimeInv == PastOnly /\ StampCovers /\ CycleTimeCoversEvents

LEMMA TimeTypes ==
    ASSUME TypeInv
    PROVE  /\ clock \in Nat /\ now_ns \in Nat
           /\ \A i \in 1..Len(sent) : sent[i].at \in Nat
           /\ \A n \in 1..Len(log) : log[n].cycle.now_ns \in Nat
<1>1. clock \in Nat /\ now_ns \in Nat
  BY CycleType, BoundAssumption DEF TypeInv, TypeOK
<1>2. ASSUME NEW i \in 1..Len(sent) PROVE sent[i].at \in Nat
  <2>1. sent[i] \in Message
    BY InboundTypes
  <2> QED BY <2>1, BoundAssumption DEF Message
<1>3. ASSUME NEW n \in 1..Len(log) PROVE log[n].cycle.now_ns \in Nat
  <2>1. log[n] \in Record
    BY InboundTypes
  <2>2. log[n].cycle \in Cycle
    BY <2>1 DEF Record
  <2> QED BY <2>2, BoundAssumption DEF Cycle
<1> QED BY <1>1, <1>2, <1>3

\* A record's messages are among those accepted.
LEMMA SliceInSent ==
    ASSUME TypeInv, InOrderInv, NEW n \in 1..Len(log), NEW i \in 1..Len(log[n].cycle.events)
    PROVE  trace[n].first + i \in 1..Len(sent)
<1> DEFINE len == Len(log[n].cycle.events)
<1>1. /\ trace[n].first \in Nat /\ len \in Nat /\ Len(sent) \in Nat /\ Taken <= Len(sent)
      /\ Taken \in Nat /\ Len(events) \in Nat
      /\ trace[n].first + len <= Taken - Len(events) /\ i \in 1..len
  BY InboundTypes DEF InOrderInv, SlicesBounded, Taken
<1> DEFINE first == trace[n].first
<1> HIDE DEF first, len
<1>2. first \in Nat /\ first + len <= Taken - Len(events)
  BY <1>1 DEF first
<1>3. first + i \in 1..Len(sent)
  BY ONLY <1>1, <1>2
<1> QED BY <1>3 DEF first

\* A step that takes no stamp and writes no record, and during which whatever is
\* accepted is accepted now.
LEMMA TimeFrame ==
    ASSUME TypeInv, InOrderInv, TimeInv, UNCHANGED <<clock, log, trace>>,
           Len(sent') \in Nat, \A k \in 1..Len(sent) : k \in 1..Len(sent') /\ sent'[k] = sent[k],
           \A k \in 1..Len(sent') : k \in 1..Len(sent) \/ sent'[k].at = clock,
           Stamped' => Stamped /\ UNCHANGED <<now_ns, events>> /\ Taken' = Taken
    PROVE  TimeInv'
<1>1. PastOnly'
  BY TimeTypes DEF TimeInv, PastOnly
<1>2. StampCovers'
  <2> SUFFICES ASSUME Stamped' PROVE StampCovers'
    BY DEF StampCovers
  <2>1. \A i \in 1..Len(events) : Taken - Len(events) + i \in 1..Len(sent)
    BY InboundTypes DEF Taken
  <2>2. /\ now_ns <= clock
        /\ \A i \in 1..Len(events) : sent[Taken - Len(events) + i].at <= now_ns
        /\ \A n \in 1..Len(log) : log[n].cycle.now_ns <= now_ns
    BY DEF TimeInv, StampCovers
  <2> QED BY <2>1, <2>2 DEF StampCovers
<1>3. CycleTimeCoversEvents'
  BY SliceInSent, ZenonT(30) DEF TimeInv, CycleTimeCoversEvents
<1> QED BY <1>1, <1>2, <1>3 DEF TimeInv

LEMMA TimeLog ==
    ASSUME TypeInv, InOrderInv, TimeInv, LogCopperlist, Stamped
    PROVE  TimeInv'
<1> DEFINE last == Len(log')
<1>1. /\ UNCHANGED <<clock, sent>> /\ ~Stamped'
      /\ last = Len(log) + 1 /\ Len(log) \in Nat
      /\ \A n \in 1..Len(log) : log'[n] = log[n] /\ trace'[n] = trace[n]
      /\ log'[last].cycle.now_ns = now_ns /\ log'[last].cycle.events = events
      /\ trace'[last].first = Taken - Len(events)
  BY LogAppends, InboundTypes DEF LogCopperlist, LogWith, Stamped, TheCycle
<1>2. /\ now_ns <= clock
      /\ \A i \in 1..Len(events) : sent[Taken - Len(events) + i].at <= now_ns
      /\ \A n \in 1..Len(log) : log[n].cycle.now_ns <= now_ns
  BY DEF TimeInv, StampCovers
<1> HIDE DEF last
<1>3. PastOnly'
  BY <1>1, <1>2 DEF TimeInv, PastOnly, last
<1>4. ASSUME NEW n \in 1..last
      PROVE  /\ \A i \in 1..Len(log'[n].cycle.events) :
                   sent'[trace'[n].first + i].at <= log'[n].cycle.now_ns
             /\ n < last => log'[n].cycle.now_ns <= log'[n + 1].cycle.now_ns
  <2>1. CASE n = last
    BY <1>1, <1>2, <2>1
  <2>2. CASE n \in 1..Len(log)
    <3>1. /\ \A i \in 1..Len(log[n].cycle.events) :
                sent[trace[n].first + i].at <= log[n].cycle.now_ns
          /\ n < Len(log) => log[n].cycle.now_ns <= log[n + 1].cycle.now_ns
      BY <2>2 DEF TimeInv, CycleTimeCoversEvents
    <3>2. log'[n].cycle.now_ns <= log'[n + 1].cycle.now_ns
      <4>1. CASE n = Len(log)
        BY <1>1, <1>2, <2>2, <4>1
      <4>2. CASE n < Len(log)
        BY <1>1, <2>2, <3>1, <4>2
      <4> QED BY <1>1, <2>2, <4>1, <4>2
    <3> QED BY <1>1, <2>2, <3>1, <3>2
  <2> QED BY <1>1, <2>1, <2>2
<1>5. CycleTimeCoversEvents'
  BY <1>4 DEF CycleTimeCoversEvents, last
<1> QED BY <1>1, <1>3, <1>5 DEF TimeInv, StampCovers

\* A step after which the channel holds the accepted messages it held, or one more.
Grows == \/ UNCHANGED sent
         \/ \E v \in 1..MaxSent, place \in Nat : sent' = Append(sent, Sent(v, place))

LEMMA GrowsTypes ==
    ASSUME TypeInv, Grows
    PROVE  /\ Len(sent') \in Nat
           /\ \A k \in 1..Len(sent) : k \in 1..Len(sent') /\ sent'[k] = sent[k]
           /\ \A k \in 1..Len(sent') : k \in 1..Len(sent) \/ sent'[k].at = clock
<1>1. sent \in Seq(Message)
  BY InboundTypes
<1>2. CASE UNCHANGED sent
  BY <1>1, <1>2
<1>3. ASSUME NEW v \in 1..MaxSent, NEW place \in Nat, sent' = Append(sent, Sent(v, place))
      PROVE  /\ Len(sent') = Len(sent) + 1 /\ sent'[Len(sent) + 1].at = clock
             /\ \A k \in 1..Len(sent) : sent'[k] = sent[k]
  BY <1>1, <1>3 DEF Sent
<1> QED BY <1>1, <1>2, <1>3 DEF Grows

\* Every step but a stamp, a record and a tick is covered by TimeFrame.
QuietStep == \/ Feeder \/ Relay \/ StartIteration \/ DrainOne \/ DrainHandover \/ DrainEnds
             \/ CountPending \/ RunFsm \/ EgressOne \/ EgressErrPanics
             \/ StopLoop \/ JoinDriver \/ UNCHANGED vars

LEMMA QuietStepFrame ==
    ASSUME TypeInv, QuietStep
    PROVE  /\ Grows /\ UNCHANGED <<clock, log, trace>>
           /\ pc \in {"fsm", "egress", "panicked", "count", "stamp"} =>
                 UNCHANGED <<now_ns, events, upto>> /\ Taken' = Taken
           /\ pc \notin {"fsm", "egress", "panicked"} => ~Stamped'
<1> USE DEF threadVars, cycleVars, fsmVars, logVars, loopVars, Stamped, Grows, Taken
<1>1. CASE Feeder
  <2>1. ASSUME NEW v \in 1..MaxSent, Accept(v) PROVE Grows /\ Taken' = Taken
    <3>1. /\ inq \in Seq(1..MaxSent) /\ sent \in Seq(Message)
          /\ inq' = Append(inq, v) /\ sent' = Append(sent, Sent(v, Len(inq) + 1))
      BY <2>1, InboundTypes DEF Accept
    <3>2. /\ Len(inq') = Len(inq) + 1 /\ Len(sent') = Len(sent) + 1
      BY ONLY <3>1
    <3>3. Len(inq) \in Nat /\ Len(sent) \in Nat
      BY ONLY <3>1
    <3>4. Taken' = Taken
      BY ONLY <3>2, <3>3 DEF Taken
    <3>5. Grows
      BY <3>1, <3>3
    <3> QED BY <3>4, <3>5
  <2>2. CASE FeedAccepted
    <3>1. offered + 1 \in 1..MaxSent
      BY <2>2, BoundAssumption DEF FeedAccepted, TypeInv, TypeOK
    <3> QED BY <2>1, <2>2, <3>1 DEF FeedAccepted
  <2>3. CASE FeedUnblocked
    <3>1. offered \in 1..MaxSent
      BY <2>3, InboundTypes DEF FeedUnblocked, TypeInv, Offers, TypeOK
    <3> QED BY <2>1, <2>3, <3>1 DEF FeedUnblocked
  <2> QED BY <1>1, <2>2, <2>3 DEF Feeder, FeedBlocks, FeedShed, FeedRefused, FeederReturns
<1>2. CASE Relay
  BY <1>2 DEF Relay, RelayOne, RelayEnds, RelayFails
<1>3. CASE DrainHandover
  <2>1. offered \in 1..MaxSent
    BY <1>3, InboundTypes DEF DrainHandover, Handover, TypeInv, Offers, TypeOK
  <2> QED BY <1>3, <2>1 DEF DrainHandover
<1>4. CASE \/ StartIteration \/ DrainOne \/ DrainEnds \/ CountPending
  BY <1>4 DEF StartIteration, DrainOne, DrainEnds, EndDrain, CountPending
<1>5. CASE RunFsm \/ EgressOne \/ EgressErrPanics \/ StopLoop \/ JoinDriver
  BY <1>5 DEF RunFsm, StepMachine, EgressOne, EgressErrPanics, EgressErr, StopLoop, JoinDriver
<1>6. CASE UNCHANGED vars
  BY <1>6 DEF vars
<1> QED BY <1>1, <1>2, <1>3, <1>4, <1>5, <1>6 DEF QuietStep

LEMMA TimeStep == TypeInv /\ InOrderInv /\ TimeInv /\ [Next]_vars => TimeInv'
<1> SUFFICES ASSUME TypeInv, InOrderInv, TimeInv, [Next]_vars PROVE TimeInv'
  OBVIOUS
<1>1. CASE QuietStep
  BY <1>1, QuietStepFrame, GrowsTypes, TimeFrame DEF Stamped
<1>2. CASE Tick
  <2>1. /\ clock' = clock + 1
        /\ UNCHANGED <<sent, log, trace, pc, now_ns, events, inq>>
    BY <1>2 DEF Tick, loopVars, cycleVars, logVars
  <2>2. PastOnly' /\ StampCovers'
    BY <2>1, TimeTypes DEF TimeInv, PastOnly, StampCovers, Stamped, Taken
  <2>3. CycleTimeCoversEvents'
    BY <2>1 DEF TimeInv, CycleTimeCoversEvents
  <2> QED BY <2>2, <2>3 DEF TimeInv
<1>3. CASE StampCycle
  <2>1. /\ now_ns' = clock
        /\ UNCHANGED <<clock, sent, log, trace, events, inq>>
    BY <1>3 DEF StampCycle, logVars
  <2>2. \A i \in 1..Len(events) : Taken - Len(events) + i \in 1..Len(sent)
    BY InboundTypes DEF Taken
  <2>3. PastOnly' /\ StampCovers'
    BY <2>1, <2>2, TimeTypes DEF TimeInv, PastOnly, StampCovers, Taken
  <2>4. CycleTimeCoversEvents'
    BY <2>1 DEF TimeInv, CycleTimeCoversEvents
  <2> QED BY <2>3, <2>4 DEF TimeInv
<1>4. CASE EndIteration \/ EgressErrIgnored
  BY <1>4, TimeLog DEF EndIteration, EgressErrIgnored, EgressErr, Stamped
<1> QED
  BY <1>1, <1>2, <1>3, <1>4 DEF QuietStep, Next, Loop, Terminated

\* The time recorded with a cycle is no earlier than the sending of any of its
\* messages, and cycle times never decrease.
THEOREM TimeCoversEvents == Spec => []CycleTimeCoversEvents
<1>1. Init => TimeInv
  BY DEF Init, TimeInv, PastOnly, StampCovers, Stamped, CycleTimeCoversEvents
<1>2. TimeInv => CycleTimeCoversEvents
  BY DEF TimeInv
<1> QED BY <1>1, <1>2, TypeInit, TypeStep, InOrderInit, InOrderStep, TimeStep, PTL DEF Spec

-----------------------------------------------------------------------------
\* The drain of the current cycle is over, and what its end says of the queue.
Drained == pc \in {"count", "stamp", "fsm", "egress", "panicked"}

DrainSaid ==
    Drained => \/ Len(events) = MaxBatch /\ Taken <= upto
               \/ Len(events) < MaxBatch /\ Taken = upto

UnderfullInv == DrainSaid /\ UnderfullCycleEmptiesQueue

LEMMA UnderfullStep ==
    TypeInv /\ InOrderInv /\ UnderfullInv /\ [Next]_vars => UnderfullInv'
<1> SUFFICES ASSUME TypeInv, InOrderInv, UnderfullInv, [Next]_vars PROVE UnderfullInv'
  OBVIOUS
<1>1. ASSUME UNCHANGED <<log, trace>>, Drained' => Drained,
             Drained => UNCHANGED <<events, upto>> /\ Taken' = Taken
      PROVE  UnderfullInv'
  BY <1>1 DEF UnderfullInv, DrainSaid, UnderfullCycleEmptiesQueue
<1>2. CASE DrainEnds
  <2>1. /\ UNCHANGED <<events, inq, sent, log, trace>> /\ upto' = Len(sent)
        /\ Len(events) = MaxBatch \/ Len(inq) = 0
    BY <1>2 DEF DrainEnds, EndDrain, logVars
  <2>2. Len(events) <= MaxBatch /\ Len(events) \in Nat
    BY CycleType, InboundTypes DEF TypeInv, TypeOK
  <2>3. DrainSaid'
    BY <2>1, <2>2, InboundTypes, MaxBatchAssumption DEF DrainSaid, Taken
  <2> QED BY <2>1, <2>3 DEF UnderfullInv, UnderfullCycleEmptiesQueue
<1>3. CASE EndIteration \/ EgressErrIgnored
  <2> DEFINE last == Len(log')
  <2>1. LogCopperlist /\ Drained
    BY <1>3 DEF EndIteration, EgressErrIgnored, EgressErr, Drained
  <2>2. /\ ~Drained' /\ last = Len(log) + 1 /\ Len(log) \in Nat
        /\ \A n \in 1..Len(log) : log'[n] = log[n] /\ trace'[n] = trace[n]
        /\ log'[last].cycle.events = events /\ trace'[last].upto = upto
        /\ trace'[last].first + Len(events) = Taken
    BY <2>1, LogAppends, InboundTypes DEF LogCopperlist, LogWith, Drained, TheCycle, Taken
  <2>3. \/ Len(events) = MaxBatch /\ Taken <= upto
        \/ Len(events) < MaxBatch /\ Taken = upto
    BY <2>1 DEF UnderfullInv, DrainSaid
  <2> HIDE DEF last
  <2>4. ASSUME NEW n \in 1..last
        PROVE  \/ /\ Len(log'[n].cycle.events) = MaxBatch
                  /\ trace'[n].first + Len(log'[n].cycle.events) <= trace'[n].upto
               \/ /\ Len(log'[n].cycle.events) < MaxBatch
                  /\ trace'[n].first + Len(log'[n].cycle.events) = trace'[n].upto
    <3>1. CASE n = last
      BY <2>2, <2>3, <3>1
    <3>2. CASE n \in 1..Len(log)
      BY <2>2, <3>2 DEF UnderfullInv, UnderfullCycleEmptiesQueue
    <3> QED BY <2>2, <3>1, <3>2
  <2> QED BY <2>2, <2>4 DEF UnderfullInv, DrainSaid, UnderfullCycleEmptiesQueue, last
<1>4. CASE Tick
  BY <1>1, <1>4 DEF Tick, loopVars, cycleVars, logVars, Drained, Taken
<1>5. CASE StampCycle
  BY <1>1, <1>5 DEF StampCycle, logVars, Drained, Taken
<1>6. CASE QuietStep /\ ~DrainEnds
  <2>1. Drained' => Drained
    <3> USE DEF loopVars, Drained
    <3>1. CASE Feeder \/ Relay
      BY <3>1 DEF Feeder, FeedAccepted, FeedBlocks, FeedShed, FeedUnblocked, FeedRefused,
                  FeederReturns, Relay, RelayOne, RelayEnds, RelayFails
    <3>2. CASE \/ StartIteration \/ DrainOne \/ DrainHandover \/ CountPending \/ RunFsm
               \/ EgressOne \/ EgressErrPanics \/ StopLoop \/ JoinDriver
      BY <3>2 DEF StartIteration, DrainOne, DrainHandover, CountPending, RunFsm, StepMachine,
                  EgressOne, EgressErrPanics, EgressErr, StopLoop, JoinDriver
    <3> QED BY <1>6, <3>1, <3>2 DEF QuietStep, vars
  <2> QED BY <1>1, <1>6, <2>1, QuietStepFrame DEF Drained
<1> QED
  BY <1>2, <1>3, <1>4, <1>5, <1>6 DEF QuietStep, Next, Loop, Terminated

\* A cycle that did not fill its batch emptied the channel; a full one has exactly
\* max_batch messages.
THEOREM UnderfullEmpties == Spec => []UnderfullCycleEmptiesQueue
<1>1. Init => UnderfullInv
  BY DEF Init, UnderfullInv, DrainSaid, Drained, UnderfullCycleEmptiesQueue
<1>2. UnderfullInv => UnderfullCycleEmptiesQueue
  BY DEF UnderfullInv
<1> QED BY <1>1, <1>2, TypeInit, TypeStep, InOrderInit, InOrderStep, UnderfullStep, PTL DEF Spec

-----------------------------------------------------------------------------
(***************************************************************************)
(* The log repeats the run.                                                *)
(***************************************************************************)
\* The machine was given the current cycle.
Stepped == pc \in {"egress", "panicked"}

StepSaid ==
    /\ Stepped => /\ FsmStep(before, TheCycle).state = machine
                  /\ FsmStep(before, TheCycle).outs = outs
    /\ ~Stepped => machine = before

ReplayInv == ReplayReproduces /\ StepSaid

LEMMA ReplayLog ==
    ASSUME TypeInv, ReplayInv, LogCopperlist, Stepped
    PROVE  ReplayInv'
<1> DEFINE last == Len(log')
<1>1. /\ last = Len(log) + 1 /\ Len(log) \in Nat /\ ~Stepped'
      /\ \A n \in 1..Len(log) : log'[n] = log[n] /\ trace'[n] = trace[n]
      /\ log'[last].cycle = TheCycle /\ log'[last].outs = outs
      /\ trace'[last].before = before /\ trace'[last].after = machine
      /\ before' = machine /\ machine' = machine
  BY LogAppends, InboundTypes DEF LogCopperlist, LogWith, Stepped
<1> HIDE DEF last
<1>2. /\ FsmStep(before, TheCycle).state = machine /\ FsmStep(before, TheCycle).outs = outs
      /\ before = IF Len(log) = 0 THEN MInit ELSE trace[Len(log)].after
  BY DEF ReplayInv, ReplayReproduces, StepSaid
<1>3. ASSUME NEW n \in 1..last
      PROVE  /\ FsmStep(trace'[n].before, log'[n].cycle).state = trace'[n].after
             /\ FsmStep(trace'[n].before, log'[n].cycle).outs = log'[n].outs
             /\ trace'[n].before = IF n = 1 THEN MInit ELSE trace'[n - 1].after
  <2>1. CASE n = last
    <3>1. trace'[n].before = IF n = 1 THEN MInit ELSE trace'[n - 1].after
      <4>1. CASE Len(log) = 0
        BY <1>1, <1>2, <2>1, <4>1
      <4>2. CASE Len(log) > 0
        <5>1. trace'[n - 1] = trace[Len(log)] /\ n # 1
          BY <1>1, <2>1, <4>2
        <5> QED BY <1>1, <1>2, <2>1, <4>2, <5>1
      <4> QED BY <1>1, <4>1, <4>2
    <3> QED BY <1>1, <1>2, <2>1, <3>1
  <2>2. CASE n \in 1..Len(log)
    <3>1. /\ FsmStep(trace[n].before, log[n].cycle).state = trace[n].after
          /\ FsmStep(trace[n].before, log[n].cycle).outs = log[n].outs
          /\ trace[n].before = IF n = 1 THEN MInit ELSE trace[n - 1].after
      BY <2>2 DEF ReplayInv, ReplayReproduces
    <3>2. n # 1 => trace'[n - 1] = trace[n - 1]
      BY <1>1, <2>2
    <3> QED BY <1>1, <2>2, <3>1, <3>2
  <2> QED BY <1>1, <2>1, <2>2
<1>4. ReplayReproduces'
  BY <1>1, <1>3 DEF ReplayReproduces, last
<1> QED BY <1>1, <1>4 DEF ReplayInv, StepSaid

LEMMA ReplayStep == TypeInv /\ ReplayInv /\ [Next]_vars => ReplayInv'
<1> SUFFICES ASSUME TypeInv, ReplayInv, [Next]_vars PROVE ReplayInv'
  OBVIOUS
<1>1. ASSUME UNCHANGED <<log, trace, before, machine>>, Stepped' <=> Stepped,
             Stepped => UNCHANGED <<events, pending, now_ns, outs>>
      PROVE  ReplayInv'
  BY <1>1 DEF ReplayInv, ReplayReproduces, StepSaid, TheCycle
<1>2. CASE RunFsm
  <2>1. /\ UNCHANGED <<log, trace, events, pending, now_ns>> /\ before = machine
        /\ Stepped' /\ before' = machine
        /\ machine' = FsmStep(machine, TheCycle).state
        /\ outs' = FsmStep(machine, TheCycle).outs
    BY <1>2 DEF RunFsm, StepMachine, logVars, cycleVars, Stepped, ReplayInv, StepSaid
  <2>2. TheCycle' = TheCycle
    BY <2>1 DEF TheCycle
  <2>3. StepSaid'
    BY <2>1, <2>2 DEF StepSaid
  <2>4. ReplayReproduces'
    BY <2>1 DEF ReplayInv, ReplayReproduces
  <2> QED BY <2>3, <2>4 DEF ReplayInv
<1>3. CASE EndIteration \/ EgressErrIgnored
  BY <1>3, ReplayLog DEF EndIteration, EgressErrIgnored, EgressErr, Stepped
<1>4. CASE Tick \/ Feeder \/ Relay \/ UNCHANGED vars
  BY <1>1, <1>4 DEF Tick, Feeder, FeedAccepted, FeedBlocks, FeedShed, FeedUnblocked,
     FeedRefused, FeederReturns, Relay, RelayOne, RelayEnds, RelayFails, vars,
     loopVars, cycleVars, fsmVars, logVars, Stepped
<1>5. CASE \/ StartIteration \/ DrainOne \/ DrainHandover \/ DrainEnds \/ CountPending
           \/ StampCycle \/ EgressOne \/ EgressErrPanics \/ StopLoop \/ JoinDriver
  BY <1>1, <1>5 DEF StartIteration, DrainOne, DrainHandover, DrainEnds, EndDrain,
     CountPending, StampCycle, EgressOne, EgressErrPanics, EgressErr, StopLoop, JoinDriver,
     cycleVars, fsmVars, logVars, Stepped
<1> QED BY <1>2, <1>3, <1>4, <1>5 DEF Next, Loop, Terminated

\* Replaying the recorded cycles from M::default() passes through the live
\* machine's states and emits what the log holds.
THEOREM LogReplays == Spec => []ReplayReproduces
<1>1. Init => ReplayInv
  BY DEF Init, ReplayInv, ReplayReproduces, StepSaid, Stepped
<1>2. ReplayInv => ReplayReproduces
  BY DEF ReplayInv
<1> QED BY <1>1, <1>2, TypeInit, TypeStep, ReplayStep, PTL DEF Spec
-----------------------------------------------------------------------------
(***************************************************************************)
(* No message enters the channel twice.                                    *)
(***************************************************************************)
\* What was accepted was offered, and a thread that waits in send waits with a
\* message that is newer than all of it.
AcceptedWereOffered ==
    \A i \in 1..Len(sent) : /\ sent[i].val <= offered
                            /\ feeder = "blocked" => sent[i].val < offered

OnceInv == AcceptedOnce /\ AcceptedWereOffered

\* A message newer than all that were accepted keeps the order.
LEMMA OnceAppend ==
    ASSUME TypeInv, AcceptedOnce, NEW v \in 1..MaxSent, NEW place \in Nat,
           sent' = Append(sent, Sent(v, place)),
           \A i \in 1..Len(sent) : sent[i].val < v
    PROVE  AcceptedOnce' /\ \A i \in 1..Len(sent') : sent'[i].val <= v
<1>1. /\ Len(sent) \in Nat /\ Len(sent') = Len(sent) + 1
      /\ sent'[Len(sent) + 1].val = v
      /\ \A i \in 1..Len(sent) : sent'[i] = sent[i]
  BY InboundTypes DEF Sent
<1>2. \A i \in 1..Len(sent) : sent[i].val \in Int
  <2>1. \A i \in 1..Len(sent) : sent[i] \in Message
    BY InboundTypes
  <2> QED BY <2>1, BoundAssumption DEF Message
<1>3. ASSUME NEW i \in 1..Len(sent') - 1 PROVE sent'[i].val < sent'[i + 1].val
  <2>1. CASE i = Len(sent)
    BY <1>1, <2>1
  <2>2. CASE i \in 1..Len(sent) - 1
    <3>1. sent[i].val < sent[i + 1].val
      BY <2>2 DEF AcceptedOnce
    <3>2. i \in 1..Len(sent) /\ i + 1 \in 1..Len(sent)
      BY <1>1, <2>2
    <3> QED BY <1>1, <3>1, <3>2
  <2> QED BY <1>1, <2>1, <2>2
<1>4. ASSUME NEW i \in 1..Len(sent') PROVE sent'[i].val <= v
  <2>1. CASE i = Len(sent) + 1
    BY <1>1, <2>1
  <2>2. CASE i \in 1..Len(sent)
    BY <1>1, <1>2, <2>2
  <2> QED BY <1>1, <2>1, <2>2
<1> QED BY <1>3, <1>4 DEF AcceptedOnce

LEMMA OnceStep == TypeInv /\ OnceInv /\ [Next]_vars => OnceInv'
<1> SUFFICES ASSUME TypeInv, OnceInv, [Next]_vars PROVE OnceInv'
  OBVIOUS
<1>1. /\ offered \in 0..MaxSent /\ MaxSent \in Nat
      /\ \A i \in 1..Len(sent) : sent[i].val \in Int
  <2>1. \A i \in 1..Len(sent) : sent[i] \in Message
    BY InboundTypes
  <2>2. \A i \in 1..Len(sent) : sent[i].val \in Int
    BY <2>1, BoundAssumption DEF Message
  <2> QED BY <2>2, BoundAssumption DEF TypeInv, TypeOK
<1>2. ASSUME UNCHANGED <<sent, offered>>, feeder' = "blocked" => feeder = "blocked"
      PROVE  OnceInv'
  BY <1>2 DEF OnceInv, AcceptedOnce, AcceptedWereOffered
<1>3. CASE FeedAccepted
  <2>1. /\ \E place \in Nat : sent' = Append(sent, Sent(offered + 1, place))
        /\ offered' = offered + 1 /\ feeder' # "blocked" /\ offered + 1 \in 1..MaxSent
    BY <1>1, <1>3, InboundTypes DEF FeedAccepted, Accept
  <2>2. ASSUME NEW i \in 1..Len(sent) PROVE sent[i].val < offered + 1
    <3>1. sent[i].val <= offered
      BY DEF OnceInv, AcceptedWereOffered
    <3> QED BY <1>1, <3>1
  <2>3. AcceptedOnce' /\ \A i \in 1..Len(sent') : sent'[i].val <= offered + 1
    BY <2>1, <2>2, OnceAppend DEF OnceInv
  <2> QED BY <2>1, <2>3 DEF OnceInv, AcceptedWereOffered
<1>4. CASE FeedBlocks \/ FeedShed
  <2>1. UNCHANGED sent /\ offered' = offered + 1
    BY <1>4 DEF FeedBlocks, FeedShed
  <2>2. ASSUME NEW i \in 1..Len(sent) PROVE sent[i].val <= offered' /\ sent[i].val < offered'
    <3>1. sent[i].val <= offered
      BY DEF OnceInv, AcceptedWereOffered
    <3> QED BY <1>1, <2>1, <3>1
  <2> QED BY <2>1, <2>2 DEF OnceInv, AcceptedOnce, AcceptedWereOffered
<1>5. CASE FeedUnblocked \/ DrainHandover
  <2>1. /\ \E place \in Nat : sent' = Append(sent, Sent(offered, place))
        /\ feeder = "blocked" /\ feeder' # "blocked" /\ UNCHANGED offered
    BY <1>5, InboundTypes DEF FeedUnblocked, Accept, DrainHandover, Handover
  <2>2. offered \in 1..MaxSent
    BY <1>1, <2>1, InboundTypes DEF TypeInv, Offers
  <2>3. ASSUME NEW i \in 1..Len(sent) PROVE sent[i].val < offered
    BY <2>1 DEF OnceInv, AcceptedWereOffered
  <2>4. AcceptedOnce' /\ \A i \in 1..Len(sent') : sent'[i].val <= offered
    BY <2>1, <2>2, <2>3, OnceAppend DEF OnceInv
  <2> QED BY <2>1, <2>4 DEF OnceInv, AcceptedWereOffered
<1>6. CASE \/ Tick \/ FeedRefused \/ FeederReturns \/ Relay \/ UNCHANGED vars
  BY <1>2, <1>6 DEF Tick, threadVars, FeedRefused, FeederReturns, Relay, RelayOne, RelayEnds,
                    RelayFails, vars
<1>7. CASE \/ StartIteration \/ DrainOne \/ DrainEnds \/ CountPending \/ StampCycle
           \/ RunFsm \/ EgressOne \/ EndIteration \/ EgressErrIgnored \/ EgressErrPanics
           \/ StopLoop \/ JoinDriver
  BY <1>2, <1>7 DEF threadVars, StartIteration, DrainOne, DrainEnds, EndDrain, CountPending,
     StampCycle, RunFsm, StepMachine, EgressOne, EndIteration, EgressErrIgnored, LogCopperlist,
     LogWith, EgressErrPanics, StopLoop, JoinDriver
<1> QED
  BY <1>3, <1>4, <1>5, <1>6, <1>7 DEF Next, Feeder, Loop, Terminated

\* However a blocked send and the loop's drain interleave, by a freed slot or by a
\* handover, no message is accepted twice and none overtakes another.
THEOREM NeverTwice == Spec => []AcceptedOnce
<1>1. Init => OnceInv
  BY DEF Init, OnceInv, AcceptedOnce, AcceptedWereOffered
<1>2. OnceInv => AcceptedOnce
  BY DEF OnceInv
<1> QED BY <1>1, <1>2, TypeInit, TypeStep, OnceStep, PTL DEF Spec
-----------------------------------------------------------------------------
(***************************************************************************)
(* How long a message waits.                                               *)
(***************************************************************************)
\* The cycles whose drain has begun.
NotBegun == pc \in {"idle", "dropped", "joined"}
Begun == IF NotBegun THEN Len(log) ELSE Len(log) + 1

\* What the drain under way may still take.
Room == IF pc = "drain" THEN MaxBatch - Len(events) ELSE 0

\* The drains left to a queued message are enough for those before it and itself,
\* and those in the current batch and in the log were taken in time.
QueueWaits   == \A j \in 1..Len(inq) :
                   j <= MaxBatch * (DueCycle(sent[Taken + j]) - Begun) + Room
BatchWaited  == \A i \in 1..Len(events) :
                   Len(log) + 1 <= DueCycle(sent[Taken - Len(events) + i])
LoggedInTime == \A n \in 1..Len(log) : \A i \in 1..Len(log[n].cycle.events) :
                   n <= DueCycle(sent[trace[n].first + i])

\* A bounded channel never holds more than its capacity.
PlacesFit == InboundBounded => \A k \in 1..Len(sent) : sent[k].place <= InboundCapacity

LatencyInv == /\ QueueWaits /\ BatchWaited /\ LoggedInTime /\ PlacesFit
              /\ NotBegun => Len(events) = 0

\* CyclesToDrain(n) full batches empty a channel that holds n messages.
LEMMA EnoughCycles ==
    ASSUME NEW n \in Nat
    PROVE  CyclesToDrain(n) \in Nat /\ n <= MaxBatch * CyclesToDrain(n)
<1>1. ASSUME NEW C \in Nat, NEW M \in Nat \ {0}
      PROVE  (C + M - 1) \div M \in Nat /\ C <= M * ((C + M - 1) \div M)
  OBVIOUS
<1> QED BY <1>1, MaxBatchAssumption DEF CyclesToDrain

LEMMA BatchMonotone ==
    ASSUME NEW x \in Int, NEW y \in Int, x <= y
    PROVE  MaxBatch * x \in Int /\ MaxBatch * y \in Int /\ MaxBatch * x <= MaxBatch * y
<1>1. ASSUME NEW M \in Nat \ {0} PROVE M * x \in Int /\ M * y \in Int /\ M * x <= M * y
  OBVIOUS
<1> QED BY <1>1, MaxBatchAssumption

\* A longer queue takes no fewer.
LEMMA CyclesMonotone ==
    ASSUME NEW n \in Nat, NEW m \in Nat, n <= m
    PROVE  CyclesToDrain(n) <= CyclesToDrain(m)
<1> DEFINE a == CyclesToDrain(n)
           b == CyclesToDrain(m)
<1>1. a \in Nat /\ b \in Nat /\ MaxBatch \in Nat \ {0}
  BY EnoughCycles, MaxBatchAssumption
<1>2. MaxBatch * a <= n + MaxBatch - 1 /\ m <= MaxBatch * b
  <2>1. ASSUME NEW C \in Nat, NEW M \in Nat \ {0} PROVE M * ((C + M - 1) \div M) <= C + M - 1
    OBVIOUS
  <2> QED BY <2>1, EnoughCycles, MaxBatchAssumption DEF CyclesToDrain
<1> HIDE DEF a, b
<1>3. SUFFICES ASSUME b + 1 <= a PROVE FALSE
  BY <1>1 DEF a, b
<1>4. MaxBatch * (b + 1) = MaxBatch * b + MaxBatch /\ MaxBatch * b \in Int /\ MaxBatch * a \in Int
  BY ONLY <1>1
<1>5. MaxBatch * (b + 1) <= MaxBatch * a
  BY ONLY <1>1, <1>3, BatchMonotone
<1> DEFINE p == MaxBatch * b
           q == MaxBatch * a
           r == MaxBatch * (b + 1)
<1>6. /\ p \in Int /\ q \in Int /\ r = p + MaxBatch /\ r <= q
      /\ q <= n + MaxBatch - 1 /\ m <= p
  BY ONLY <1>2, <1>4, <1>5
<1> HIDE DEF p, q, r
<1> QED BY ONLY <1>1, <1>6, n \in Nat, m \in Nat, n <= m

LEMMA LatencyTypes ==
    ASSUME TypeInv
    PROVE  /\ MaxBatch \in Nat \ {0}
           /\ Len(inq) \in Nat /\ Len(events) \in Nat /\ Len(sent) \in Nat /\ Len(log) \in Nat
           /\ Len(events) <= MaxBatch
           /\ Taken \in Nat /\ Len(events) <= Taken /\ Taken + Len(inq) = Len(sent)
           /\ Begun \in Nat /\ Begun <= Len(log) + 1 /\ Room \in Nat
           /\ \A k \in 1..Len(sent) : /\ sent[k].logged \in Nat /\ sent[k].place \in Nat
                                     /\ DueCycle(sent[k]) \in Nat
           /\ \A n \in 1..Len(log) : /\ trace[n].first \in Nat
                                     /\ Len(log[n].cycle.events) \in Nat
<1>1. Len(events) <= MaxBatch
  BY CycleType DEF TypeInv, TypeOK
<1>2. ASSUME NEW k \in 1..Len(sent)
      PROVE  sent[k].logged \in Nat /\ sent[k].place \in Nat /\ DueCycle(sent[k]) \in Nat
  <2>1. sent[k] \in Message
    BY InboundTypes
  <2>2. sent[k].logged \in Nat /\ sent[k].place \in Nat
    BY ONLY <2>1, BoundAssumption DEF Message
  <2>3. CyclesToDrain(sent[k].place) \in Nat
    BY <2>2, EnoughCycles
  <2> QED BY ONLY <2>2, <2>3 DEF DueCycle
<1>4. /\ Len(inq) \in Nat /\ Len(events) \in Nat /\ Len(sent) \in Nat /\ Len(log) \in Nat
      /\ Taken \in Nat /\ Len(events) <= Taken /\ Taken + Len(inq) = Len(sent)
  BY InboundTypes DEF Taken
<1>5. Begun \in Nat /\ Begun <= Len(log) + 1 /\ Room \in Nat
  BY <1>1, <1>4, MaxBatchAssumption DEF Begun, Room
<1> QED BY <1>1, <1>2, <1>4, <1>5, InboundTypes, MaxBatchAssumption

\* The records keep what they say of the accepted messages.
LEMMA LatencyRecords ==
    ASSUME TypeInv, InOrderInv, LoggedInTime, UNCHANGED <<log, trace>>,
           \A k \in 1..Len(sent) : sent'[k] = sent[k]
    PROVE  LoggedInTime'
<1>1. ASSUME NEW n \in 1..Len(log), NEW i \in 1..Len(log[n].cycle.events)
      PROVE  n <= DueCycle(sent'[trace[n].first + i])
  BY SliceInSent DEF LoggedInTime
<1> QED BY <1>1 DEF LoggedInTime

\* A step that moves no message, begins no drain and ends none.
LEMMA LatencyFrame ==
    ASSUME LatencyInv, UNCHANGED <<inq, sent, events, log, trace>>,
           NotBegun' <=> NotBegun, Room' = Room
    PROVE  LatencyInv'
<1>1. Begun' = Begun /\ Taken' = Taken
  BY DEF Begun, Taken
<1> QED BY <1>1 DEF LatencyInv, QueueWaits, BatchWaited, LoggedInTime, PlacesFit

LEMMA LatencyAccept ==
    ASSUME TypeInv, InOrderInv, LatencyInv, NEW v \in 1..MaxSent, Accept(v), ~Full,
           UNCHANGED <<pc, events, log, trace>>
    PROVE  LatencyInv'
<1>0. /\ Len(inq) \in Nat /\ Len(events) \in Nat /\ Len(sent) \in Nat /\ Len(log) \in Nat
      /\ Taken \in Nat /\ Len(events) <= Taken /\ Taken + Len(inq) = Len(sent)
      /\ Begun \in Nat /\ Begun <= Len(log) + 1 /\ Room \in Nat
  BY LatencyTypes
<1> DEFINE place == Len(inq) + 1
           cycles == CyclesToDrain(place)
<1>1. /\ Len(sent') = Len(sent) + 1 /\ Len(inq') = place
      /\ \A k \in 1..Len(sent) : sent'[k] = sent[k]
      /\ sent'[Len(sent) + 1] = Sent(v, place)
  BY InboundTypes DEF Accept
<1>2. /\ Taken' = Taken /\ Begun' = Begun /\ Room' = Room
      /\ NotBegun' <=> NotBegun
  BY <1>0, <1>1 DEF Taken, Begun, NotBegun, Room
<1>3. /\ place \in Nat /\ cycles \in Nat /\ place <= MaxBatch * cycles
      /\ DueCycle(Sent(v, place)) = Len(log) + 1 + cycles
  <2>1. place \in Nat
    BY ONLY <1>0
  <2>2. DueCycle(Sent(v, place)) = Len(log) + 1 + cycles
    BY DEF DueCycle, Sent
  <2> QED BY <2>1, <2>2, EnoughCycles
<1> HIDE DEF place, cycles
<1>4. ASSUME NEW j \in 1..Len(inq')
      PROVE  j <= MaxBatch * (DueCycle(sent'[Taken + j]) - Begun) + Room
  <2>0. j = place \/ j \in 1..Len(inq)
    BY ONLY <1>0, <1>1, j \in 1..Len(inq'), SMTT(30) DEF place
  <2>1. CASE j = place
    <3> DEFINE w == (Len(log) + 1 + cycles) - Begun
    <3>0. Taken + j = Len(sent) + 1
      <4>1. j = Len(inq) + 1
        BY ONLY <2>1 DEF place
      <4> QED BY ONLY <1>0, <4>1, SMTT(30)
    <3>1. DueCycle(sent'[Taken + j]) - Begun = w
      <4>1. DueCycle(sent'[Taken + j]) = DueCycle(Sent(v, place))
        BY <1>1, <3>0
      <4> QED BY ONLY <1>3, <4>1
    <3>2. w \in Int /\ cycles <= w
      BY ONLY <1>0, <1>3
    <3> HIDE DEF w
    <3>3. /\ MaxBatch * cycles \in Int /\ MaxBatch * w \in Int
          /\ MaxBatch * cycles <= MaxBatch * w
      <4>1. cycles \in Int
        BY ONLY <1>3
      <4> QED BY ONLY <3>2, <4>1, BatchMonotone
    <3> DEFINE p == MaxBatch * w
               q == MaxBatch * cycles
    <3>4. p \in Int /\ q \in Int /\ q <= p /\ place <= q
      BY ONLY <1>3, <3>3
    <3> HIDE DEF p, q
    <3>5. j <= p + Room
      BY ONLY <1>0, <1>3, <2>1, <3>4
    <3> QED BY <3>1, <3>5 DEF p
  <2>2. CASE j \in 1..Len(inq)
    <3>1. Taken + j \in 1..Len(sent)
      BY ONLY <1>0, <2>2
    <3> QED BY <1>1, <2>2, <3>1 DEF LatencyInv, QueueWaits
  <2> QED BY <2>0, <2>1, <2>2
<1>5. ASSUME NEW i \in 1..Len(events)
      PROVE  Len(log) + 1 <= DueCycle(sent'[Taken - Len(events) + i])
  <2>1. Taken - Len(events) + i \in 1..Len(sent)
    BY ONLY <1>0, i \in 1..Len(events)
  <2> QED BY <1>1, <2>1 DEF LatencyInv, BatchWaited
<1>6. ASSUME InboundBounded, NEW k \in 1..Len(sent')
      PROVE  sent'[k].place <= InboundCapacity
  <2>0. k = Len(sent) + 1 \/ k \in 1..Len(sent)
    BY ONLY <1>0, <1>1, k \in 1..Len(sent'), SMTT(30)
  <2>1. CASE k = Len(sent) + 1
    <3>1. ~(Len(inq) >= InboundCapacity)
      BY <1>6 DEF Full
    <3>2. place <= InboundCapacity
      BY ONLY <1>0, <3>1, CapacityAssumption DEF place
    <3> QED BY <1>1, <2>1, <3>2 DEF Sent
  <2>2. CASE k \in 1..Len(sent)
    BY <1>1, <1>6, <2>2 DEF LatencyInv, PlacesFit
  <2> QED BY <2>0, <2>1, <2>2
<1>7. QueueWaits' /\ BatchWaited' /\ PlacesFit'
  BY <1>2, <1>4, <1>5, <1>6 DEF QueueWaits, BatchWaited, PlacesFit
<1>8. LoggedInTime'
  BY <1>1, LatencyRecords DEF LatencyInv
<1> QED BY <1>2, <1>7, <1>8 DEF LatencyInv

\* One more drain begins: each message has one fewer to wait for, and a whole batch
\* of room in this one.
LEMMA LatencyStart ==
    ASSUME TypeInv, InOrderInv, LatencyInv, StartIteration
    PROVE  LatencyInv'
<1>1. UNCHANGED <<inq, sent, events, log, trace>> /\ NotBegun /\ ~NotBegun'
  BY DEF StartIteration, cycleVars, logVars, NotBegun
<1>2. Taken' = Taken /\ Begun' = Begun + 1 /\ Room = 0 /\ Room' = MaxBatch
  <2>1. Len(events) = 0
    BY <1>1 DEF LatencyInv
  <2> QED BY <1>1, <2>1, LatencyTypes
          DEF StartIteration, cycleVars, Taken, Begun, NotBegun, Room
<1>3. ASSUME NEW j \in 1..Len(inq)
      PROVE  j <= MaxBatch * (DueCycle(sent[Taken + j]) - (Begun + 1)) + MaxBatch
  <2> DEFINE due == DueCycle(sent[Taken + j])
             w == due - Begun
  <2>1. due \in Nat /\ Begun \in Nat
    <3>1. /\ Taken \in Nat /\ Len(inq) \in Nat /\ Taken + Len(inq) = Len(sent)
          /\ \A k \in 1..Len(sent) : DueCycle(sent[k]) \in Nat
      BY LatencyTypes
    <3>2. Taken + j \in 1..Len(sent)
      BY ONLY <3>1, j \in 1..Len(inq)
    <3> QED BY <3>1, <3>2, LatencyTypes
  <2>2. j <= MaxBatch * w + 0
    BY <1>2 DEF LatencyInv, QueueWaits
  <2>3. due - (Begun + 1) = w - 1 /\ w \in Int
    <3> HIDE DEF due
    <3> QED BY ONLY <2>1
  <2> HIDE DEF w
  <2>4. MaxBatch * w = MaxBatch * (w - 1) + MaxBatch /\ MaxBatch * w \in Int
    BY ONLY <2>3, MaxBatchAssumption
  <2>5. j <= MaxBatch * (w - 1) + MaxBatch
    BY ONLY <2>2, <2>4
  <2> QED BY ONLY <2>3, <2>5
<1>4. QueueWaits'
  BY <1>1, <1>2, <1>3 DEF QueueWaits
<1> QED BY <1>1, <1>2, <1>4 DEF LatencyInv, BatchWaited, LoggedInTime, PlacesFit

\* The head of the channel moves into the batch, in time.
LEMMA LatencyDrainOne ==
    ASSUME TypeInv, InOrderInv, LatencyInv, DrainOne
    PROVE  LatencyInv'
<1>0. /\ Len(inq) \in Nat /\ Len(events) \in Nat /\ Len(sent) \in Nat /\ Len(log) \in Nat
      /\ Taken \in Nat /\ Taken + Len(inq) = Len(sent) /\ MaxBatch \in Nat \ {0}
  BY LatencyTypes
<1>1. UNCHANGED <<sent, log, trace, pc>> /\ pc = "drain" /\ Len(events) < MaxBatch
  BY DEF DrainOne, logVars
<1>2. /\ Len(inq') = Len(inq) - 1 /\ Len(inq) > 0 /\ Len(events') = Len(events) + 1
  BY InboundTypes, HeadTailProperties DEF DrainOne
<1>3. /\ Taken' = Taken + 1 /\ Begun' = Begun /\ Begun = Len(log) + 1
      /\ ~NotBegun /\ ~NotBegun'
      /\ Room = MaxBatch - Len(events) /\ Room' = Room - 1 /\ Room \in 0..MaxBatch
  BY <1>0, <1>1, <1>2 DEF Taken, Begun, NotBegun, Room
<1>4. ASSUME NEW j \in 1..Len(inq)
      PROVE  LET due == DueCycle(sent[Taken + j])
             IN  /\ due \in Nat /\ due - Begun \in Int /\ MaxBatch * (due - Begun) \in Int
                 /\ j <= MaxBatch * (due - Begun) + Room
  <2> DEFINE due == DueCycle(sent[Taken + j])
  <2>1. Taken + j \in 1..Len(sent)
    BY ONLY <1>0, j \in 1..Len(inq)
  <2>2. due \in Nat /\ Begun \in Nat
    BY <2>1, LatencyTypes
  <2>3. j <= MaxBatch * (due - Begun) + Room
    BY DEF LatencyInv, QueueWaits
  <2> HIDE DEF due
  <2>4. due - Begun \in Int
    BY ONLY <2>2
  <2>5. MaxBatch * (due - Begun) \in Int
    BY ONLY <1>0, <2>4
  <2> QED BY <2>2, <2>3, <2>4, <2>5 DEF due
<1>5. ASSUME NEW j \in 1..Len(inq')
      PROVE  j <= MaxBatch * (DueCycle(sent[Taken' + j]) - Begun) + (Room - 1)
  <2>1. j + 1 \in 1..Len(inq) /\ Taken' + j = Taken + (j + 1)
    BY ONLY <1>0, <1>2, <1>3, j \in 1..Len(inq')
  <2> DEFINE product == MaxBatch * (DueCycle(sent[Taken + (j + 1)]) - Begun)
  <2>2. product \in Int /\ j + 1 <= product + Room
    BY <1>4, <2>1
  <2> HIDE DEF product
  <2>3. j <= product + (Room - 1)
    BY ONLY <1>0, <1>3, <2>2, j \in 1..Len(inq')
  <2> QED BY <2>1, <2>3 DEF product
<1>6. Len(log) + 1 <= DueCycle(sent[Taken + 1])
  <2> DEFINE due == DueCycle(sent[Taken + 1])
             w == due - Begun
  <2>1. 1 \in 1..Len(inq)
    BY ONLY <1>0, <1>2
  <2>2. w \in Int /\ 1 <= MaxBatch * w + Room /\ due \in Nat
    BY <1>4, <2>1
  <2>3. w = due - (Len(log) + 1)
    BY <1>3
  <2> HIDE DEF w, due
  <2>4. w >= 0
    BY ONLY <1>0, <1>3, <2>2, SMTT(30)
  <2>5. Len(log) + 1 <= due
    BY ONLY <1>0, <2>2, <2>3, <2>4
  <2> QED BY <2>5 DEF due
<1>7. ASSUME NEW i \in 1..Len(events')
      PROVE  Len(log) + 1 <= DueCycle(sent[Taken' - Len(events') + i])
  <2>0. i = Len(events) + 1 \/ i \in 1..Len(events)
    BY ONLY <1>0, <1>2, i \in 1..Len(events')
  <2>1. CASE i = Len(events) + 1
    <3>1. Taken' - Len(events') + i = Taken + 1
      BY ONLY <1>0, <1>2, <1>3, <2>1
    <3> QED BY <1>6, <3>1
  <2>2. CASE i \in 1..Len(events)
    <3>1. Taken' - Len(events') + i = Taken - Len(events) + i
      BY ONLY <1>0, <1>2, <1>3, <2>2
    <3> QED BY <2>2, <3>1 DEF LatencyInv, BatchWaited
  <2> QED BY <2>0, <2>1, <2>2
<1>8. QueueWaits'
  BY <1>1, <1>3, <1>5 DEF QueueWaits
<1>9. BatchWaited' /\ PlacesFit'
  BY <1>1, <1>7 DEF LatencyInv, BatchWaited, PlacesFit
<1>10. LoggedInTime'
  BY <1>1, LatencyRecords DEF LatencyInv
<1> QED BY <1>3, <1>8, <1>9, <1>10 DEF LatencyInv

\* A handed over message does not wait at all.
LEMMA LatencyHandover ==
    ASSUME TypeInv, InOrderInv, LatencyInv, DrainHandover
    PROVE  LatencyInv'
<1>0. /\ Len(inq) \in Nat /\ Len(events) \in Nat /\ Len(sent) \in Nat /\ Len(log) \in Nat
      /\ Taken \in Nat /\ Len(events) <= Taken /\ Taken + Len(inq) = Len(sent)
  BY LatencyTypes
<1>1. UNCHANGED <<inq, log, trace, pc>> /\ pc = "drain" /\ Len(inq) = 0
  BY DEF DrainHandover, logVars
<1>2. /\ Len(sent') = Len(sent) + 1 /\ Len(events') = Len(events) + 1
      /\ \A k \in 1..Len(sent) : sent'[k] = sent[k]
      /\ sent'[Len(sent) + 1] = Sent(offered, 0)
  BY InboundTypes DEF DrainHandover
<1>3. Taken = Len(sent) /\ Taken' = Taken + 1 /\ ~NotBegun'
  BY <1>0, <1>1, <1>2 DEF Taken, NotBegun
<1>4. ASSUME NEW i \in 1..Len(events')
      PROVE  Len(log) + 1 <= DueCycle(sent'[Taken' - Len(events') + i])
  <2>0. i = Len(events) + 1 \/ i \in 1..Len(events)
    BY ONLY <1>0, <1>2, i \in 1..Len(events')
  <2>1. CASE i = Len(events) + 1
    <3>1. Taken' - Len(events') + i = Len(sent) + 1
      BY ONLY <1>0, <1>2, <1>3, <2>1
    <3>2. DueCycle(Sent(offered, 0)) = Len(log) + 1 + CyclesToDrain(0)
      BY DEF DueCycle, Sent
    <3>3. CyclesToDrain(0) \in Nat
      BY EnoughCycles
    <3>4. Len(log) + 1 <= Len(log) + 1 + CyclesToDrain(0)
      BY ONLY <1>0, <3>3
    <3> QED BY <1>2, <3>1, <3>2, <3>4
  <2>2. CASE i \in 1..Len(events)
    <3>1. /\ Taken' - Len(events') + i = Taken - Len(events) + i
          /\ Taken - Len(events) + i \in 1..Len(sent)
      BY ONLY <1>0, <1>2, <1>3, <2>2
    <3> QED BY <1>2, <2>2, <3>1 DEF LatencyInv, BatchWaited
  <2> QED BY <2>0, <2>1, <2>2
<1>5. ASSUME InboundBounded, NEW k \in 1..Len(sent')
      PROVE  sent'[k].place <= InboundCapacity
  <2>0. k = Len(sent) + 1 \/ k \in 1..Len(sent)
    BY ONLY <1>0, <1>2, k \in 1..Len(sent')
  <2>1. CASE k = Len(sent) + 1
    BY <1>2, <2>1, CapacityAssumption DEF Sent
  <2>2. CASE k \in 1..Len(sent)
    BY <1>2, <1>5, <2>2 DEF LatencyInv, PlacesFit
  <2> QED BY <2>0, <2>1, <2>2
<1>6. QueueWaits'
  BY <1>1 DEF QueueWaits
<1>7. BatchWaited' /\ PlacesFit'
  BY <1>1, <1>4, <1>5 DEF BatchWaited, PlacesFit
<1>8. LoggedInTime'
  BY <1>1, <1>2, LatencyRecords DEF LatencyInv
<1> QED BY <1>3, <1>6, <1>7, <1>8 DEF LatencyInv

\* The drain ends with its batch full or the channel empty.
LEMMA LatencyDrainEnds ==
    ASSUME TypeInv, InOrderInv, LatencyInv, DrainEnds
    PROVE  LatencyInv'
<1>1. /\ UNCHANGED <<inq, sent, events, log, trace>> /\ ~NotBegun /\ ~NotBegun'
      /\ Room' = 0 /\ Room = MaxBatch - Len(events)
      /\ Len(events) = MaxBatch \/ Len(inq) = 0
  BY DEF DrainEnds, EndDrain, logVars, NotBegun, Room
<1>2. CASE Len(events) = MaxBatch
  BY <1>1, <1>2, LatencyTypes, LatencyFrame
<1>3. CASE Len(inq) = 0
  BY <1>1, <1>3 DEF LatencyInv, QueueWaits, BatchWaited, LoggedInTime, PlacesFit, Taken
<1> QED BY <1>1, <1>2, <1>3

LEMMA LatencyLog ==
    ASSUME TypeInv, InOrderInv, LatencyInv, LogCopperlist, pc = "egress"
    PROVE  LatencyInv'
<1> DEFINE last == Len(log')
<1>1. /\ UNCHANGED <<inq, sent>> /\ Len(events') = 0 /\ NotBegun' /\ ~NotBegun
      /\ Room = 0 /\ Room' = 0
  BY DEF LogCopperlist, LogWith, NotBegun, Room
<1>2. /\ last = Len(log) + 1
      /\ \A n \in 1..Len(log) : log'[n] = log[n] /\ trace'[n] = trace[n]
      /\ log'[last].cycle.events = events /\ trace'[last].first = Taken - Len(events)
  BY LogAppends DEF TheCycle
<1>3. Taken' = Taken /\ Begun' = Begun
  BY <1>1, <1>2 DEF Taken, Begun
<1>4. QueueWaits' /\ BatchWaited' /\ PlacesFit'
  BY <1>1, <1>3 DEF LatencyInv, QueueWaits, BatchWaited, PlacesFit
<1> HIDE DEF last
<1>5. ASSUME NEW n \in 1..last, NEW i \in 1..Len(log'[n].cycle.events)
      PROVE  n <= DueCycle(sent[trace'[n].first + i])
  <2>0. n = last \/ n \in 1..Len(log)
    <3>1. Len(log) \in Nat
      BY LatencyTypes
    <3> QED BY ONLY <1>2, <3>1, n \in 1..last
  <2>1. CASE n = last
    BY <1>2, <2>1 DEF LatencyInv, BatchWaited
  <2>2. CASE n \in 1..Len(log)
    BY <1>2, <2>2 DEF LatencyInv, LoggedInTime
  <2> QED BY <2>0, <2>1, <2>2
<1>6. LoggedInTime'
  BY <1>1, <1>5 DEF LoggedInTime, last
<1> QED BY <1>1, <1>4, <1>6 DEF LatencyInv

LEMMA LatencyStep == TypeInv /\ InOrderInv /\ LatencyInv /\ [Next]_vars => LatencyInv'
<1> SUFFICES ASSUME TypeInv, InOrderInv, LatencyInv, [Next]_vars PROVE LatencyInv'
  OBVIOUS
<1> USE DEF loopVars, cycleVars, logVars
<1>1. CASE FeedAccepted
  <2>1. offered + 1 \in 1..MaxSent
    BY <1>1, BoundAssumption DEF FeedAccepted, TypeInv, TypeOK
  <2> QED BY <1>1, <2>1, LatencyAccept DEF FeedAccepted
<1>2. CASE FeedUnblocked
  <2>1. offered \in 1..MaxSent
    BY <1>2, InboundTypes DEF FeedUnblocked, TypeInv, Offers, TypeOK
  <2> QED BY <1>2, <2>1, LatencyAccept DEF FeedUnblocked
<1>3. CASE StartIteration \/ DrainOne \/ DrainHandover \/ DrainEnds
  BY <1>3, LatencyStart, LatencyDrainOne, LatencyHandover, LatencyDrainEnds
<1>4. CASE EndIteration \/ EgressErrIgnored
  BY <1>4, LatencyLog DEF EndIteration, EgressErrIgnored, EgressErr
<1>5. ASSUME UNCHANGED <<inq, sent, events, log, trace>>, NotBegun' <=> NotBegun,
             pc = "drain" <=> pc' = "drain"
      PROVE  LatencyInv'
  <2>1. Room' = Room
    BY <1>5 DEF Room
  <2> QED BY <1>5, <2>1, LatencyFrame
<1>6. CASE \/ Tick \/ FeedBlocks \/ FeedShed \/ FeedRefused \/ FeederReturns \/ Relay
           \/ UNCHANGED vars
  BY <1>5, <1>6 DEF Tick, FeedBlocks, FeedShed, FeedRefused, FeederReturns, Relay, RelayOne,
                    RelayEnds, RelayFails, vars, NotBegun
<1>7. CASE \/ CountPending \/ StampCycle \/ RunFsm \/ EgressOne \/ EgressErrPanics
           \/ StopLoop \/ JoinDriver
  BY <1>5, <1>7 DEF CountPending, StampCycle, RunFsm, StepMachine, EgressOne, EgressErrPanics,
                    EgressErr, StopLoop, JoinDriver, NotBegun
<1> QED
  BY <1>1, <1>2, <1>3, <1>4, <1>6, <1>7 DEF Next, Feeder, Loop, Terminated

\* What the records say of a message's due cycle bounds its wait in a bounded channel.
LEMMA LatencyBounds ==
    ASSUME TypeInv, InOrderInv, LatencyInv
    PROVE  BoundedLatency
<1> SUFFICES ASSUME NEW n \in 1..Len(log), NEW i \in 1..Len(log[n].cycle.events)
             PROVE  LET message == sent[trace[n].first + i]
                    IN  /\ n <= DueCycle(message)
                        /\ InboundBounded =>
                              n <= message.logged + 1 + CyclesToDrain(InboundCapacity)
  BY DEF BoundedLatency
<1> DEFINE message == sent[trace[n].first + i]
           place == message.place
<1>1. n <= DueCycle(message)
  BY DEF LatencyInv, LoggedInTime
<1>2. trace[n].first + i \in 1..Len(sent)
  BY SliceInSent
<1>3. message.logged \in Nat /\ place \in Nat /\ Len(log) \in Nat
  BY <1>2, LatencyTypes
<1>4. ASSUME InboundBounded PROVE n <= message.logged + 1 + CyclesToDrain(InboundCapacity)
  <2>1. place <= InboundCapacity
    BY <1>2, <1>4 DEF LatencyInv, PlacesFit
  <2>2. n <= message.logged + 1 + CyclesToDrain(place)
    BY <1>1 DEF DueCycle
  <2> HIDE DEF message, place
  <2>3. CyclesToDrain(place) <= CyclesToDrain(InboundCapacity)
    BY <1>3, <2>1, CyclesMonotone, CapacityAssumption
  <2>4. CyclesToDrain(place) \in Nat /\ CyclesToDrain(InboundCapacity) \in Nat
    BY <1>3, EnoughCycles, CapacityAssumption
  <2> QED BY ONLY <1>3, <2>2, <2>3, <2>4, n \in 1..Len(log)
<1> QED BY <1>1, <1>4

\* However the feeder and the loop interleave, no message waits for more cycles than
\* what it found in the channel takes to drain, plus the one under way; with
\* spawn_bounded that is no more than a full channel takes.
THEOREM WaitIsBounded == Spec => []BoundedLatency
<1>1. Init => LatencyInv
  BY DEF Init, LatencyInv, QueueWaits, BatchWaited, LoggedInTime, PlacesFit, NotBegun
<1> QED
  BY <1>1, LatencyBounds, TypeInit, TypeStep, InOrderInit, InOrderStep, LatencyStep, PTL DEF Spec
=============================================================================
