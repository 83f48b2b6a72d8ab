---------------------- MODULE CycleBridgeEgressProofs ----------------------
(***************************************************************************)
(* Proofs about the outbound path of CycleBridge: what the machine emits   *)
(* reaches the transport and the log, in order; and, from that and the     *)
(* inbound path, that the bridge implements Pipeline.                      *)
(***************************************************************************)
EXTENDS CycleBridgeProofs, WellFoundedInduction

-----------------------------------------------------------------------------
\* Position by position, where the emitted values are: at the transport, in the
\* channel (while there is a receiver), on the current copperlist, in the log.
ReceivedIn == \A i \in 1..Len(received) : i <= Len(emitted) /\ received[i] = emitted[i]

QueuedIn ==
    relay # "failed" =>
        /\ Len(received) + Len(outq) + (Len(outs) - cursor) = Len(emitted)
        /\ \A i \in 1..Len(outq) : outq[i] = emitted[Len(received) + i]

BatchIn == \A i \in 1..Len(outs) : outs[i] = emitted[Len(emitted) - Len(outs) + i]

OutSlicesBounded ==
    \A n \in 1..Len(log) :
        trace[n].outFirst + Len(log[n].outs) <= Len(emitted) - Len(outs)

\* The relay ends only when there is nothing more to come, and the join waits for it;
\* egress reports an error only because the relay has failed.
EndIsFinal == /\ relay = "ended" => outq = <<>> /\ AppDropped
              /\ pc = "joined" => relay # "open"
              /\ cuError => relay = "failed"

OutInv == /\ ReceivedIn /\ QueuedIn /\ BatchIn
          /\ LogHoldsOutputs /\ OutSlicesBounded /\ EndIsFinal

\* What TypeInv says of the variables of the outbound path.
LEMMA OutTypes ==
    ASSUME TypeInv
    PROVE  /\ received \in Seq(Out) /\ outq \in Seq(Out) /\ outs \in Seq(Out)
           /\ emitted \in Seq(Out) /\ Len(outs) <= Len(emitted) /\ cursor \in 0..Len(outs)
           /\ Len(received) \in Nat /\ Len(outq) \in Nat /\ Len(outs) \in Nat
           /\ Len(emitted) \in Nat /\ Len(log) \in Nat
           /\ \A n \in 1..Len(log) : trace[n].outFirst \in Nat /\ Len(log[n].outs) \in Nat
<1>1. ASSUME NEW n \in 1..Len(log) PROVE trace[n].outFirst \in Nat /\ Len(log[n].outs) \in Nat
  <2>1. trace[n] \in Origin /\ log[n] \in Record
    BY InboundTypes
  <2> QED BY <2>1 DEF Origin, Record
<1> QED BY <1>1, InboundTypes DEF TypeInv, TypeOK

\* A step that changes none of the variables of the outbound path.
LEMMA OutFrame ==
    ASSUME OutInv, UNCHANGED <<received, outq, outs, cursor, emitted, log, trace>>,
           relay' = relay \/ relay' = "failed" \/ (relay' = "ended" /\ outq = <<>> /\ AppDropped'),
           relay' = "failed" \/ relay # "failed" \/ relay' = relay,
           AppDropped => AppDropped', pc' = "joined" => pc = "joined" \/ relay # "open",
           cuError' => cuError \/ relay = "failed"
    PROVE  OutInv'
BY DEF OutInv, ReceivedIn, QueuedIn, BatchIn, LogHoldsOutputs, NextOutFirst,
       OutSlicesBounded, EndIsFinal

LEMMA OutRunFsm ==
    ASSUME TypeInv, OutInv, RunFsm
    PROVE  OutInv'
<1>0. /\ Len(received) \in Nat /\ Len(outq) \in Nat /\ Len(outs) \in Nat
      /\ Len(emitted) \in Nat /\ Len(log) \in Nat /\ cursor \in Nat
  BY OutTypes
<1> DEFINE new == FsmStep(machine, TheCycle).outs
<1>1. /\ outs = <<>> /\ cursor = 0 /\ Len(outs) = 0
      /\ outs' = new /\ emitted' = emitted \o new /\ new \in Seq(Out)
      /\ UNCHANGED <<received, outq, relay, cursor, log, trace, cuError>>
      /\ ~AppDropped /\ pc' = "egress"
  BY MachineAssumption DEF RunFsm, StepMachine, TypeInv, TypeOK, Slots, threadVars, logVars,
                           AppDropped
<1> HIDE DEF new
<1>2. /\ Len(emitted') = Len(emitted) + Len(new) /\ Len(new) \in Nat
      /\ \A k \in 1..Len(emitted) : emitted'[k] = emitted[k]
      /\ \A k \in 1..Len(new) : emitted'[Len(emitted) + k] = new[k]
  BY <1>1, OutTypes
<1>3. ReceivedIn'
  BY <1>1, <1>2, OutTypes DEF OutInv, ReceivedIn
<1>4. QueuedIn'
  <2> SUFFICES ASSUME relay # "failed" PROVE QueuedIn'
    BY <1>1 DEF QueuedIn
  <2>1. Len(received) + Len(outq) = Len(emitted)
    BY <1>1, OutTypes DEF OutInv, QueuedIn
  <2>2. ASSUME NEW i \in 1..Len(outq) PROVE outq[i] = emitted'[Len(received) + i]
    <3>1. outq[i] = emitted[Len(received) + i]
      BY DEF OutInv, QueuedIn
    <3>2. Len(received) + i \in 1..Len(emitted)
      BY <1>0, <2>1
    <3> QED BY <1>2, <3>1, <3>2
  <2>3. Len(received') + Len(outq') + (Len(outs') - cursor') = Len(emitted')
    <3>1. Len(received') = Len(received) /\ Len(outq') = Len(outq)
      BY <1>1
    <3>2. Len(outs') = Len(new) /\ cursor' = 0
      BY <1>1
    <3>3. Len(emitted') = Len(emitted) + Len(new) /\ Len(new) \in Nat
      BY <1>2
    <3> QED BY <1>0, <2>1, <3>1, <3>2, <3>3, SMTT(30)
  <2>4. \A i \in 1..Len(outq') : outq'[i] = emitted'[Len(received') + i]
    BY <1>1, <2>2
  <2> QED BY <2>3, <2>4 DEF QueuedIn
<1>5. BatchIn'
  BY <1>1, <1>2, OutTypes DEF BatchIn
<1>6. OutSlicesBounded'
  BY <1>1, <1>2, OutTypes DEF OutInv, OutSlicesBounded
<1>7. LogHoldsOutputs'
  <2>1. \A n \in 1..Len(log) : NextOutFirst(n)' = NextOutFirst(n)
    BY <1>1, <1>2, OutTypes DEF NextOutFirst
  <2>2. ASSUME NEW n \in 1..Len(log), NEW i \in 1..Len(log[n].outs)
        PROVE  log[n].outs[i] = emitted'[trace[n].outFirst + i]
    <3> DEFINE len == Len(log[n].outs)
    <3>1. /\ trace[n].outFirst + len <= Len(emitted) /\ i \in 1..len
          /\ trace[n].outFirst \in Nat /\ len \in Nat
      BY <1>1, OutTypes DEF OutInv, OutSlicesBounded
    <3>2. log[n].outs[i] = emitted[trace[n].outFirst + i]
      BY DEF OutInv, LogHoldsOutputs
    <3>3. trace[n].outFirst + i \in 1..Len(emitted)
      <4> DEFINE first == trace[n].outFirst
      <4>1. first \in Nat /\ first + len <= Len(emitted) /\ i \in 1..len /\ len \in Nat
        BY <3>1
      <4> HIDE DEF first, len
      <4>2. first + i \in 1..Len(emitted)
        BY ONLY <1>0, <4>1
      <4> QED BY <4>2 DEF first
    <3> QED BY <1>2, <3>2, <3>3
  <2>3. /\ \A n \in 1..Len(log) : NextOutFirst(n) = trace[n].outFirst + Len(log[n].outs)
        /\ Len(log) > 0 => trace[1].outFirst = 0
        /\ Len(log) = 0 => Len(emitted) = 0
    BY <1>1 DEF OutInv, LogHoldsOutputs
  <2>4. Len(log) = 0 => Len(emitted') = Len(outs')
    BY <1>1, <1>2, <2>3
  <2>5. ASSUME NEW n \in 1..Len(log'), NEW i \in 1..Len(log'[n].outs)
        PROVE  log'[n].outs[i] = emitted'[trace'[n].outFirst + i]
    <3>1. trace' = trace /\ log' = log
      BY <1>1
    <3>2. n \in 1..Len(log) /\ i \in 1..Len(log[n].outs)
      BY <3>1
    <3>3. log[n].outs[i] = emitted'[trace[n].outFirst + i]
      BY <2>2, <3>2
    <3> QED BY <3>1, <3>3
  <2>6. ASSUME NEW n \in 1..Len(log')
        PROVE  NextOutFirst(n)' = trace'[n].outFirst + Len(log'[n].outs)
    <3>1. n \in 1..Len(log) /\ trace' = trace /\ log' = log
      BY <1>1
    <3>2. NextOutFirst(n)' = NextOutFirst(n)
      BY <2>1, <3>1
    <3>3. NextOutFirst(n) = trace[n].outFirst + Len(log[n].outs)
      BY <2>3, <3>1
    <3> QED BY <3>1, <3>2, <3>3
  <2>7. Len(log') > 0 => trace'[1].outFirst = 0
    BY <1>1, <2>3
  <2>8. Len(log') = 0 => Len(emitted') = Len(outs')
    BY <1>1, <2>4
  <2> QED BY <2>5, <2>6, <2>7, <2>8 DEF LogHoldsOutputs
<1>8. EndIsFinal'
  BY <1>1 DEF OutInv, EndIsFinal
<1> QED BY <1>3, <1>4, <1>5, <1>6, <1>7, <1>8 DEF OutInv

LEMMA OutEgressOne ==
    ASSUME TypeInv, OutInv, EgressOne
    PROVE  OutInv'
<1>0. /\ Len(received) \in Nat /\ Len(outq) \in Nat /\ Len(outs) \in Nat
      /\ Len(emitted) \in Nat /\ Len(log) \in Nat /\ cursor \in Nat
  BY OutTypes
<1>1. /\ UNCHANGED <<received, outs, emitted, log, trace, relay, pc, cuError>>
      /\ relay # "failed"
      /\ cursor' = cursor + 1 /\ cursor + 1 \in 1..Len(outs) /\ ~AppDropped
      /\ Len(outq') = Len(outq) + 1 /\ outq'[Len(outq) + 1] = outs[cursor + 1]
      /\ \A i \in 1..Len(outq) : outq'[i] = outq[i]
  <2>1. cursor < Len(outs)
    BY DEF EgressOne
  <2>2. cursor + 1 \in 1..Len(outs)
    BY <2>1, OutTypes
  <2>3. outs[cursor + 1] \in Out
    BY <2>2, OutTypes
  <2>4. outq' = Append(outq, outs[cursor + 1]) /\ outq \in Seq(Out)
    BY OutTypes DEF EgressOne
  <2>5. /\ Len(outq') = Len(outq) + 1 /\ outq'[Len(outq) + 1] = outs[cursor + 1]
        /\ \A i \in 1..Len(outq) : outq'[i] = outq[i]
    BY <2>3, <2>4
  <2> QED BY <2>2, <2>5 DEF EgressOne, threadVars, fsmVars, logVars, AppDropped
<1>2. QueuedIn'
  <2>1. Len(received) + Len(outq) + (Len(outs) - cursor) = Len(emitted)
    BY <1>1 DEF OutInv, QueuedIn
  <2>6. \A i \in 1..Len(outq) : outq[i] = emitted[Len(received) + i]
    BY <1>1 DEF OutInv, QueuedIn
  <2>2. outs[cursor + 1] = emitted[Len(emitted) - Len(outs) + (cursor + 1)]
    BY <1>1 DEF OutInv, BatchIn
  <2>3. Len(emitted) - Len(outs) + (cursor + 1) = Len(received) + (Len(outq) + 1)
    BY <1>0, <2>1
  <2>4. ASSUME NEW i \in 1..Len(outq') PROVE outq'[i] = emitted[Len(received) + i]
    <3>1. CASE i = Len(outq) + 1
      BY <1>1, <2>2, <2>3, <3>1
    <3>2. CASE i \in 1..Len(outq)
      BY <1>1, <2>6, <3>2
    <3>3. Len(outq') = Len(outq) + 1
      BY <1>1
    <3> QED BY <1>0, <3>1, <3>2, <3>3
  <2>5. Len(received) + Len(outq') + (Len(outs) - cursor') = Len(emitted)
    <3>1. Len(outq') = Len(outq) + 1 /\ cursor' = cursor + 1
      BY <1>1
    <3> QED BY <1>0, <2>1, <3>1
  <2> QED BY <1>1, <2>4, <2>5 DEF QueuedIn
<1>3. ReceivedIn' /\ BatchIn' /\ OutSlicesBounded' /\ LogHoldsOutputs'
  BY <1>1 DEF OutInv, ReceivedIn, BatchIn, OutSlicesBounded, LogHoldsOutputs, NextOutFirst
<1>4. EndIsFinal'
  BY <1>1 DEF OutInv, EndIsFinal, AppDropped
<1> QED BY <1>2, <1>3, <1>4 DEF OutInv

LEMMA OutRelayOne ==
    ASSUME TypeInv, OutInv, RelayOne
    PROVE  OutInv'
<1>0. /\ Len(received) \in Nat /\ Len(outq) \in Nat /\ Len(outs) \in Nat
      /\ Len(emitted) \in Nat /\ Len(log) \in Nat /\ cursor \in Nat
  BY OutTypes
<1>1. /\ UNCHANGED <<outs, cursor, emitted, log, trace, relay, pc, cuError>>
      /\ Len(outq') = Len(outq) - 1 /\ Len(outq) > 0 /\ relay = "open"
      /\ \A i \in 1..Len(outq') : outq'[i] = outq[i + 1]
      /\ Len(received') = Len(received) + 1 /\ received'[Len(received) + 1] = outq[1]
      /\ \A i \in 1..Len(received) : received'[i] = received[i]
  <2>1. /\ outq # <<>> /\ outq \in Seq(Out) /\ received \in Seq(Out)
        /\ received' = Append(received, Head(outq)) /\ outq' = Tail(outq)
    BY OutTypes DEF RelayOne
  <2>2. Head(outq) = outq[1] /\ Head(outq) \in Out /\ Len(outq) > 0
    BY <2>1, HeadTailProperties
  <2>3. Len(outq') = Len(outq) - 1 /\ \A i \in 1..Len(outq') : outq'[i] = outq[i + 1]
    BY <2>1, HeadTailProperties
  <2>4. /\ Len(received') = Len(received) + 1 /\ received'[Len(received) + 1] = outq[1]
        /\ \A i \in 1..Len(received) : received'[i] = received[i]
    BY <2>1, <2>2
  <2> QED BY <2>2, <2>3, <2>4 DEF RelayOne, loopVars, fsmVars, logVars
<1>2. /\ Len(received) + Len(outq) + (Len(outs) - cursor) = Len(emitted)
      /\ \A i \in 1..Len(outq) : outq[i] = emitted[Len(received) + i]
  BY <1>1 DEF OutInv, QueuedIn
<1>3. ReceivedIn'
  <2>1. ASSUME NEW i \in 1..Len(received') PROVE i <= Len(emitted) /\ received'[i] = emitted[i]
    <3>1. CASE i = Len(received) + 1
      BY <1>1, <1>2, <3>1, OutTypes
    <3>2. CASE i \in 1..Len(received)
      BY <1>1, <3>2 DEF OutInv, ReceivedIn
    <3>3. Len(received') = Len(received) + 1
      BY <1>1
    <3> QED BY <1>0, <3>1, <3>2, <3>3
  <2> QED BY <1>1, <2>1 DEF ReceivedIn
<1>4. QueuedIn'
  <2>1. ASSUME NEW i \in 1..Len(outq') PROVE outq'[i] = emitted'[Len(received') + i]
    <3>1. i + 1 \in 1..Len(outq) /\ Len(received') + i = Len(received) + (i + 1)
      BY <1>1, OutTypes
    <3> QED BY <1>1, <1>2, <3>1
  <2> QED BY <1>1, <1>2, <2>1, OutTypes DEF QueuedIn
<1>5. BatchIn' /\ OutSlicesBounded' /\ LogHoldsOutputs'
  BY <1>1 DEF OutInv, BatchIn, OutSlicesBounded, LogHoldsOutputs, NextOutFirst
<1>6. EndIsFinal'
  BY <1>1 DEF OutInv, EndIsFinal
<1> QED BY <1>3, <1>4, <1>5, <1>6 DEF OutInv

LEMMA OutLog ==
    ASSUME TypeInv, OutInv, LogCopperlist, pc = "egress", relay # "failed" => cursor = Len(outs),
           cuError' => cuError \/ relay = "failed"
    PROVE  OutInv'
<1>0. /\ Len(received) \in Nat /\ Len(outq) \in Nat /\ Len(outs) \in Nat
      /\ Len(emitted) \in Nat /\ Len(log) \in Nat /\ cursor \in Nat
      /\ Len(outs) <= Len(emitted)
  BY OutTypes
<1> DEFINE last == Len(log')
<1>1. /\ UNCHANGED <<received, outq, emitted, relay>> /\ outs' = <<>> /\ cursor' = 0
      /\ Len(outs') = 0 /\ ~AppDropped /\ pc' = "idle"
  BY DEF LogCopperlist, LogWith, threadVars, AppDropped
<1>2. last = Len(log) + 1 /\ last \in Nat
  BY <1>0, LogAppends
<1>3. log'[last].outs = outs /\ trace'[last].outFirst = Len(emitted) - Len(outs)
  BY LogAppends
<1>4. \A n \in 1..Len(log) : log'[n] = log[n] /\ trace'[n] = trace[n]
  BY LogAppends
<1> HIDE DEF last
<1>5. ASSUME NEW n \in 1..last
      PROVE  /\ NextOutFirst(n)' = trace'[n].outFirst + Len(log'[n].outs)
             /\ \A i \in 1..Len(log'[n].outs) :
                   log'[n].outs[i] = emitted'[trace'[n].outFirst + i]
             /\ trace'[n].outFirst + Len(log'[n].outs) <= Len(emitted') - Len(outs')
  <2>0. n = last \/ n \in 1..Len(log)
    BY ONLY <1>0, <1>2, n \in 1..last
  <2>1. CASE n = last
    <3>1. NextOutFirst(n)' = Len(emitted)
      BY <1>0, <1>1, <1>2, <2>1 DEF NextOutFirst, last
    <3>2. Len(emitted) = trace'[n].outFirst + Len(log'[n].outs)
      BY <1>0, <1>3, <2>1
    <3>3. \A i \in 1..Len(outs) : outs[i] = emitted[trace'[n].outFirst + i]
      BY <1>3, <2>1 DEF OutInv, BatchIn
    <3>4. log'[n].outs = outs
      BY <1>3, <2>1
    <3> QED BY <1>0, <1>1, <3>1, <3>2, <3>3, <3>4
  <2>2. CASE n \in 1..Len(log)
    <3>1. NextOutFirst(n)' = NextOutFirst(n)
      BY <1>0, <1>1, <1>2, <1>3, <1>4, <2>2, SMTT(30) DEF NextOutFirst, last
    <3>2. /\ NextOutFirst(n) = trace[n].outFirst + Len(log[n].outs)
          /\ \A i \in 1..Len(log[n].outs) :
                log[n].outs[i] = emitted[trace[n].outFirst + i]
      BY <2>2 DEF OutInv, LogHoldsOutputs
    <3>3. trace[n].outFirst + Len(log[n].outs) <= Len(emitted) - Len(outs)
      BY <2>2 DEF OutInv, OutSlicesBounded
    <3>4. trace[n].outFirst \in Nat /\ Len(log[n].outs) \in Nat
      BY <2>2, OutTypes
    <3>5. log'[n] = log[n] /\ trace'[n] = trace[n]
      BY <1>4, <2>2
    <3>6. trace[n].outFirst + Len(log[n].outs) <= Len(emitted') - Len(outs')
      <4> DEFINE end == trace[n].outFirst + Len(log[n].outs)
      <4>1. end \in Nat /\ end <= Len(emitted) - Len(outs) /\ Len(emitted') = Len(emitted)
        BY <1>1, <3>3, <3>4
      <4> HIDE DEF end
      <4>2. end <= Len(emitted') - Len(outs')
        BY ONLY <1>0, <1>1, <4>1
      <4> QED BY <4>2 DEF end
    <3> QED BY <1>1, <3>1, <3>2, <3>5, <3>6
  <2> QED BY <2>0, <2>1, <2>2
<1>6. trace'[1].outFirst = 0
  <2>1. CASE Len(log) = 0
    BY <1>0, <1>2, <1>3, <2>1 DEF OutInv, LogHoldsOutputs
  <2>2. CASE Len(log) > 0
    BY <1>0, <1>2, <1>4, <2>2 DEF OutInv, LogHoldsOutputs
  <2> QED BY <1>0, <2>1, <2>2
<1>7. LogHoldsOutputs'
  BY <1>2, <1>5, <1>6 DEF LogHoldsOutputs, last
<1>8. OutSlicesBounded'
  BY <1>2, <1>5 DEF OutSlicesBounded, last
<1>9. QueuedIn'
  <2> SUFFICES ASSUME relay # "failed" PROVE QueuedIn'
    BY <1>1 DEF QueuedIn
  <2>1. Len(received) + Len(outq) = Len(emitted)
    BY <1>0 DEF OutInv, QueuedIn
  <2>2. Len(received') + Len(outq') + (Len(outs') - cursor') = Len(emitted')
    BY <1>0, <1>1, <2>1
  <2>3. \A i \in 1..Len(outq) : outq[i] = emitted[Len(received) + i]
    BY DEF OutInv, QueuedIn
  <2> QED BY <1>1, <2>2, <2>3 DEF QueuedIn
<1>10. ReceivedIn' /\ BatchIn'
  BY <1>1 DEF OutInv, ReceivedIn, BatchIn
<1>11. EndIsFinal'
  BY <1>1 DEF OutInv, EndIsFinal
<1> QED BY <1>7, <1>8, <1>9, <1>10, <1>11 DEF OutInv

LEMMA OutInit == Init => OutInv
BY DEF Init, OutInv, ReceivedIn, QueuedIn, BatchIn, LogHoldsOutputs, OutSlicesBounded,
       EndIsFinal, NextOutFirst

\* The transport fails: what it has received is all it will ever have.
LEMMA OutRelayFails ==
    ASSUME OutInv, RelayFails
    PROVE  OutInv'
<1>1. /\ UNCHANGED <<received, outs, cursor, emitted, log, trace, pc>>
      /\ relay' = "failed"
  BY DEF RelayFails, loopVars, fsmVars, logVars
<1> QED BY <1>1 DEF OutInv, ReceivedIn, QueuedIn, BatchIn, LogHoldsOutputs, NextOutFirst,
                    OutSlicesBounded, EndIsFinal

LEMMA OutStep == TypeInv /\ OutInv /\ [Next]_vars => OutInv'
<1> SUFFICES ASSUME TypeInv, OutInv, [Next]_vars PROVE OutInv'
  OBVIOUS
<1> USE DEF threadVars, cycleVars, fsmVars, logVars, loopVars, AppDropped
<1>1. CASE RunFsm
  BY <1>1, OutRunFsm
<1>2. CASE EgressOne
  BY <1>2, OutEgressOne
<1>3. CASE EndIteration \/ EgressErrIgnored
  BY <1>3, OutLog DEF EndIteration, EgressErrIgnored, EgressErr
<1>4. CASE RelayOne
  BY <1>4, OutRelayOne
<1>5. CASE RelayFails
  BY <1>5, OutRelayFails
<1>6. CASE RelayEnds
  BY <1>6, OutFrame DEF RelayEnds
<1>7. CASE Tick \/ Feeder
  BY <1>7, OutFrame DEF Tick, Feeder, FeedAccepted, FeedBlocks, FeedShed, FeedUnblocked,
                        FeedRefused, FeederReturns
<1>8. CASE \/ StartIteration \/ DrainOne \/ DrainHandover \/ DrainEnds \/ CountPending
           \/ StampCycle
  BY <1>8, OutFrame DEF StartIteration, DrainOne, DrainHandover, DrainEnds, EndDrain,
                        CountPending, StampCycle
<1>9. CASE EgressErrPanics \/ StopLoop \/ JoinDriver
  BY <1>9, OutFrame DEF EgressErrPanics, EgressErr, StopLoop, JoinDriver, DriverReturned
<1>10. CASE UNCHANGED vars
  BY <1>10, OutFrame DEF vars
<1> QED
  BY <1>1, <1>2, <1>3, <1>4, <1>5, <1>6, <1>7, <1>8, <1>9, <1>10 DEF Next, Relay, Loop, Terminated

-----------------------------------------------------------------------------
\* The log holds what the machine emitted, record after record.
THEOREM LogComplete == Spec => []LogHoldsOutputs
<1>1. OutInv => LogHoldsOutputs
  BY DEF OutInv
<1> QED BY <1>1, OutInit, OutStep, TypeInit, TypeStep, PTL DEF Spec

\* Nothing the machine emits is lost, duplicated or reordered on its way out,
\* until the transport fails; what it has then is a prefix.
THEOREM OutputsConserved == Spec => []OutputsInOrder
<1>1. TypeInv /\ OutInv => OutputsInOrder
  <2> SUFFICES ASSUME TypeInv, OutInv PROVE OutputsInOrder
    OBVIOUS
  <2> DEFINE head == received \o outq
             all  == head \o Unsent
  <2>0. /\ Len(received) \in Nat /\ Len(outq) \in Nat /\ Len(outs) \in Nat
        /\ Len(emitted) \in Nat /\ cursor \in Nat /\ cursor <= Len(outs)
        /\ received \in Seq(Out) /\ outq \in Seq(Out) /\ emitted \in Seq(Out)
        /\ outs \in Seq(Out)
    BY OutTypes
  <2>1. /\ Unsent \in Seq(Out) /\ Len(Unsent) = Len(outs) - cursor
        /\ \A i \in 1..Len(Unsent) : Unsent[i] = outs[cursor + i]
    <3> DEFINE m == cursor + 1
               n == Len(outs)
    <3>1. m \in Int /\ n \in Int /\ \A i \in m..n : outs[i] \in Out
      BY <2>0
    <3>2. n - m + 1 = Len(outs) - cursor /\ (IF m <= n THEN n - m + 1 ELSE 0) = Len(outs) - cursor
      BY <2>0
    <3> HIDE DEF m, n
    <3>3. /\ SubSeq(outs, m, n) \in Seq(Out)
          /\ Len(SubSeq(outs, m, n)) = IF m <= n THEN n - m + 1 ELSE 0
          /\ \A i \in 1..n - m + 1 : SubSeq(outs, m, n)[i] = outs[m + i - 1]
      BY <3>1, SubSeqProperties
    <3>4. Unsent = SubSeq(outs, m, n)
      BY DEF Unsent, m, n
    <3>5. Len(Unsent) = Len(outs) - cursor
      BY <3>2, <3>3, <3>4
    <3>6. ASSUME NEW i \in 1..Len(Unsent) PROVE Unsent[i] = outs[cursor + i]
      <4>1. i \in 1..n - m + 1
        BY <3>2, <3>5
      <4>2. m + i - 1 = cursor + i
        BY <2>0, <3>5 DEF m
      <4> QED BY <3>3, <3>4, <4>1, <4>2
    <3>7. Unsent \in Seq(Out)
      BY <3>3, <3>4
    <3> QED BY <3>5, <3>6, <3>7
  <2>2. /\ head \in Seq(Out) /\ Len(head) = Len(received) + Len(outq)
        /\ \A i \in 1..Len(received) : head[i] = received[i]
        /\ \A i \in 1..Len(outq) : head[Len(received) + i] = outq[i]
    BY <2>0
  <2>3. Len(head) \in Nat /\ Len(Unsent) \in Nat
    BY <2>0, <2>1, <2>2
  <2> HIDE DEF head
  <2>4. /\ all \in Seq(Out) /\ Len(all) = Len(head) + Len(Unsent)
        /\ \A i \in 1..Len(head) : all[i] = head[i]
        /\ \A i \in 1..Len(Unsent) : all[Len(head) + i] = Unsent[i]
    <3>1. head \in Seq(Out) /\ Unsent \in Seq(Out)
      BY <2>1, <2>2
    <3>2. /\ all \in Seq(Out) /\ Len(all) = Len(head) + Len(Unsent)
          /\ \A i \in 1..Len(head) + Len(Unsent) :
                all[i] = IF i <= Len(head) THEN head[i] ELSE Unsent[i - Len(head)]
      BY <3>1, ConcatProperties
    <3> HIDE DEF all
    <3> QED BY <2>3, <3>2
  <2> HIDE DEF all
  <2>5. ASSUME relay # "failed" PROVE all = emitted
    <3>1. Len(received) + Len(outq) + (Len(outs) - cursor) = Len(emitted)
      BY <2>5 DEF OutInv, QueuedIn
    <3>2. Len(all) = Len(emitted)
      BY <2>0, <2>1, <2>2, <2>4, <3>1
    <3>3. ASSUME NEW i \in 1..Len(all) PROVE all[i] = emitted[i]
      <4>1. CASE i \in 1..Len(received)
        <5>1. i \in 1..Len(head)
          BY <2>0, <2>2, <4>1
        <5>2. all[i] = received[i]
          BY <2>2, <2>4, <4>1, <5>1
        <5> QED BY <4>1, <5>2 DEF OutInv, ReceivedIn
      <4>2. CASE i - Len(received) \in 1..Len(outq)
        <5> DEFINE k == i - Len(received)
        <5>1. i \in 1..Len(head) /\ i = Len(received) + k
          BY <2>0, <2>2, <4>2
        <5>5. k \in 1..Len(outq)
          BY <4>2
        <5> HIDE DEF k
        <5>2. outq[k] = emitted[Len(received) + k]
          BY <2>5, <5>5 DEF OutInv, QueuedIn
        <5>3. head[Len(received) + k] = outq[k]
          BY <2>2, <5>5
        <5>4. all[i] = head[i]
          BY <2>4, <5>1
        <5> QED BY <5>1, <5>2, <5>3, <5>4
      <4>3. CASE i - Len(head) \in 1..Len(Unsent)
        <5> DEFINE k == i - Len(head)
        <5>1. i = Len(head) + k /\ k \in Nat
          BY <2>3, <4>3
        <5>2. cursor + k \in 1..Len(outs)
          BY <2>0, <2>1, <4>3
        <5>3. outs[cursor + k] = emitted[Len(emitted) - Len(outs) + (cursor + k)]
          BY <5>2 DEF OutInv, BatchIn
        <5>4. Len(emitted) - Len(outs) + (cursor + k) = i
          <6>1. /\ Len(head) = Len(received) + Len(outq)
                /\ Len(received) \in Nat /\ Len(outq) \in Nat /\ Len(outs) \in Nat
                /\ Len(emitted) \in Nat /\ cursor \in Nat
            BY <2>0, <2>2
          <6> HIDE DEF k
          <6> QED BY <3>1, <5>1, <6>1
        <5>5. Unsent[k] = outs[cursor + k]
          BY <2>1, <4>3
        <5>6. all[Len(head) + k] = Unsent[k]
          BY <2>4, <4>3
        <5> QED BY <5>1, <5>3, <5>4, <5>5, <5>6
      <4>4. Len(head) = Len(received) + Len(outq) /\ Len(all) = Len(head) + Len(Unsent)
        BY <2>2, <2>4
      <4> QED BY <2>0, <2>3, <4>1, <4>2, <4>3, <4>4
    <3> QED BY <2>0, <2>4, <3>2, <3>3, SeqEqual
  <2>6. Len(received) <= Len(emitted)
    <3>1. CASE Len(received) = 0
      BY <2>0, <3>1
    <3>2. CASE Len(received) > 0
      <4>1. Len(received) \in 1..Len(received)
        BY <2>0, <3>2
      <4> QED BY <4>1 DEF OutInv, ReceivedIn
    <3> QED BY <2>0, <3>1, <3>2
  <2>7. \A i \in 1..Len(received) : received[i] = emitted[i]
    BY DEF OutInv, ReceivedIn
  <2>8. relay # "failed" => ~cuError
    BY DEF OutInv, EndIsFinal
  <2> QED BY <2>5, <2>6, <2>7, <2>8 DEF OutputsInOrder, all, head
<1> QED BY <1>1, OutInit, OutStep, TypeInit, TypeStep, PTL DEF Spec

-----------------------------------------------------------------------------
(***************************************************************************)
(* What the records of the log hold, one after the other.  Recursive       *)
(* functions over an interval are reasoned about with the least argument   *)
(* at which something fails.                                               *)
(***************************************************************************)
LEMMA Least ==
    ASSUME NEW T \in SUBSET Nat, T # {}
    PROVE  \E x \in T : \A y \in T : x <= y
<1>1. PICK x \in T : \A y \in T : ~(<<y, x>> \in OpToRel(<, Nat))
  BY NatLessThanWellFounded, WFMin
<1>2. OpToRel(<, Nat) = {ss \in Nat \X Nat : ss[1] < ss[2]}
  BY DEF OpToRel
<1>3. ASSUME NEW y \in T PROVE x <= y
  <2>1. <<y, x>> \notin {ss \in Nat \X Nat : ss[1] < ss[2]}
    BY <1>1, <1>2
  <2>2. x \in Nat /\ y \in Nat
    OBVIOUS
  <2>3. ~(y < x)
    BY <2>1, <2>2
  <2> QED BY <2>2, <2>3
<1> QED BY <1>3

\* FlattenSeq is the last value of any function that satisfies its equation.
LEMMA FlattenIs ==
    ASSUME NEW N \in Nat \ {0}, NEW seqs, Len(seqs) = N, NEW g,
           \A n \in 1..N : g[n] = IF n = 1 THEN seqs[n] ELSE g[n - 1] \o seqs[n]
    PROVE  FlattenSeq(seqs) = g[N]
<1> DEFINE After(sofar, n) == sofar \o seqs[n]
           Value(f, n) == IF n = 1 THEN seqs[n] ELSE After(f[n - 1], n)
           Run(f) == f = [n \in 1..N |-> Value(f, n)]
           run == CHOOSE f : Run(f)
           h == [n \in 1..N |-> g[n]]
<1>1. FlattenSeq(seqs) = run[N]
  BY DEF FlattenSeq
<1>2. \A n \in 1..N : g[n] = Value(g, n)
  OBVIOUS
<1> HIDE DEF After, run
<1>3. Run(h)
  <2>1. ASSUME NEW n \in 1..N PROVE g[n] = Value(h, n)
    <3>1. CASE n = 1
      BY <1>2, <3>1
    <3>2. CASE n # 1
      <4>1. n - 1 \in 1..N
        BY <3>2
      <4>2. h[n - 1] = g[n - 1]
        BY <4>1
      <4> HIDE DEF h
      <4> QED BY <1>2, <3>2, <4>2
    <3> QED BY <3>1, <3>2
  <2>2. h = [n \in 1..N |-> g[n]]
    OBVIOUS
  <2> HIDE DEF h, Value
  <2> QED BY <2>1, <2>2
<1>4. Run(run)
  <2> HIDE DEF Run, h
  <2> QED BY <1>3 DEF run
<1>5. \A n \in 1..N : run[n] = Value(run, n)
  <2> HIDE DEF Value
  <2>1. run = [n \in 1..N |-> Value(run, n)]
    BY <1>4
  <2> QED BY <2>1
<1>6. \A n \in 1..N : run[n] = g[n]
  <2> DEFINE T == {n \in 1..N : run[n] # g[n]}
  <2>1. SUFFICES ASSUME T # {} PROVE FALSE
    OBVIOUS
  <2>2. PICK k \in T : \A j \in T : k <= j
    <3>1. T \in SUBSET Nat
      OBVIOUS
    <3> HIDE DEF T
    <3> QED BY <2>1, <3>1, Least
  <2>3. CASE k = 1
    BY <1>2, <1>5, <2>3
  <2>4. CASE k # 1
    <3>1. k \in 1..N /\ k - 1 \in 1..N
      BY <2>4
    <3>2. run[k - 1] = g[k - 1]
      BY <2>2, <3>1
    <3> QED BY <1>2, <1>5, <2>4, <3>1, <3>2
  <2> QED BY <2>3, <2>4
<1> QED BY <1>1, <1>6

\* A slice of a sequence is its elements, and is extended by the next slice.
LEMMA SliceGrows ==
    ASSUME NEW S, NEW whole \in Seq(S), NEW a \in Nat, NEW part \in Seq(S),
           a + Len(part) <= Len(whole), \A i \in 1..Len(part) : part[i] = whole[a + i]
    PROVE  SubSeq(whole, 1, a + Len(part)) = SubSeq(whole, 1, a) \o part
<1> DEFINE b == a + Len(part)
           short == SubSeq(whole, 1, a)
           long == SubSeq(whole, 1, b)
           both == short \o part
<1>1. Len(part) \in Nat /\ Len(whole) \in Nat /\ b \in Nat /\ a <= b /\ b <= Len(whole)
  OBVIOUS
<1> HIDE DEF b
<1>2. /\ short \in Seq(S) /\ Len(short) = a
      /\ \A i \in 1..a : short[i] = whole[i]
  BY <1>1
<1>3. /\ long \in Seq(S) /\ Len(long) = b
      /\ \A i \in 1..b : long[i] = whole[i]
  BY <1>1
<1> HIDE DEF short, long
<1>4. /\ both \in Seq(S) /\ Len(both) = a + Len(part)
      /\ \A i \in 1..a + Len(part) : both[i] = IF i <= a THEN short[i] ELSE part[i - a]
  BY <1>2, ConcatProperties
<1>5. Len(both) = b
  BY <1>4 DEF b
<1> HIDE DEF both
<1>6. ASSUME NEW i \in 1..b PROVE long[i] = both[i]
  <2>1. CASE i <= a
    BY <1>1, <1>2, <1>3, <1>4, <2>1 DEF b
  <2>2. CASE i > a
    <3> DEFINE k == i - a
    <3>1. k \in 1..Len(part) /\ i = a + k
      BY <1>1, <2>2 DEF b
    <3> HIDE DEF k
    <3>2. both[i] = part[k]
      BY <1>1, <1>4, <2>2, <3>1 DEF b
    <3>3. long[i] = whole[a + k]
      BY <1>3, <3>1
    <3> QED BY <3>1, <3>2, <3>3
  <2> QED BY <1>1, <2>1, <2>2
<1> QED BY <1>3, <1>4, <1>5, <1>6, SeqEqual DEF b, short, long, both

\* The first N records of the log hold what was emitted up to the end of the last of them.
LEMMA LoggedOutputs ==
    ASSUME TypeInv, OutInv, NEW N \in 1..Len(log)
    PROVE  /\ FlattenSeq([n \in 1..N |-> log[n].outs]) = SubSeq(emitted, 1, NextOutFirst(N))
           /\ NextOutFirst(N) \in Nat /\ NextOutFirst(N) <= Len(emitted)
<1> DEFINE g == [n \in 1..N |-> SubSeq(emitted, 1, NextOutFirst(n))]
           seqs == [n \in 1..N |-> log[n].outs]
<1>0. emitted \in Seq(Out) /\ Len(emitted) \in Nat /\ Len(outs) \in Nat /\ Len(log) \in Nat
  BY OutTypes
<1>1. ASSUME NEW n \in 1..N
      PROVE  /\ NextOutFirst(n) = trace[n].outFirst + Len(log[n].outs)
             /\ NextOutFirst(n) <= Len(emitted)
             /\ trace[n].outFirst \in Nat /\ NextOutFirst(n) \in Nat
             /\ \A i \in 1..Len(log[n].outs) : log[n].outs[i] = emitted[trace[n].outFirst + i]
             /\ log[n].outs \in Seq(Out)
  <2>0. n \in 1..Len(log)
    BY <1>0
  <2>1. /\ NextOutFirst(n) = trace[n].outFirst + Len(log[n].outs)
        /\ \A i \in 1..Len(log[n].outs) : log[n].outs[i] = emitted[trace[n].outFirst + i]
    BY <2>0 DEF OutInv, LogHoldsOutputs
  <2>2. trace[n].outFirst + Len(log[n].outs) <= Len(emitted) - Len(outs)
    BY <2>0 DEF OutInv, OutSlicesBounded
  <2>3. trace[n].outFirst \in Nat /\ Len(log[n].outs) \in Nat
    BY <2>0, OutTypes
  <2>4. NextOutFirst(n) \in Nat /\ NextOutFirst(n) <= Len(emitted)
    <3> DEFINE first == trace[n].outFirst
               len == Len(log[n].outs)
    <3>1. /\ NextOutFirst(n) = first + len /\ first + len <= Len(emitted) - Len(outs)
          /\ first \in Nat /\ len \in Nat
      BY <2>1, <2>2, <2>3
    <3> HIDE DEF first, len
    <3> QED BY ONLY <1>0, <3>1
  <2>5. log[n] \in Record
    BY <2>0, InboundTypes
  <2> QED BY <2>1, <2>3, <2>4, <2>5 DEF Record
<1>2. ASSUME NEW n \in 1..N
      PROVE  g[n] = IF n = 1 THEN seqs[n] ELSE g[n - 1] \o seqs[n]
  <2> DEFINE a == trace[n].outFirst
             part == log[n].outs
  <2>1. /\ a \in Nat /\ part \in Seq(Out) /\ a + Len(part) <= Len(emitted)
        /\ \A i \in 1..Len(part) : part[i] = emitted[a + i]
        /\ NextOutFirst(n) = a + Len(part)
    BY <1>1
  <2>2. g[n] = SubSeq(emitted, 1, a + Len(part)) /\ seqs[n] = part
    BY <2>1
  <2> HIDE DEF a, part, g, seqs
  <2>3. g[n] = SubSeq(emitted, 1, a) \o part
    <3>1. SubSeq(emitted, 1, a + Len(part)) = SubSeq(emitted, 1, a) \o part
      <4> HIDE DEF a, part
      <4> QED BY <1>0, <2>1, SliceGrows
    <3> QED BY <2>2, <3>1
  <2>4. CASE n = 1
    <3>1. a = 0
      <4>1. Len(log) > 0
        BY <1>0
      <4> QED BY <2>4, <4>1 DEF OutInv, LogHoldsOutputs, a
    <3>2. SubSeq(emitted, 1, 0) = <<>>
      BY <1>0
    <3>3. <<>> \o part = part
      BY <2>1
    <3> QED BY <2>2, <2>3, <2>4, <3>1, <3>2, <3>3
  <2>5. CASE n # 1
    <3>1. n - 1 \in 1..N /\ n - 1 < Len(log) /\ (n - 1) + 1 = n
      BY <1>0, <2>5
    <3>2. NextOutFirst(n - 1) = a
      BY <3>1 DEF NextOutFirst, a
    <3>3. g[n - 1] = SubSeq(emitted, 1, a)
      BY <3>1, <3>2 DEF g
    <3> QED BY <2>2, <2>3, <2>5, <3>3
  <2> QED BY <2>4, <2>5
<1>3. N \in Nat \ {0} /\ Len(seqs) = N
  BY <1>0
<1>4. g[N] = SubSeq(emitted, 1, NextOutFirst(N))
  <2>1. N \in 1..N
    BY <1>3
  <2> QED BY <2>1
<1>5. FlattenSeq(seqs) = g[N]
  <2> HIDE DEF g, seqs
  <2> QED BY <1>2, <1>3, FlattenIs
<1>6. NextOutFirst(N) \in Nat /\ NextOutFirst(N) <= Len(emitted)
  BY <1>1, <1>3
<1> QED BY <1>4, <1>5, <1>6

\* When the join is over, everything that was emitted is in the log; without a
\* transport fault it is also what the transport has received.
LEMMA AllLogged ==
    ASSUME TypeInv, OutInv, pc = "joined"
    PROVE  /\ FlattenSeq([n \in 1..Len(log) |-> log[n].outs]) = emitted
           /\ Len(log) > 0 => NextOutFirst(Len(log)) = Len(emitted)
           /\ relay # "failed" => received = emitted
<1>1. outs = <<>> /\ cursor = 0 /\ Len(outs) = 0
  BY DEF TypeInv, Slots
<1>2. /\ received \in Seq(Out) /\ emitted \in Seq(Out)
      /\ Len(received) \in Nat /\ Len(emitted) \in Nat /\ Len(log) \in Nat
  BY OutTypes
<1>3. ASSUME relay # "failed" PROVE received = emitted
  <2>1. outq = <<>> /\ Len(outq) = 0
    BY <1>3 DEF TypeInv, TypeOK, OutInv, EndIsFinal
  <2>2. Len(received) + Len(outq) + (Len(outs) - cursor) = Len(emitted)
    BY <1>3 DEF OutInv, QueuedIn
  <2>3. Len(received) = Len(emitted)
    BY <1>1, <1>2, <2>1, <2>2
  <2>4. \A i \in 1..Len(received) : received[i] = emitted[i]
    BY DEF OutInv, ReceivedIn
  <2> QED BY <1>2, <2>3, <2>4, SeqEqual
<1>4. CASE Len(log) = 0
  <2>1. Len(emitted) = 0
    BY <1>1, <1>4 DEF OutInv, LogHoldsOutputs
  <2>2. emitted = <<>>
    BY <1>2, <2>1
  <2>3. [n \in 1..Len(log) |-> log[n].outs] = <<>>
    BY <1>4
  <2>4. FlattenSeq(<<>>) = <<>>
    BY DEF FlattenSeq
  <2> QED BY <1>3, <1>4, <2>2, <2>3, <2>4
<1>5. CASE Len(log) > 0
  <2>1. Len(log) \in 1..Len(log)
    BY <1>2, <1>5
  <2>2. NextOutFirst(Len(log)) = Len(emitted)
    BY <1>1, <1>2 DEF NextOutFirst
  <2>3. SubSeq(emitted, 1, Len(emitted)) = emitted
    BY <1>2
  <2> QED BY <1>3, <2>1, <2>2, <2>3, LoggedOutputs
<1> QED BY <1>2, <1>4, <1>5

\* After a run without a transport fault, the transport has received exactly what
\* the records of the log hold, in their order (assert_eq!(alarms, live)).
THEOREM LiveIsLog == Spec => []LiveEqualsLog
<1>1. TypeInv /\ OutInv => LiveEqualsLog
  BY AllLogged DEF LiveEqualsLog
<1> QED BY <1>1, OutInit, OutStep, TypeInit, TypeStep, PTL DEF Spec

-----------------------------------------------------------------------------
(***************************************************************************)
(* CycleBridge implements Pipeline, for every machine, batch limit and     *)
(* capacity: each step of the bridge is a step of the pipeline or changes  *)
(* nothing that the pipeline sees.                                         *)
(***************************************************************************)
RefInv == TypeInv /\ InOrderInv /\ OutInv

\* What a step leaves alone if the pipeline does not see it.
seen == <<AcceptedMessages, ConsumedCount, OpenStep, LoggedSteps, emitted, received>>

LEMMA MapsInit == Init => Pipe!Init
<1> SUFFICES ASSUME Init PROVE Pipe!Init
  OBVIOUS
<1>1. Len(sent) = 0 /\ Len(log) = 0 /\ Len(events) = 0 /\ Len(inq) = 0 /\ ~StepOpen
  BY DEF Init, StepOpen
<1>2. AcceptedMessages = <<>> /\ LoggedSteps = <<>>
  BY <1>1 DEF AcceptedMessages, LoggedSteps
<1>3. ConsumedCount = 0 /\ OpenStep = <<>>
  BY <1>1 DEF ConsumedCount, OpenStep, Taken
<1> QED BY <1>2, <1>3 DEF Pipe!Init, Init

\* What RefInv says of the sequences the pipeline sees.
LEMMA SeenTypes ==
    ASSUME TypeInv
    PROVE  /\ AcceptedMessages \in Seq(1..MaxSent) /\ Len(AcceptedMessages) = Len(sent)
           /\ \A i \in 1..Len(sent) : AcceptedMessages[i] = sent[i].val
           /\ Len(LoggedSteps) = Len(log)
           /\ LoggedSteps \in Seq([ins : Seq(1..MaxSent), outs : Seq(Out)])
<1>1. sent \in Seq(Message) /\ log \in Seq(Record) /\ Len(sent) \in Nat /\ Len(log) \in Nat
  BY InboundTypes
<1>2. ASSUME NEW i \in 1..Len(sent) PROVE sent[i].val \in 1..MaxSent
  <2>1. sent[i] \in Message
    BY <1>1
  <2> QED BY <2>1 DEF Message
<1>3. \A n \in 1..Len(log) : [ins |-> log[n].cycle.events, outs |-> log[n].outs]
                                 \in [ins : Seq(1..MaxSent), outs : Seq(Out)]
  <2> SUFFICES ASSUME NEW n \in 1..Len(log)
               PROVE  log[n].cycle.events \in Seq(1..MaxSent) /\ log[n].outs \in Seq(Out)
    OBVIOUS
  <2>1. log[n] \in Record
    BY <1>1
  <2>2. log[n].cycle.events \in Batches(1..MaxSent, MaxBatch) /\ log[n].outs \in Seq(Out)
    BY <2>1 DEF Record, Cycle, Batches
  <2> QED BY <2>2, BatchIsSeq, MaxBatchAssumption
<1> QED BY <1>1, <1>2, <1>3 DEF AcceptedMessages, LoggedSteps

-----------------------------------------------------------------------------
\* A message goes into the channel, or is handed over.
LEMMA MapsAccept ==
    ASSUME TypeInv, TypeInv', NEW v \in 1..MaxSent, NEW place,
           sent' = Append(sent, Sent(v, place)),
           ConsumedCount' = ConsumedCount,
           UNCHANGED <<OpenStep, LoggedSteps, emitted, received>>
    PROVE  Pipe!Accept
<1>1. /\ Len(sent') = Len(sent) + 1 /\ Len(sent) \in Nat /\ sent'[Len(sent) + 1].val = v
      /\ \A i \in 1..Len(sent) : sent'[i] = sent[i]
  BY InboundTypes DEF Sent
<1>2. AcceptedMessages' = Append(AcceptedMessages, v)
  <2>1. /\ Len(AcceptedMessages') = Len(sent) + 1 /\ AcceptedMessages' \in Seq(1..MaxSent)
        /\ \A i \in 1..(Len(sent) + 1) : AcceptedMessages'[i] = sent'[i].val
    BY <1>1, SeenTypes DEF AcceptedMessages
  <2> DEFINE longer == Append(AcceptedMessages, v)
  <2>2. AcceptedMessages \in Seq(1..MaxSent) /\ Len(AcceptedMessages) = Len(sent)
    BY SeenTypes
  <2>3. /\ longer \in Seq(1..MaxSent) /\ Len(longer) = Len(sent) + 1 /\ longer[Len(sent) + 1] = v
        /\ \A i \in 1..Len(sent) : longer[i] = sent[i].val
    BY <2>2, SeenTypes
  <2> HIDE DEF longer
  <2>4. \A i \in 1..(Len(sent) + 1) : AcceptedMessages'[i] = longer[i]
    BY <1>1, <2>1, <2>3
  <2>5. AcceptedMessages' = longer
    BY <1>1, <2>1, <2>3, <2>4, SeqEqual
  <2> QED BY <2>5 DEF longer
<1> QED BY <1>2 DEF Pipe!Accept

\* The machine's step consumes the batch.
LEMMA MapsRunFsm ==
    ASSUME RefInv, RunFsm
    PROVE  \E n \in 0..MaxBatch : Pipe!Step(n)
<1> DEFINE new == FsmStep(machine, TheCycle).outs
           n == Len(events)
<1>1. new \in Seq(Out) /\ outs' = new /\ emitted' = emitted \o new
  BY MachineAssumption DEF RunFsm, StepMachine, RefInv, TypeInv, TypeOK
<1>2. UNCHANGED <<inq, sent, events, log, received>> /\ pc = "fsm" /\ pc' = "egress"
  BY DEF RunFsm, StepMachine, threadVars, cycleVars, logVars
<1> HIDE DEF new
<1>3. /\ n \in 0..MaxBatch /\ events \in Seq(1..MaxSent)
      /\ Taken \in Nat /\ n <= Taken /\ Taken <= Len(sent) /\ Len(sent) \in Nat
  <2>1. TheCycle \in Cycle
    BY DEF RefInv, TypeInv, TypeOK
  <2>2. n <= MaxBatch
    BY <2>1, CycleType
  <2> QED BY <2>2, InboundTypes, MaxBatchAssumption DEF RefInv, Taken
<1>4. /\ OpenStep = <<>> /\ ConsumedCount = Taken - n /\ ConsumedCount' = Taken
      /\ OpenStep' = << [ins |-> events, outs |-> new] >>
  BY <1>1, <1>2 DEF OpenStep, ConsumedCount, StepOpen, Taken
<1>5. UNCHANGED <<AcceptedMessages, LoggedSteps, received>>
  BY <1>2 DEF AcceptedMessages, LoggedSteps
<1>6. events = SubSeq(AcceptedMessages, Taken - n + 1, Taken)
  <2>1. \A i \in 1..n : events[i] = sent[Taken - n + i].val
    BY DEF RefInv, InOrderInv, MessagesInOrder, BatchInOrder
  <2>2. /\ AcceptedMessages \in Seq(1..MaxSent) /\ Len(AcceptedMessages) = Len(sent)
        /\ \A i \in 1..Len(sent) : AcceptedMessages[i] = sent[i].val
    BY SeenTypes DEF RefInv
  <2> HIDE DEF n
  <2>3. ASSUME NEW i \in (Taken - n + 1)..Taken PROVE AcceptedMessages[i] \in 1..MaxSent
    <3>1. i \in 1..Len(AcceptedMessages)
      BY <1>3, <2>2
    <3> QED BY <2>2, <3>1, ElementOfSeq
  <2> DEFINE part == SubSeq(AcceptedMessages, Taken - n + 1, Taken)
  <2>4. /\ part \in Seq(1..MaxSent)
        /\ Len(part) = IF Taken - n + 1 <= Taken THEN Taken - (Taken - n + 1) + 1 ELSE 0
        /\ \A i \in 1..(Taken - (Taken - n + 1) + 1) :
              part[i] = AcceptedMessages[(Taken - n + 1) + i - 1]
    BY <1>3, <2>3, SubSeqProperties
  <2> HIDE DEF part
  <2>5. Len(part) = n
    BY <1>3, <2>4
  <2>7. ASSUME NEW i \in 1..n PROVE part[i] = events[i]
    <3>1. part[i] = AcceptedMessages[(Taken - n + 1) + i - 1]
      BY <1>3, <2>4
    <3>2. (Taken - n + 1) + i - 1 = Taken - n + i /\ Taken - n + i \in 1..Len(sent)
      BY <1>3
    <3> QED BY <2>1, <2>2, <3>1, <3>2
  <2>6. Len(events) = n
    BY DEF n
  <2> QED BY <1>3, <2>4, <2>5, <2>6, <2>7, SeqEqual DEF part
<1>7. /\ Len(emitted) <= Len(emitted') /\ emitted = SubSeq(emitted', 1, Len(emitted))
      /\ new = SubSeq(emitted', Len(emitted) + 1, Len(emitted'))
  <2>1. emitted \in Seq(Out) /\ Len(emitted) \in Nat /\ Len(new) \in Nat
    BY <1>1, OutTypes DEF RefInv
  <2> QED BY <1>1, <2>1
<1>8. Pipe!Step(n)
  <2>1. Len(AcceptedMessages) = Len(sent)
    BY SeenTypes DEF RefInv
  <2> HIDE DEF n
  <2>2. ConsumedCount' = ConsumedCount + n /\ ConsumedCount' <= Len(AcceptedMessages)
    BY <1>3, <1>4, <2>1
  <2>3. OpenStep' = << [ ins  |-> SubSeq(AcceptedMessages, ConsumedCount + 1, ConsumedCount'),
                         outs |-> SubSeq(emitted', Len(emitted) + 1, Len(emitted')) ] >>
    BY <1>4, <1>6, <1>7
  <2> QED BY <1>4, <1>5, <1>7, <2>2, <2>3 DEF Pipe!Step
<1> QED BY <1>3, <1>8

\* Its copperlist is logged.
LEMMA MapsLog ==
    ASSUME RefInv, RefInv', LogCopperlist, pc = "egress"
    PROVE  Pipe!Record
<1>1. /\ events' = <<>> /\ Len(events') = 0 /\ pc' = "idle"
      /\ UNCHANGED <<sent, inq, emitted, received>>
  BY DEF LogCopperlist, LogWith, threadVars
<1>2. /\ OpenStep = << [ins |-> events, outs |-> outs] >> /\ OpenStep' = <<>>
      /\ ConsumedCount = Taken /\ ConsumedCount' = Taken /\ Taken \in Int
  BY <1>1, InboundTypes DEF RefInv, OpenStep, ConsumedCount, StepOpen, Taken
<1>3. LoggedSteps' = LoggedSteps \o OpenStep
  <2>1. /\ Len(log') = Len(log) + 1 /\ Len(log) \in Nat
        /\ \A n \in 1..Len(log) : log'[n] = log[n]
        /\ log'[Len(log) + 1].cycle.events = events /\ log'[Len(log) + 1].outs = outs
    BY LogAppends, InboundTypes DEF RefInv, TheCycle
  <2> DEFINE S == [ins : Seq(1..MaxSent), outs : Seq(Out)]
             step == [ins |-> events, outs |-> outs]
  <2>2. step \in S
    BY InboundTypes, OutTypes DEF RefInv
  <2>3. LoggedSteps \in Seq(S) /\ Len(LoggedSteps) = Len(log)
    BY SeenTypes DEF RefInv
  <2>5. LoggedSteps'[Len(log) + 1] = step /\ \A n \in 1..Len(log) : LoggedSteps'[n] = LoggedSteps[n]
    BY <2>1 DEF LoggedSteps
  <2> HIDE DEF S, step
  <2>4. LoggedSteps' \in Seq(S) /\ Len(LoggedSteps') = Len(log) + 1
    <3>1. \A n \in 1..(Len(log) + 1) : LoggedSteps'[n] \in S
      BY <2>1, <2>2, <2>3, <2>5
    <3>2. LoggedSteps' = [n \in 1..(Len(log) + 1) |-> LoggedSteps'[n]]
      BY <2>1 DEF LoggedSteps
    <3> QED BY <2>1, <3>1, <3>2
  <2>6. LoggedSteps' = Append(LoggedSteps, step)
    <3> DEFINE longer == Append(LoggedSteps, step)
    <3>1. /\ longer \in Seq(S) /\ Len(longer) = Len(log) + 1 /\ longer[Len(log) + 1] = step
          /\ \A n \in 1..Len(log) : longer[n] = LoggedSteps[n]
      BY <2>2, <2>3
    <3> HIDE DEF longer
    <3>2. \A n \in 1..(Len(log) + 1) : LoggedSteps'[n] = longer[n]
      BY <2>1, <2>5, <3>1
    <3>3. LoggedSteps' = longer
      BY <2>4, <3>1, <3>2, SeqEqual
    <3> QED BY <3>3 DEF longer
  <2>7. LoggedSteps \o <<step>> = Append(LoggedSteps, step)
    BY <2>2, <2>3
  <2> QED BY <1>2, <2>6, <2>7 DEF step
<1>4. AcceptedMessages' = AcceptedMessages
  BY <1>1 DEF AcceptedMessages
<1>5. OpenStep # <<>>
  BY <1>2
<1> QED BY <1>1, <1>2, <1>3, <1>4, <1>5 DEF Pipe!Record

\* The transport takes a value.
LEMMA MapsRelayOne ==
    ASSUME RefInv, RefInv', RelayOne
    PROVE  Pipe!Deliver
<1>1. /\ received' = Append(received, Head(outq)) /\ outq # <<>>
      /\ UNCHANGED <<sent, inq, events, outs, log, emitted, pc>> /\ received \in Seq(Out)
      /\ outq \in Seq(Out) /\ Len(received) \in Nat
  BY OutTypes DEF RefInv, RelayOne, loopVars, cycleVars, fsmVars, logVars
<1>2. Len(received') = Len(received) + 1 /\ received'[Len(received) + 1] = Head(outq)
  BY <1>1, HeadTailProperties
<1>3. Len(received) < Len(emitted) /\ Head(outq) = emitted[Len(received) + 1]
  <2>1. \A i \in 1..Len(received') : i <= Len(emitted') /\ received'[i] = emitted'[i]
    BY DEF RefInv, OutInv, ReceivedIn
  <2>2. Len(emitted) \in Nat
    BY OutTypes DEF RefInv
  <2> QED BY <1>1, <1>2, <2>1, <2>2
<1>4. UNCHANGED <<AcceptedMessages, ConsumedCount, OpenStep, LoggedSteps>>
  BY <1>1 DEF AcceptedMessages, ConsumedCount, OpenStep, LoggedSteps, StepOpen, Taken
<1> QED BY <1>1, <1>3, <1>4 DEF Pipe!Deliver

\* A step that changes nothing the pipeline sees.
LEMMA Unseen ==
    ASSUME UNCHANGED <<sent, inq, events, outs, log, emitted, received>>, StepOpen' = StepOpen
    PROVE  UNCHANGED seen
BY DEF seen, AcceptedMessages, ConsumedCount, OpenStep, LoggedSteps, Taken

LEMMA UnseenDrainOne ==
    ASSUME TypeInv, DrainOne
    PROVE  UNCHANGED seen
<1>1. /\ UNCHANGED <<sent, outs, log, emitted, received, pc>> /\ pc = "drain"
      /\ inq # <<>> /\ inq' = Tail(inq) /\ events' = Append(events, Head(inq))
  BY DEF DrainOne, threadVars, fsmVars, logVars
<1>2. Len(inq') = Len(inq) - 1 /\ Len(events') = Len(events) + 1
  BY <1>1, InboundTypes, HeadTailProperties
<1>3. ConsumedCount' = ConsumedCount
  BY <1>1, <1>2, InboundTypes DEF ConsumedCount, StepOpen, Taken
<1> QED BY <1>1, <1>3 DEF seen, AcceptedMessages, OpenStep, LoggedSteps, StepOpen

-----------------------------------------------------------------------------
LEMMA MapsNext == RefInv /\ RefInv' /\ [Next]_vars => Pipe!Next \/ UNCHANGED seen
<1> SUFFICES ASSUME RefInv, RefInv', [Next]_vars PROVE Pipe!Next \/ UNCHANGED seen
  OBVIOUS
<1> USE DEF threadVars, cycleVars, fsmVars, logVars, loopVars
<1>1. ASSUME FeedAccepted \/ FeedUnblocked \/ DrainHandover PROVE Pipe!Next
  <2>1. PICK v \in 1..MaxSent, place \in 0..(Len(inq) + 1) : sent' = Append(sent, Sent(v, place))
    <3>1. offered \in 0..MaxSent /\ MaxSent \in Nat /\ (feeder = "blocked" => offered \in 1..MaxSent)
      BY InboundTypes, BoundAssumption DEF RefInv, TypeInv, TypeOK, Offers
    <3> QED BY <1>1, <3>1 DEF FeedAccepted, FeedUnblocked, DrainHandover, Handover, Accept
  <2>2. UNCHANGED <<OpenStep, LoggedSteps, emitted, received>>
    BY <1>1 DEF FeedAccepted, FeedUnblocked, DrainHandover, OpenStep, LoggedSteps, StepOpen
  <2>3. ConsumedCount' = ConsumedCount
    <3>1. CASE FeedAccepted \/ FeedUnblocked
      <4>1. Len(sent') = Len(sent) + 1 /\ Len(inq') = Len(inq) + 1
        BY <3>1, <2>1, InboundTypes DEF RefInv, FeedAccepted, FeedUnblocked, Accept
      <4>2. UNCHANGED <<events, pc>>
        BY <3>1 DEF FeedAccepted, FeedUnblocked
      <4> QED BY <4>1, <4>2, InboundTypes DEF RefInv, ConsumedCount, StepOpen, Taken
    <3>2. CASE DrainHandover
      <4>1. Len(sent') = Len(sent) + 1 /\ Len(events') = Len(events) + 1
        BY <3>2, <2>1, InboundTypes DEF RefInv, DrainHandover
      <4>2. UNCHANGED <<inq, pc>> /\ pc = "drain"
        BY <3>2 DEF DrainHandover
      <4> QED BY <4>1, <4>2, InboundTypes DEF RefInv, ConsumedCount, StepOpen, Taken
    <3> QED BY <1>1, <3>1, <3>2
  <2>4. Pipe!Accept
    BY <2>1, <2>2, <2>3, MapsAccept DEF RefInv
  <2> QED BY <2>4 DEF Pipe!Next
<1>2. CASE RunFsm
  BY <1>2, MapsRunFsm DEF Pipe!Next
<1>3. CASE EndIteration \/ EgressErrIgnored
  BY <1>3, MapsLog DEF EndIteration, EgressErrIgnored, EgressErr, Pipe!Next
<1>4. CASE RelayOne
  BY <1>4, MapsRelayOne DEF Pipe!Next
<1>5. CASE DrainOne
  BY <1>5, UnseenDrainOne DEF RefInv
<1>6. CASE Tick \/ FeedBlocks \/ FeedShed \/ FeedRefused \/ FeederReturns \/ RelayEnds \/ RelayFails
  BY <1>6, Unseen DEF Tick, FeedBlocks, FeedShed, FeedRefused, FeederReturns, RelayEnds, RelayFails,
                      StepOpen
<1>7. CASE StartIteration \/ DrainEnds \/ CountPending \/ StampCycle
  BY <1>7, Unseen DEF StartIteration, CountPending, StampCycle, DrainEnds, EndDrain, StepOpen
<1>8. CASE EgressOne \/ EgressErrPanics \/ StopLoop \/ JoinDriver
  BY <1>8, Unseen DEF EgressOne, EgressErrPanics, EgressErr, StopLoop, JoinDriver, StepOpen
<1>9. CASE UNCHANGED vars
  BY <1>9, Unseen DEF vars, StepOpen
<1> QED
  BY <1>1, <1>2, <1>3, <1>4, <1>5, <1>6, <1>7, <1>8, <1>9 DEF Next, Feeder, Relay, Loop, Terminated

\* The batch tasks between the two channels implement Pipeline: cycles consume the
\* accepted messages in order, the log holds each cycle with what it emitted, and the
\* transport is given what was emitted, in order and once, up to a failure of its own
\* or a panic of the loop (cycle_step, FsmBatchTask::process, BatchEgressTask::process).
THEOREM BridgeIsPipeline == Spec => ImplementsPipeline
<1>1. Spec => []RefInv
  BY TypeInit, TypeStep, InOrderInit, InOrderStep, OutInit, OutStep, PTL DEF Spec, RefInv
<1>2. RefInv /\ RefInv' /\ [Next]_vars => [Pipe!Next]_seen
  BY MapsNext
<1>3. Spec => [][Pipe!Next]_seen
  BY <1>1, <1>2, PTL DEF Spec
<1> QED
  BY <1>3, MapsInit, PTL DEF Spec, ImplementsPipeline, Pipe!Spec, Pipe!vars, seen
=============================================================================
