---------------------------- MODULE CycleBridge ----------------------------
(***************************************************************************)
(* The batch path of msrs with a transport on its own threads:             *)
(*                                                                         *)
(*   feeder thread --inq--> CycleIngressTask --> FsmBatchTask<M>           *)
(*                              --> BatchEgressTask --outq--> relay thread *)
(*                                                                         *)
(* The three tasks run one after the other on the copper loop thread, one  *)
(* copperlist per iteration; the feeder and the relay are the two threads  *)
(* of the watchdog example's Pulse transport.  The loop thread and the     *)
(* transport threads share nothing but the two channels and the clock, so  *)
(* every access to a channel or to the clock is a step of its own.         *)
(*                                                                         *)
(* The machine driven by FsmBatchTask is a parameter: FsmStep(s, c) is the *)
(* state it moves to and the values it emits when state s is given cycle c.*)
(*                                                                         *)
(* Messages are the sequence numbers the feeder offers, 1, 2, 3, ...       *)
(***************************************************************************)
EXTENDS Integers, SequencesExt

CONSTANTS
    MState,            \* the states of the machine M
    MInit,             \* M::default()
    Out,             \* what M emits (M::Out)
    FsmStep(_, _),     \* M::step, as a function of its state and its Cycle
    MaxBatch,          \* max_batch of the CycleIngressTask
    InboundBounded,    \* TransportDriver::spawn_bounded rather than spawn
    InboundCapacity,   \* inbound_capacity of spawn_bounded
    TransportMayFail,  \* whether Transport::run may return Err
    MaxSent,           \* bound: messages the feeder offers
    MaxCycles,         \* bound: iterations of the loop before RUN_FOR ends
    MaxClock           \* bound: readings of the runtime clock are 0..MaxClock

(***************************************************************************)
(* What CycleIngressTask puts on the copperlist.                           *)
(***************************************************************************)
Cycle == [ now_ns  : 0..MaxClock,
           events  : UNION {[1..n -> 1..MaxSent] : n \in 0..MaxBatch},
           pending : 0..MaxSent ]

\* CycleIngressTask::new refuses max_batch = 0.
ASSUME MaxBatchAssumption == MaxBatch \in Nat \ {0}
ASSUME CapacityAssumption == InboundBounded \in BOOLEAN /\ InboundCapacity \in Nat
ASSUME BoundAssumption == MaxSent \in Nat /\ MaxCycles \in Nat /\ MaxClock \in Nat
ASSUME FaultAssumption == TransportMayFail \in BOOLEAN
ASSUME MachineAssumption ==
    /\ MInit \in MState
    /\ \A s \in MState, c \in Cycle : /\ FsmStep(s, c).state \in MState
                                      /\ FsmStep(s, c).outs \in Seq(Out)

VARIABLES
    clock,      \* the runtime clock
    feeder,     \* the thread that calls tx_in.send: "ready", "blocked" in it, "gone"
    offered,    \* how many messages it has tried to send
    inq,        \* the inbound channel
    relay,      \* the thread that runs Transport::run: "open", "ended" (Ok), "failed" (Err)
    received,   \* what it has taken from the outbound channel
    outq,       \* the outbound channel
    pc,         \* where the loop thread is
    events, pending, now_ns,    \* the Cycle being built on the current copperlist
    machine,    \* the FsmSpec owned by FsmBatchTask
    outs,       \* the Batch on the current copperlist
    cursor,     \* how many values of the batch have been sent
    log,        \* the unified log: one record per completed copperlist
    cuError,    \* whether a process() has returned a CuError
    sent,       \* history: each message the inbound channel accepted, with the time, Len(log)
                \* and its place in the channel then
    emitted,    \* history: every value the machine has emitted
    upto,       \* history: Len(sent) when the current drain ended
    before,     \* history: the machine's state before the current cycle
    trace       \* history: for each record of log, where it came from

threadVars  == <<feeder, offered, relay, received>>
cycleVars   == <<events, pending, now_ns, upto>>
fsmVars     == <<machine, before, outs, emitted>>
logVars     == <<log, trace>>
loopVars    == <<pc, cycleVars, fsmVars, cursor, logVars, cuError>>
vars == <<clock, threadVars, inq, outq, sent, loopVars>>

-----------------------------------------------------------------------------
\* Dropping the application drops the ingress Receiver and the egress Sender.
AppDropped == pc \in {"dropped", "joined", "panicked"}

\* A bounded channel accepts a message only while it holds fewer than its capacity.
Full == InboundBounded /\ Len(inq) >= InboundCapacity

\* With capacity 0 the channel holds nothing: a try_recv takes the message of
\* a sender that is blocked in send.
Handover == InboundBounded /\ InboundCapacity = 0 /\ feeder = "blocked"

\* run_one_iteration is under way.
InIteration == pc \in {"drain", "count", "stamp", "fsm", "egress"}

\* The Cycle on the current copperlist.
TheCycle == [now_ns |-> now_ns, events |-> events, pending |-> pending]

\* The values of the current batch that are still to be sent.
Unsent == SubSeq(outs, cursor + 1, Len(outs))

\* Messages taken out of the inbound channel so far, those of this cycle included.
Taken == Len(sent) - Len(inq)

-----------------------------------------------------------------------------
Init ==
    /\ clock = 0
    /\ feeder = "ready" /\ offered = 0 /\ inq = <<>>
    /\ relay = "open" /\ received = <<>> /\ outq = <<>>
    /\ pc = "idle"
    /\ events = <<>> /\ pending = 0 /\ now_ns = 0
    /\ machine = MInit /\ outs = <<>> /\ cursor = 0
    /\ log = <<>> /\ cuError = FALSE
    /\ sent = <<>> /\ emitted = <<>> /\ upto = 0 /\ before = MInit /\ trace = <<>>

Tick ==
    /\ clock < MaxClock
    /\ clock' = clock + 1
    /\ UNCHANGED <<threadVars, inq, outq, sent, loopVars>>

-----------------------------------------------------------------------------
(***************************************************************************)
(* The feeder thread.                                                      *)
(***************************************************************************)
Sent(v, place) == [val |-> v, at |-> clock, logged |-> Len(log), place |-> place]

Accept(v) == /\ inq' = Append(inq, v)
             /\ sent' = Append(sent, Sent(v, Len(inq) + 1))

\* tx_in.send or tx_in.try_send with room in the channel.
FeedAccepted ==
    /\ feeder = "ready" /\ offered < MaxSent /\ ~AppDropped /\ ~Full
    /\ offered' = offered + 1
    /\ Accept(offered + 1)
    /\ UNCHANGED <<clock, feeder, relay, received, outq, loopVars>>

\* tx_in.send with the channel full: the thread waits inside send.
FeedBlocks ==
    /\ feeder = "ready" /\ offered < MaxSent /\ ~AppDropped /\ Full
    /\ offered' = offered + 1
    /\ feeder' = "blocked"
    /\ UNCHANGED <<clock, relay, received, inq, outq, sent, loopVars>>

\* tx_in.try_send with the channel full: the message is shed.
FeedShed ==
    /\ feeder = "ready" /\ offered < MaxSent /\ ~AppDropped /\ Full
    /\ offered' = offered + 1
    /\ UNCHANGED <<clock, feeder, relay, received, inq, outq, sent, loopVars>>

\* A slot was freed while the thread waited: its send completes.
FeedUnblocked ==
    /\ feeder = "blocked" /\ ~AppDropped /\ ~Full
    /\ feeder' = "ready"
    /\ Accept(offered)
    /\ UNCHANGED <<clock, offered, relay, received, outq, loopVars>>

\* Variant: a thread that waits in send does not see the Receiver go.
FeedRefusedOnlyReady ==
    /\ feeder = "ready" /\ AppDropped
    /\ feeder' = "gone"
    /\ UNCHANGED <<clock, offered, relay, received, inq, outq, sent, loopVars>>

\* The Receiver is gone: send returns Err, waiting or not, and the thread returns.
FeedRefused ==
    /\ feeder # "gone" /\ AppDropped
    /\ feeder' = "gone"
    /\ UNCHANGED <<clock, offered, relay, received, inq, outq, sent, loopVars>>

\* The last burst is over and the thread drops tx_in.
FeederReturns ==
    /\ feeder = "ready"
    /\ feeder' = "gone"
    /\ UNCHANGED <<clock, offered, relay, received, inq, outq, sent, loopVars>>

Feeder == \/ FeedAccepted \/ FeedBlocks \/ FeedShed
          \/ FeedUnblocked \/ FeedRefused \/ FeederReturns

-----------------------------------------------------------------------------
(***************************************************************************)
(* The driver thread, in the receive loop of Transport::run.               *)
(***************************************************************************)
RelayOne ==
    /\ relay = "open" /\ outq # <<>>
    /\ received' = Append(received, Head(outq))
    /\ outq' = Tail(outq)
    /\ UNCHANGED <<clock, feeder, offered, relay, inq, sent, loopVars>>

\* Variant: a Sender survives until the join is over, so recv does not fail before.
RelayEndsAfterJoin ==
    /\ relay = "open" /\ outq = <<>> /\ pc = "joined"
    /\ relay' = "ended"
    /\ UNCHANGED <<clock, feeder, offered, received, inq, outq, sent, loopVars>>

\* recv fails once the Sender is dropped and the channel is drained.
RelayEnds ==
    /\ relay = "open" /\ outq = <<>> /\ AppDropped
    /\ relay' = "ended"
    /\ UNCHANGED <<clock, feeder, offered, received, inq, outq, sent, loopVars>>

\* run returns Err: rx_out is dropped, and what is queued in it with it.
RelayFails ==
    /\ TransportMayFail /\ relay = "open"
    /\ relay' = "failed"
    /\ outq' = <<>>
    /\ UNCHANGED <<clock, feeder, offered, received, inq, sent, loopVars>>

Relay == RelayOne \/ RelayEnds \/ RelayFails

-----------------------------------------------------------------------------
(***************************************************************************)
(* The loop thread: CycleIngressTask::process.                             *)
(***************************************************************************)
\* The while test of the run loop found RUN_FOR not yet over.
StartIteration ==
    /\ pc = "idle" /\ Len(log) < MaxCycles
    /\ pc' = "drain"
    /\ UNCHANGED <<clock, threadVars, inq, outq, sent, cycleVars, fsmVars, cursor, logVars, cuError>>

\* Variant: an off-by-one in the batch limit.
DrainOnePastBatch ==
    /\ pc = "drain" /\ Len(events) <= MaxBatch /\ inq # <<>>
    /\ events' = Append(events, Head(inq))
    /\ inq' = Tail(inq)
    /\ UNCHANGED <<clock, threadVars, outq, sent, pc, pending, now_ns, upto,
                   fsmVars, cursor, logVars, cuError>>

\* One try_recv of rx.try_iter().take(max_batch) that finds a message.
DrainOne ==
    /\ pc = "drain" /\ Len(events) < MaxBatch /\ inq # <<>>
    /\ events' = Append(events, Head(inq))
    /\ inq' = Tail(inq)
    /\ UNCHANGED <<clock, threadVars, outq, sent, pc, pending, now_ns, upto,
                   fsmVars, cursor, logVars, cuError>>

\* Variant: the sender whose message was taken is not woken.
DrainHandoverUnwoken ==
    /\ pc = "drain" /\ Len(events) < MaxBatch /\ inq = <<>> /\ Handover
    /\ events' = Append(events, offered)
    /\ sent' = Append(sent, Sent(offered, 0))
    /\ UNCHANGED <<clock, threadVars, inq, outq, pc, pending, now_ns, upto,
                   fsmVars, cursor, logVars, cuError>>

\* The same on a channel of capacity 0, from a blocked sender.
DrainHandover ==
    /\ pc = "drain" /\ Len(events) < MaxBatch /\ inq = <<>> /\ Handover
    /\ events' = Append(events, offered)
    /\ sent' = Append(sent, Sent(offered, 0))
    /\ feeder' = "ready"
    /\ UNCHANGED <<clock, offered, relay, received, inq, outq, pc, pending, now_ns,
                   upto, fsmVars, cursor, logVars, cuError>>

\* What a drain leaves behind when it ends with q in the channel.
EndDrain(q) ==
    /\ pc' = "count"
    /\ upto' = Len(sent)
    /\ inq' = q
    /\ UNCHANGED <<clock, threadVars, outq, sent, events, pending, now_ns,
                   fsmVars, cursor, logVars, cuError>>

\* Variant: the limit is tested after a message was received, which is dropped.
DrainEndsDroppingOne ==
    /\ pc = "drain"
    /\ Len(events) = MaxBatch \/ (inq = <<>> /\ ~Handover)
    /\ EndDrain(IF inq = <<>> THEN inq ELSE Tail(inq))

\* Variant: at most one message per iteration, as in IngressTask.
DrainEndsAfterOne ==
    /\ pc = "drain"
    /\ events # <<>> \/ (inq = <<>> /\ ~Handover)
    /\ EndDrain(inq)

\* Variant: the first receive waits for a message.
DrainEndsAfterAny ==
    /\ pc = "drain"
    /\ Len(events) = MaxBatch \/ (events # <<>> /\ inq = <<>> /\ ~Handover)
    /\ EndDrain(inq)

\* The batch is full, or a try_recv finds nothing.
DrainEnds ==
    /\ pc = "drain"
    /\ Len(events) = MaxBatch \/ (inq = <<>> /\ ~Handover)
    /\ EndDrain(inq)

\* pending: rx.len()
CountPending ==
    /\ pc = "count"
    /\ pc' = "stamp"
    /\ pending' = Len(inq)
    /\ UNCHANGED <<clock, threadVars, inq, outq, sent, events, now_ns, upto,
                   fsmVars, cursor, logVars, cuError>>

\* Variant: the cycle keeps the 0 that cycle_step was called with.
StampPlaceholder ==
    /\ pc = "stamp"
    /\ pc' = "fsm"
    /\ UNCHANGED <<clock, threadVars, inq, outq, sent, cycleVars, fsmVars, cursor,
                   logVars, cuError>>

\* let now = ctx.now(); cycle.now_ns = now.as_nanos()
StampCycle ==
    /\ pc = "stamp"
    /\ pc' = "fsm"
    /\ now_ns' = clock
    /\ UNCHANGED <<clock, threadVars, inq, outq, sent, events, pending, upto,
                   fsmVars, cursor, logVars, cuError>>

-----------------------------------------------------------------------------
(***************************************************************************)
(* FsmBatchTask::process, BatchEgressTask::process and the end of the      *)
(* iteration.                                                              *)
(***************************************************************************)
StepMachine(c) ==
    /\ pc = "fsm"
    /\ pc' = "egress"
    /\ before' = machine
    /\ machine' = FsmStep(machine, c).state
    /\ outs' = FsmStep(machine, c).outs
    /\ emitted' = emitted \o FsmStep(machine, c).outs
    /\ UNCHANGED <<clock, threadVars, inq, outq, sent, cycleVars, cursor, logVars, cuError>>

\* Variant: the machine reads the clock instead of its cycle's time.
RunFsmOnClock == StepMachine([TheCycle EXCEPT !.now_ns = clock])

RunFsm == StepMachine(TheCycle)

\* Variant: the batch is sent from its end.
EgressOneReversed ==
    /\ pc = "egress" /\ cursor < Len(outs) /\ relay # "failed"
    /\ outq' = Append(outq, outs[Len(outs) - cursor])
    /\ cursor' = cursor + 1
    /\ UNCHANGED <<clock, threadVars, inq, sent, pc, cycleVars, fsmVars, logVars, cuError>>

\* Variant: the outbound channel is bounded too.
EgressOneBounded ==
    /\ pc = "egress" /\ cursor < Len(outs) /\ relay # "failed" /\ outq = <<>>
    /\ outq' = Append(outq, outs[cursor + 1])
    /\ cursor' = cursor + 1
    /\ UNCHANGED <<clock, threadVars, inq, sent, pc, cycleVars, fsmVars, logVars, cuError>>

\* egress_step for the next value of the batch.
EgressOne ==
    /\ pc = "egress" /\ cursor < Len(outs) /\ relay # "failed"
    /\ outq' = Append(outq, outs[cursor + 1])
    /\ cursor' = cursor + 1
    /\ UNCHANGED <<clock, threadVars, inq, sent, pc, cycleVars, fsmVars, logVars, cuError>>

\* The copperlist, with o as its output, is written to the unified log, and the
\* next iteration starts on a cleared one.
LogWith(o) ==
    /\ pc' = "idle"
    /\ log' = Append(log, [cycle |-> TheCycle, outs |-> o])
    /\ trace' = Append(trace, [ first    |-> Taken - Len(events),
                                upto     |-> upto,
                                outFirst |-> Len(emitted) - Len(outs),
                                before   |-> before,
                                after    |-> machine ])
    /\ events' = <<>> /\ pending' = 0 /\ now_ns' = 0 /\ upto' = 0
    /\ outs' = <<>> /\ cursor' = 0 /\ before' = machine
    /\ UNCHANGED <<clock, threadVars, inq, outq, sent, machine, emitted>>

\* Variant: egress takes the values out of the copperlist instead of cloning them.
LogUnsentOnly == LogWith(Unsent)

LogCopperlist == LogWith(outs)

EndIteration == pc = "egress" /\ cursor = Len(outs) /\ LogCopperlist /\ UNCHANGED cuError

\* The receiver is gone: egress_step returns Err and the rest of the batch is
\* not sent.  The runtime either goes on, logging the copperlist, or
\* run_one_iteration returns Err and the caller's expect panics.
EgressErr == pc = "egress" /\ cursor < Len(outs) /\ relay = "failed" /\ cuError' = TRUE

EgressErrIgnored == EgressErr /\ LogCopperlist

EgressErrPanics ==
    /\ EgressErr
    /\ pc' = "panicked"
    /\ UNCHANGED <<clock, threadVars, inq, outq, sent, cycleVars, fsmVars, cursor, logVars>>

-----------------------------------------------------------------------------
\* RUN_FOR is over: stop_all_tasks, drop(application).
StopLoop ==
    /\ pc = "idle"
    /\ pc' = "dropped"
    /\ UNCHANGED <<clock, threadVars, inq, outq, sent, cycleVars, fsmVars, cursor, logVars, cuError>>

\* Pulse::run returns Ok only after it has joined the feeder thread.
DriverReturned == relay = "failed" \/ (relay = "ended" /\ feeder = "gone")

\* handles.join.join()
JoinDriver ==
    /\ pc = "dropped" /\ DriverReturned
    /\ pc' = "joined"
    /\ UNCHANGED <<clock, threadVars, inq, outq, sent, cycleVars, fsmVars, cursor, logVars, cuError>>

Loop == \/ StartIteration \/ DrainOne \/ DrainHandover \/ DrainEnds
        \/ CountPending \/ StampCycle \/ RunFsm
        \/ EgressOne \/ EndIteration \/ EgressErrIgnored \/ EgressErrPanics
        \/ StopLoop \/ JoinDriver

\* The program is over.
Terminated == pc \in {"joined", "panicked"} /\ UNCHANGED vars

Next == Tick \/ Feeder \/ Relay \/ Loop \/ Terminated

Spec == Init /\ [][Next]_vars

(***************************************************************************)
(* Each of the three threads is scheduled again and again.  Nothing is     *)
(* assumed of the clock, nor of a transport fault.                         *)
(***************************************************************************)
Fairness == /\ WF_vars(Loop)
            /\ WF_vars(Feeder)
            /\ WF_vars(RelayOne \/ RelayEnds)

FairSpec == Spec /\ Fairness

-----------------------------------------------------------------------------
(***************************************************************************)
(* Correctness.                                                            *)
(***************************************************************************)
Message == [val : 1..MaxSent, at : 0..MaxClock, logged : 0..MaxCycles, place : 0..MaxSent]
Record  == [cycle : Cycle, outs : Seq(Out)]
Origin  == [first : Nat, upto : Nat, outFirst : Nat, before : MState, after : MState]

\* Every variable has its type: in particular a drain never takes more than
\* max_batch messages (cycle_step), and egress never indexes past its batch.
TypeOK ==
    /\ clock \in 0..MaxClock
    /\ feeder \in {"ready", "blocked", "gone"}
    /\ offered \in 0..MaxSent
    /\ inq \in Seq(1..MaxSent)
    /\ relay \in {"open", "ended", "failed"}
    /\ received \in Seq(Out) /\ outq \in Seq(Out)
    /\ pc \in {"idle", "drain", "count", "stamp", "fsm", "egress",
               "dropped", "joined", "panicked"}
    /\ TheCycle \in Cycle
    /\ machine \in MState /\ before \in MState
    /\ outs \in Seq(Out) /\ cursor \in 0..Len(outs)
    /\ log \in Seq(Record) /\ trace \in Seq(Origin) /\ Len(trace) = Len(log)
    /\ sent \in Seq(Message) /\ Len(inq) + Len(events) <= Len(sent)
    /\ Len(sent) <= offered
    /\ emitted \in Seq(Out) /\ Len(outs) <= Len(emitted)
    /\ upto \in Nat /\ cuError \in BOOLEAN
    /\ Len(log) <= MaxCycles /\ (Len(log) < MaxCycles \/ ~InIteration)

-----------------------------------------------------------------------------
(***************************************************************************)
(* Inbound path.                                                           *)
(***************************************************************************)
\* first of the record after the n-th, or of the cycle being built.
NextFirst(n) == IF n < Len(log) THEN trace[n + 1].first ELSE Taken - Len(events)

QueueInOrder == \A i \in 1..Len(inq) : inq[i] = sent[Taken + i].val

BatchInOrder == \A i \in 1..Len(events) : events[i] = sent[Taken - Len(events) + i].val

LogInOrder ==
    /\ \A n \in 1..Len(log) :
          /\ NextFirst(n) = trace[n].first + Len(log[n].cycle.events)
          /\ \A i \in 1..Len(log[n].cycle.events) :
                log[n].cycle.events[i] = sent[trace[n].first + i].val
    /\ Len(log) > 0 => trace[1].first = 0
    /\ Len(log) = 0 => Taken = Len(events)

\* Every message the channel accepted is, in the order it was accepted, in one
\* logged cycle, in the cycle being built or still queued: none is lost,
\* duplicated or overtaken between tx_in.send and Cycle::events.
MessagesInOrder == QueueInOrder /\ BatchInOrder /\ LogInOrder

\* No message is accepted twice, by a slot that was freed and by a handover, say,
\* and none overtakes another on the way into the channel.
AcceptedOnce == \A i \in 1..Len(sent) - 1 : sent[i].val < sent[i + 1].val

\* The time of a cycle is read after its drain, so it is no earlier than the
\* moment any of its messages was sent (cycle_step's doc), and it never runs
\* back from one cycle to the next.
CycleTimeCoversEvents ==
    \A n \in 1..Len(log) :
        /\ \A i \in 1..Len(log[n].cycle.events) :
              sent[trace[n].first + i].at <= log[n].cycle.now_ns
        /\ n < Len(log) => log[n].cycle.now_ns <= log[n + 1].cycle.now_ns

\* A cycle with fewer than max_batch events left nothing behind: every message
\* accepted before its drain ended is in it or in an earlier cycle.  A full
\* cycle has exactly max_batch.  No message waits longer than its backlog.
UnderfullCycleEmptiesQueue ==
    \A n \in 1..Len(log) :
        LET dispatched == trace[n].first + Len(log[n].cycle.events)
        IN  \/ Len(log[n].cycle.events) = MaxBatch /\ dispatched <= trace[n].upto
            \/ Len(log[n].cycle.events) < MaxBatch /\ dispatched = trace[n].upto

\* The cycles it takes to drain n messages, and the last cycle that may dispatch a
\* message: it waits for at most one cycle whose drain is over, and for the cycles
\* that it takes to drain what was ahead of it and itself.
CyclesToDrain(n)  == (n + MaxBatch - 1) \div MaxBatch
DueCycle(message) == message.logged + 1 + CyclesToDrain(message.place)

\* However the feeder and the drain interleave, a message is dispatched in time and
\* nothing that is sent later delays it.  With spawn_bounded the wait is no longer
\* than a full channel takes to drain; with spawn it is as long as the backlog
\* that the message finds, which has no bound.
BoundedLatency ==
    \A n \in 1..Len(log) : \A i \in 1..Len(log[n].cycle.events) :
        LET message == sent[trace[n].first + i]
        IN  /\ n <= DueCycle(message)
            /\ InboundBounded => n <= message.logged + 1 + CyclesToDrain(InboundCapacity)

\* What the comment on Cycle::pending says: non-zero means input is outpacing
\* the loop, that is, the batch could not hold what was queued.
PendingMeansOutpaced ==
    \A n \in 1..Len(log) :
        log[n].cycle.pending > 0 => Len(log[n].cycle.events) = MaxBatch

-----------------------------------------------------------------------------
(***************************************************************************)
(* The machine and the log.                                                *)
(***************************************************************************)
\* The log is enough to repeat the run: from MInit, the machine given the
\* recorded cycles one by one goes through the states it went through live and
\* emits what was recorded, and the live machine is where the log leaves it.
ReplayReproduces ==
    /\ \A n \in 1..Len(log) :
          /\ FsmStep(trace[n].before, log[n].cycle).state = trace[n].after
          /\ FsmStep(trace[n].before, log[n].cycle).outs = log[n].outs
          /\ trace[n].before = IF n = 1 THEN MInit ELSE trace[n - 1].after
    /\ before = IF Len(log) = 0 THEN MInit ELSE trace[Len(log)].after

-----------------------------------------------------------------------------
(***************************************************************************)
(* Outbound path.                                                          *)
(***************************************************************************)
\* Until the transport fails, every value the machine emitted is, in emission
\* order, at the transport, in the channel or in the rest of the current batch,
\* and egress has reported no error; after a failure the transport holds a prefix
\* of them.
OutputsInOrder ==
    /\ relay # "failed" => received \o outq \o Unsent = emitted /\ ~cuError
    /\ Len(received) <= Len(emitted)
    /\ \A i \in 1..Len(received) : received[i] = emitted[i]

\* The log holds exactly what the machine emitted, record after record.
NextOutFirst(n) == IF n < Len(log) THEN trace[n + 1].outFirst ELSE Len(emitted) - Len(outs)

LogHoldsOutputs ==
    /\ \A n \in 1..Len(log) :
          /\ NextOutFirst(n) = trace[n].outFirst + Len(log[n].outs)
          /\ \A i \in 1..Len(log[n].outs) :
                log[n].outs[i] = emitted[trace[n].outFirst + i]
    /\ Len(log) > 0 => trace[1].outFirst = 0
    /\ Len(log) = 0 => Len(emitted) = Len(outs)

\* When run_live returns after a run without a transport fault, the values it
\* collected from the transport are those that the records of the log hold, record
\* after record, none more, fewer or out of order (assert_eq!(alarms, live) in the
\* watchdog's main).
LiveEqualsLog ==
    (pc = "joined" /\ relay # "failed") =>
        received = FlattenSeq([n \in 1..Len(log) |-> log[n].outs])

-----------------------------------------------------------------------------
(***************************************************************************)
(* The whole path, seen from outside.  The machine's step consumes the     *)
(* batch; the step is open until its copperlist is logged, and stays open  *)
(* if the loop thread panics before that.                                  *)
(***************************************************************************)
StepOpen == pc \in {"egress", "panicked"}

AcceptedMessages == [i \in 1..Len(sent) |-> sent[i].val]
ConsumedCount    == IF StepOpen THEN Taken ELSE Taken - Len(events)
OpenStep         == IF StepOpen THEN << [ins |-> events, outs |-> outs] >> ELSE <<>>
LoggedSteps      == [n \in 1..Len(log) |-> [ins |-> log[n].cycle.events, outs |-> log[n].outs]]

Pipe == INSTANCE Pipeline WITH
    Input     <- 1..MaxSent,
    MaxStep   <- MaxBatch,
    accepted  <- AcceptedMessages,
    consumed  <- ConsumedCount,
    open      <- OpenStep,
    log       <- LoggedSteps,
    produced  <- emitted,
    delivered <- received

\* The batch tasks between the two channels implement Pipeline: with any batch
\* limit, capacity and interleaving of the three threads, a transport that fails
\* and a loop that panics included, cycles consume the accepted messages in order,
\* the log holds each cycle with what it emitted, and the transport is given what
\* was emitted, in order and once (cycle_step, FsmBatchTask, BatchEgressTask).
ImplementsPipeline == Pipe!Spec

-----------------------------------------------------------------------------
(***************************************************************************)
(* Progress.                                                               *)
(***************************************************************************)
\* In the middle of an iteration the loop can always take its next step, whatever
\* the transport threads do: the outbound channel is unbounded "so the
\* deterministic loop never blocks on egress", and try_recv does not wait.
LoopNeverWaits == InIteration => ENABLED Loop

\* An iteration that starts is completed, or ends the program.
IterationCompletes == InIteration ~> ~InIteration

\* Dropping the application stops the transport threads, so the join returns.
ShutdownCompletes == pc = "dropped" ~> pc = "joined"

\* A thread blocked in tx_in.send on a full channel is released, by the drain of
\* a later cycle or by the drop of the Receiver.
BlockedSendReturns == feeder = "blocked" ~> feeder # "blocked"
=============================================================================
