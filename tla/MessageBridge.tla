--------------------------- MODULE MessageBridge ---------------------------
(***************************************************************************)
(* The single-message path of msrs, driven as the echo example drives it:  *)
(*                                                                         *)
(*   transport thread --inq--> IngressTask --> FsmTask --> ... --> FsmTask *)
(*                                 --> EgressTask --outq--> that same thread*)
(*                                                                         *)
(* The tasks run one after the other on the main thread, one copperlist    *)
(* per iteration.  Every task writes one slot of the copperlist: slot 0 is *)
(* the output of ingress, slot i that of the i-th FsmTask.                 *)
(*                                                                         *)
(* The machines are a parameter: FsmStep(i, s, trigger) is the state that  *)
(* machine i moves to and the values it emits when s is given trigger.     *)
(* Messages are the indices of the transport's inputs, 1..Inputs.          *)
(***************************************************************************)
EXTENDS Integers, Sequences

CONSTANTS
    Stages,            \* how many FsmTasks are chained
    MState,            \* the states of the machines
    MInit,             \* M::default()
    FsmStep(_, _, _),  \* M::step of each machine
    Payload,           \* what a slot may carry, apart from nothing
    Inputs,            \* inputs.len()
    Extra,             \* iterations beyond one per input
    TimeoutsFire,      \* whether a recv_timeout may expire
    MaxClock,          \* bound: readings of the runtime clock are 0..MaxClock
    None               \* an empty payload, an unset tov

ASSUME StagesAssumption == Stages \in Nat \ {0}
ASSUME BoundAssumption == Inputs \in Nat /\ Extra \in Nat /\ MaxClock \in Nat
ASSUME FaultAssumption == TimeoutsFire \in BOOLEAN
ASSUME PayloadAssumption == 1..Inputs \subseteq Payload /\ None \notin Payload \cup Nat

Message(v) == [msg |-> v, at |-> None]
TickAt(t)  == [msg |-> None, at |-> t]

\* What machine i may be triggered by: the first one by the inputs, the others by
\* whatever the machine before them emits.
Triggers(i) == {Message(v) : v \in IF i = 1 THEN 1..Inputs ELSE Payload}
                   \cup {TickAt(t) : t \in 0..MaxClock}

\* The machines keep to their states and outputs.
ASSUME MachineAssumption ==
    /\ MInit \in MState
    /\ \A i \in 1..Stages, s \in MState : \A trigger \in Triggers(i) :
           /\ FsmStep(i, s, trigger).state \in MState
           /\ FsmStep(i, s, trigger).outs \in Seq(Payload)

VARIABLES
    clock,      \* the runtime clock
    transport,  \* the driver thread: "running" Transport::run, "ok" or "err"
    nsent,      \* how many inputs it has sent
    got,        \* how many echoes it has received
    inq, outq,  \* the two channels of the driver
    results,    \* the channel from the transport to main
    pc,         \* where the main thread is
    stage,      \* the FsmTask that runs
    slots,      \* the current copperlist
    machines,   \* the machine of each FsmTask
    log,        \* the unified log: the completed copperlists
    live,       \* what main has collected
    cuError,    \* whether a process() of this iteration has returned a CuError
    egressed,   \* history: every value sent by EgressTask
    steps,      \* history: the last step of each machine
    trace,      \* history: for each record of log, how it came about
    sentAt      \* history: Len(log) when each input was sent

transportVars == <<transport, nsent, got, sentAt>>
cuVars        == <<slots, stage>>
machineVars   == <<machines, steps>>
logVars       == <<log, trace>>
vars == <<clock, transportVars, inq, outq, results, pc, cuVars, machineVars, logVars,
          live, cuError, egressed>>

-----------------------------------------------------------------------------
Slot  == [payload : Payload \cup {None}, tov : (0..MaxClock) \cup {None}]
Empty == [payload |-> None, tov |-> None]

\* One message per iteration, and a few more iterations.
Iterations == Inputs + Extra

AppDropped == pc \in {"collect", "join", "joined", "panicked"}

\* trigger_for, with the reading of the clock it falls back to.  No task of the repository
\* writes a Tov::Range, of which it would take the start.
trigger_for(input, now) ==
    IF input.payload # None THEN Message(input.payload)
    ELSE IF input.tov # None THEN TickAt(input.tov) ELSE TickAt(now)

NoStep == [from |-> MInit, to |-> MInit, outs |-> <<>>]

\* Inputs taken out of the channel so far.
Taken == nsent - Len(inq)

Init ==
    /\ clock = 0
    /\ transport = "running" /\ nsent = 0 /\ got = 0 /\ sentAt = <<>>
    /\ inq = <<>> /\ outq = <<>> /\ results = <<>>
    /\ pc = "idle" /\ stage = 1 /\ slots = [i \in 0..Stages |-> Empty]
    /\ machines = [i \in 1..Stages |-> MInit]
    /\ steps = [i \in 1..Stages |-> NoStep]
    /\ log = <<>> /\ trace = <<>> /\ live = <<>> /\ cuError = FALSE /\ egressed = <<>>

Tick ==
    /\ clock < MaxClock
    /\ clock' = clock + 1
    /\ UNCHANGED <<transportVars, inq, outq, results, pc, cuVars, machineVars, logVars,
                   live, cuError, egressed>>

-----------------------------------------------------------------------------
(***************************************************************************)
(* Feeder::run on the driver thread.                                       *)
(***************************************************************************)
Sending   == transport = "running" /\ nsent < Inputs
Receiving == transport = "running" /\ nsent = Inputs /\ got < Inputs

\* tx_in.send: the channel is unbounded.
SendInput ==
    /\ Sending /\ ~AppDropped
    /\ nsent' = nsent + 1 /\ sentAt' = Append(sentAt, Len(log))
    /\ inq' = Append(inq, nsent + 1)
    /\ UNCHANGED <<clock, transport, got, outq, results, pc, cuVars, machineVars, logVars,
                   live, cuError, egressed>>

\* run returns, and its channel ends are dropped.
Return(result) ==
    /\ transport' = result
    /\ outq' = <<>>
    /\ UNCHANGED <<clock, nsent, got, sentAt, inq, results, pc, cuVars, machineVars, logVars,
                   live, cuError, egressed>>

SendRefused == Sending /\ AppDropped /\ Return("err")

\* Variant: an echo is forwarded to main twice.
ReceiveEchoTwice ==
    /\ Receiving /\ outq # <<>>
    /\ got' = got + 1
    /\ results' = results \o <<Head(outq), Head(outq)>>
    /\ outq' = Tail(outq)
    /\ UNCHANGED <<clock, transport, nsent, sentAt, inq, pc, cuVars, machineVars, logVars,
                   live, cuError, egressed>>

\* recv_timeout and results.send; main keeps its Receiver until the join.
ReceiveEcho ==
    /\ Receiving /\ outq # <<>>
    /\ got' = got + 1
    /\ results' = Append(results, Head(outq))
    /\ outq' = Tail(outq)
    /\ UNCHANGED <<clock, transport, nsent, sentAt, inq, pc, cuVars, machineVars, logVars,
                   live, cuError, egressed>>

\* Variant: recv_timeout only fails by its timeout.
ReceiveTimesOut == Receiving /\ outq = <<>> /\ TimeoutsFire /\ Return("err")

\* recv_timeout fails: timeout, or the Sender was dropped.
ReceiveFails == Receiving /\ outq = <<>> /\ (AppDropped \/ TimeoutsFire) /\ Return("err")

ReceivedAll == transport = "running" /\ nsent = Inputs /\ got = Inputs /\ Return("ok")

Transport == SendInput \/ SendRefused \/ ReceiveEcho \/ ReceiveFails \/ ReceivedAll

-----------------------------------------------------------------------------
(***************************************************************************)
(* run_one_iteration on the main thread.                                   *)
(***************************************************************************)
\* The copperlist is a new one, or any that an earlier iteration has used.
StartIteration ==
    /\ pc = "idle" /\ Len(log) < Iterations
    /\ pc' = "ingress"
    /\ slots' \in {[i \in 0..Stages |-> Empty]} \cup {log[n] : n \in 1..Len(log)}
    /\ cuError' = FALSE
    /\ UNCHANGED <<clock, transportVars, inq, outq, results, stage, machineVars, logVars,
                   live, egressed>>

\* What IngressTask makes of the result of ingress_step.
SetInput(payload, q) ==
    /\ pc = "ingress"
    /\ pc' = "stamp"
    /\ slots' = [slots EXCEPT ![0].payload = payload]
    /\ inq' = q
    /\ UNCHANGED <<clock, transportVars, outq, results, stage, machineVars, logVars,
                   live, cuError, egressed>>

IngressOne == inq # <<>> /\ SetInput(Head(inq), Tail(inq))

\* Variant: an empty channel leaves the payload of the slot alone.
IngressNoneKeeping == inq = <<>> /\ SetInput(slots[0].payload, inq)

\* Variant: a look at the channel gives up at once, as if it were empty.
IngressGivesUp == SetInput(None, inq)

IngressNone == inq = <<>> /\ SetInput(None, inq)

\* Variant: only a message is stamped.
IngressStampMessage ==
    /\ pc = "stamp"
    /\ pc' = "fsm" /\ stage' = 1
    /\ slots' = IF slots[0].payload = None THEN [slots EXCEPT ![0].tov = None]
                ELSE [slots EXCEPT ![0].tov = clock]
    /\ UNCHANGED <<clock, transportVars, inq, outq, results, machineVars, logVars,
                   live, cuError, egressed>>

\* new_msg.tov = Tov::Time(ctx.now())
IngressStamp ==
    /\ pc = "stamp"
    /\ pc' = "fsm" /\ stage' = 1
    /\ slots' = [slots EXCEPT ![0].tov = clock]
    /\ UNCHANGED <<clock, transportVars, inq, outq, results, machineVars, logVars,
                   live, cuError, egressed>>

-----------------------------------------------------------------------------
\* What FsmTask stage does on its trigger.
Step == FsmStep(stage, machines[stage], trigger_for(slots[stage - 1], clock))

\* The machine takes its step and the payload of the output is set or cleared.
RunMachine(payload) ==
    /\ machines' = [machines EXCEPT ![stage] = Step.state]
    /\ steps' = [steps EXCEPT ![stage] = [from |-> machines[stage], to |-> Step.state,
                                          outs |-> Step.outs]]
    /\ slots' = [slots EXCEPT ![stage].payload = payload]
    /\ UNCHANGED <<clock, transportVars, inq, outq, results, logVars, live, egressed>>

\* On to the next task.
Advance ==
    IF stage < Stages THEN pc' = "fsm" /\ stage' = stage + 1
    ELSE pc' = "egress" /\ UNCHANGED stage

FsmSome ==
    /\ pc = "fsm" /\ Len(Step.outs) = 1
    /\ RunMachine(Head(Step.outs))
    /\ pc' = "stampout"
    /\ UNCHANGED <<stage, cuError>>

FsmNone == pc = "fsm" /\ Step.outs = <<>> /\ RunMachine(None) /\ Advance /\ UNCHANGED cuError

\* Variant: take_one hands out the last value and drops the others.
FsmExtraPopped ==
    /\ pc = "fsm" /\ Len(Step.outs) > 1
    /\ RunMachine(Step.outs[Len(Step.outs)])
    /\ pc' = "stampout"
    /\ UNCHANGED <<stage, cuError>>

\* More than one emit: the output is cleared and process returns Err.
FsmExtra == pc = "fsm" /\ Len(Step.outs) > 1 /\ RunMachine(None) /\ cuError' = TRUE

\* The runtime goes on, or run_one_iteration returns Err and expect panics.
FsmExtraIgnored == FsmExtra /\ Advance
FsmExtraPanics  == FsmExtra /\ pc' = "panicked" /\ UNCHANGED stage

\* output.tov = Tov::Time(ctx.now())
FsmStamp ==
    /\ pc = "stampout"
    /\ slots' = [slots EXCEPT ![stage].tov = clock]
    /\ Advance
    /\ UNCHANGED <<clock, transportVars, inq, outq, results, machineVars, logVars,
                   live, cuError, egressed>>

-----------------------------------------------------------------------------
Output == slots[Stages].payload

Held(v) == IF v = None THEN <<>> ELSE <<v>>

\* What EgressTask has been given in the logged iterations.
Given == IF log = <<>> THEN <<>> ELSE trace[Len(log)].given

\* The copperlist is written to the unified log, having sent what it sent.
LogCopperlist(sends, err) ==
    /\ pc = "egress" /\ pc' = "idle"
    /\ egressed' = egressed \o sends
    /\ log' = Append(log, slots)
    /\ trace' = Append(trace, [steps |-> steps, err |-> err, taken |-> Taken,
                               sent  |-> Len(egressed'), given |-> Given \o Held(Output)])
    /\ cuError' = err
    /\ UNCHANGED <<clock, transportVars, inq, results, cuVars, machineVars, live>>

EgressOne ==
    /\ Output # None /\ transport = "running"
    /\ outq' = Append(outq, Output)
    /\ LogCopperlist(<<Output>>, cuError)

EgressNone == Output = None /\ LogCopperlist(<<>>, cuError) /\ UNCHANGED outq

\* The transport has returned: egress_step returns Err.
EgressErrIgnored ==
    /\ Output # None /\ transport # "running"
    /\ LogCopperlist(<<>>, TRUE) /\ UNCHANGED outq

EgressErrPanics ==
    /\ pc = "egress" /\ Output # None /\ transport # "running"
    /\ pc' = "panicked" /\ cuError' = TRUE
    /\ UNCHANGED <<clock, transportVars, inq, outq, results, cuVars, machineVars, logVars,
                   live, egressed>>

-----------------------------------------------------------------------------
(***************************************************************************)
(* The rest of run_live.                                                   *)
(***************************************************************************)
Goto(from, to) ==
    /\ pc = from /\ pc' = to
    /\ UNCHANGED <<clock, transportVars, inq, outq, results, cuVars, machineVars, logVars,
                   live, cuError, egressed>>

\* Variant: the loop makes one iteration per input.
StopEarly == Len(log) >= Inputs /\ Goto("idle", "collect")

\* The iterations are over: stop_all_tasks, drop(application).
Stop == Len(log) = Iterations /\ Goto("idle", "collect")

\* res_rx.recv_timeout
Collect ==
    /\ pc = "collect" /\ Len(live) < Inputs /\ results # <<>>
    /\ live' = Append(live, Head(results))
    /\ results' = Tail(results)
    /\ UNCHANGED <<clock, transportVars, inq, outq, pc, cuVars, machineVars, logVars,
                   cuError, egressed>>

\* It fails: timeout, or run has returned and dropped its Sender.
CollectFails ==
    /\ Len(live) < Inputs /\ results = <<>> /\ (transport # "running" \/ TimeoutsFire)
    /\ Goto("collect", "join")

Collected == Len(live) = Inputs /\ Goto("collect", "join")

Join == transport # "running" /\ Goto("join", "joined")

Main == \/ StartIteration \/ IngressOne \/ IngressNone \/ IngressStamp
        \/ FsmSome \/ FsmNone \/ FsmExtraIgnored \/ FsmExtraPanics \/ FsmStamp
        \/ EgressOne \/ EgressNone \/ EgressErrIgnored \/ EgressErrPanics
        \/ Stop \/ Collect \/ CollectFails \/ Collected \/ Join

\* The program is over.
Terminated == pc \in {"joined", "panicked"} /\ UNCHANGED vars

Next == Tick \/ Transport \/ Main \/ Terminated

Spec == Init /\ [][Next]_vars

\* Both threads are scheduled again and again; nothing is assumed of the clock.
FairSpec == Spec /\ WF_vars(Transport) /\ WF_vars(Main)

-----------------------------------------------------------------------------
(***************************************************************************)
(* Correctness.                                                            *)
(***************************************************************************)
StepRecord == [from : MState, to : MState, outs : Seq(Payload)]
Origin == [steps : [1..Stages -> StepRecord], err : BOOLEAN, taken : 0..Inputs, sent : Nat,
           given : Seq(Payload)]

\* Every variable has its type: the transport receives no more than one echo per
\* input, and main collects no more.
TypeOK ==
    /\ clock \in 0..MaxClock
    /\ transport \in {"running", "ok", "err"}
    /\ nsent \in 0..Inputs /\ got \in 0..Inputs /\ sentAt \in Seq(0..Iterations)
    /\ inq \in Seq(1..Inputs) /\ outq \in Seq(Payload) /\ results \in Seq(Payload)
    /\ pc \in {"idle", "ingress", "stamp", "fsm", "stampout", "egress",
               "collect", "join", "joined", "panicked"}
    /\ stage \in 1..Stages /\ slots \in [0..Stages -> Slot]
    /\ machines \in [1..Stages -> MState] /\ steps \in [1..Stages -> StepRecord]
    /\ log \in Seq([0..Stages -> Slot]) /\ Len(log) <= Iterations
    /\ trace \in Seq(Origin) /\ Len(trace) = Len(log)
    /\ live \in Seq(Payload) /\ Len(live) + Len(results) = got
    /\ cuError \in BOOLEAN /\ egressed \in Seq(Payload)

-----------------------------------------------------------------------------
TakenBefore(n) == IF n = 1 THEN 0 ELSE trace[n - 1].taken
SentBefore(n)  == IF n = 1 THEN 0 ELSE trace[n - 1].sent

\* The inputs taken went from m to n, and payload is what was taken.
TookOne(m, n, payload) == (n = m /\ payload = None) \/ (n = m + 1 /\ payload = n)

\* Every input sent is, in the order it was sent, in the ingress slot of one logged
\* copperlist, in that of the current one, or still queued: one per iteration, none
\* twice, whatever the copperlist held before (ingress_step, IngressTask::process).
InputsInOrder ==
    /\ \A i \in 1..Len(inq) : inq[i] = Taken + i
    /\ \A n \in 1..Len(log) : TookOne(TakenBefore(n), trace[n].taken, log[n][0].payload)
    /\ IF pc \in {"stamp", "fsm", "stampout", "egress", "panicked"}
       THEN TookOne(TakenBefore(Len(log) + 1), Taken, slots[0].payload)
       ELSE Taken = TakenBefore(Len(log) + 1)

\* The first machine is given a tick only in an iteration that found the channel empty:
\* every input sent before the iteration began has been taken.  While input is waiting
\* it gets no tick, however long that lasts (IngressTask::process, trigger_for).
TickMeansDrained ==
    \A n \in 1..Len(log) : log[n][0].payload = None =>
        \A i \in 1..nsent : sentAt[i] < n - 1 => i <= trace[n].taken

\* What the log says of the trigger that machine i was given.
Recorded(input) ==
    IF input.payload # None THEN Message(input.payload) ELSE TickAt(input.tov)

\* A machine i that starts at M::default() and is given the triggers of the log goes
\* through the states of the live one and emits the same.
StageReplays(i) ==
    \A n \in 1..Len(log) :
        LET done  == trace[n].steps[i]
            input == log[n][i - 1]
            again == FsmStep(i, done.from, Recorded(input))
        IN  /\ done.from = IF n = 1 THEN MInit ELSE trace[n - 1].steps[i].to
            /\ input.payload # None \/ input.tov # None
            /\ again.state = done.to /\ again.outs = done.outs

\* The machine fed by ingress can be replayed from the log, ticks included, even
\* when copperlists are used again (IngressTask stamps every cycle, trigger_for).
ReplayReproduces == StageReplays(1)

\* So can every machine of a chain (notes section 15, "Chained FSM tasks work").
ChainReplays == \A i \in 1..Stages : StageReplays(i)

\* What a step emitted is what its slot holds in the log, and what egress was given
\* is what it sent, or a process() of that iteration returned a CuError: no value is
\* dropped in silence (FsmTask::process, take_one, egress_step).
NoSilentDrop ==
    \A n \in 1..Len(log) :
        \/ trace[n].err
        \/ /\ \A i \in 1..Stages : Held(log[n][i].payload) = trace[n].steps[i].outs
           /\ SubSeq(egressed, SentBefore(n) + 1, trace[n].sent) = Held(log[n][Stages].payload)

\* The echoes that the transport has forwarded to main.
Arrived == live \o results

\* What the transport forwards is what egress sent, in order and once: all of it while
\* it runs, and a prefix of it after it has returned.
EchoesInOrder ==
    IF transport = "running" THEN Arrived \o outq = egressed
    ELSE /\ Len(Arrived) <= Len(egressed)
         /\ Arrived = SubSeq(egressed, 1, Len(Arrived))

-----------------------------------------------------------------------------
(***************************************************************************)
(* The whole path, seen from outside.  A copperlist is a step from the end *)
(* of its last FsmTask; it produces what that task put in its slot.        *)
(***************************************************************************)
StepOpen == \/ pc = "egress"
            \/ pc = "panicked" /\ stage = Stages /\ Output # None

StepOf(list) == [ins |-> Held(list[0].payload), outs |-> Held(list[Stages].payload)]

AcceptedInputs == [i \in 1..nsent |-> i]
ConsumedCount  == IF StepOpen THEN Taken ELSE TakenBefore(Len(log) + 1)
OpenStep       == IF StepOpen THEN <<StepOf(slots)>> ELSE <<>>
LoggedSteps    == [n \in 1..Len(log) |-> StepOf(log[n])]
Produced       == Given \o (IF StepOpen THEN Held(Output) ELSE <<>>)

Pipe == INSTANCE Pipeline WITH
    Input     <- 1..Inputs,
    MaxStep   <- 1,
    accepted  <- AcceptedInputs,
    consumed  <- ConsumedCount,
    open      <- OpenStep,
    log       <- LoggedSteps,
    produced  <- Produced,
    delivered <- Arrived

\* The single-message tasks implement the same Pipeline as the batch ones, with at
\* most one message a step, whatever the copperlists held before, whether a machine
\* emits too much, a timeout expires or the loop panics (IngressTask, FsmTask,
\* EgressTask, Feeder::run, run_live).
ImplementsPipeline == Pipe!Spec

\* run_live returns, or panics on an error of an iteration; without any timeout, the
\* drop of the application is enough to end the transport (Feeder::run, run_live).
RunLiveReturns == <>(pc \in {"joined", "panicked"})
=============================================================================
