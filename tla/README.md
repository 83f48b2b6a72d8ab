# A TLA+ verification project for msrs

msrs builds services on the cu29 (copper) runtime: a transport thread bridges some
middleware to a deterministic loop, which drains messages, steps a pure state
machine, sends what the machine emits, and logs every iteration so that the run
can be replayed bit for bit. This directory models that machinery: the channels
and threads, the two task pipelines, the watchdog and echo services built on
them, and the replay gate; and it states once, abstractly, what a bridge between a transport and
a graph promises, and shows that both pipelines keep it.

## Inventory

| Part | Source | State it keeps | Operations | What is hard | What makes it correct |
|---|---|---|---|---|---|
| Transport driver | `crates/msrs-transport/src/driver.rs`, `transport.rs` | inbound channel (unbounded, bounded, capacity 0), outbound channel, driver thread | `spawn`, `spawn_bounded`, `Transport::run` | sends race with the drain; a full channel blocks the sender; a failing `run`; shutdown by disconnect | nothing lost, duplicated or overtaken; blocked senders are released; shutdown ends |
| Batch pipeline: `CycleIngressTask`, `FsmBatchTask`, `BatchEgressTask` | `tasks.rs`, `fsm_task.rs`, `effects.rs` | the cycle, the machine, the batch | `process` of each, once per iteration | the drain, `rx.len()` and the clock are read at three different moments; egress may fail half way | events precede the cycle time; bounded latency; the log replays; outputs in order |
| Single-message pipeline: `IngressTask`, `FsmTask`, `EgressTask` | `tasks.rs`, `fsm_task.rs`, `trigger.rs` | the slots (payload and time of validity), the machines | `process` of each | copperlists used again; ticks timed by a slot; double emits; chained tasks | one message per iteration, once; ticks replay; no silent drop |
| Watchdog machine and store | `examples/watchdog/src/watchdog.rs` | gate, `last_feed_ns`, `now_ns`, `emitted` | feed, check, one `step` per cycle | several events per cycle; the boundary of the timeout; a trip racing a late feed | alarms report the changes of a mode that depends on the last feed and the time alone |
| Watchdog service | `examples/watchdog/src/main.rs` | three threads, the log | `run_live`, `read_recorded`, `replay`, the checks of `main` | backlog, a clock that moves within an iteration | a trip is the truth about the feeds; live = log = replay |
| Echo service | `examples/echo/src/{main,echo}.rs` | two threads, the counter, the log | `Feeder::run`, `run_live`, `replay` | the loop does not wait for the transport; timeouts on both sides; a log read without noticing where it breaks off | echoes numbered and in order; the replay check notices a missing echo |
| Replay gate | `crates/msrs-core/src/replay.rs` | none | `read_copperlists`, `replay_gate` | cut and corrupt files, missing records, divergences that disappear | accepts the log of a run and nothing with a hole |
| Channel registry, task construction | `registry.rs`, `new`/`install` in `tasks.rs` | parked channel ends by task type | `install`, `take`, `new` | several builders in one process; a build that fails half way | an application has the ends of one driver |
| Real-time configuration | `crates/msrs-core/src/rt.rs` | pinning and policy of a thread | `apply` | partial failure; what a thread inherits from its spawner; a discarded result | both halves are attempted, the first failure is reported |
| Store, Trigger, Effects | `store.rs`, `trigger.rs`, `effects.rs` | the outbox of one step | accessors | a step that emits twice | covered with the tasks |
| Runtime, channels, statig | external (`cu29`, `crossbeam`, `statig`) | copperlists, log, FIFO queues | as `src/` uses them | | modelled only as far as the code relies on them |

Interactions: the transport thread(s) and the loop thread share the two channels
and the runtime clock, nothing else. On the loop thread the tasks run one after
the other and hand each other copperlist slots. At the end of an iteration the
runtime writes the copperlist to the unified log. `main` gets results from the
transport over a third channel, joins the driver thread, and then reads the log.

## Modules

| Module | What it is |
|---|---|
| `Pipeline` | the abstract promise of a bridge: messages are consumed in order by steps, each step is logged before the next, what steps produce is delivered in order |
| `CycleBridge` | the batch pipeline with its transport threads (feeder and relay), driven by an arbitrary machine; implements `Pipeline` |
| `MCCycleBridge` | a small machine for TLC, whose outputs tell the order, time and state of each step |
| `Supervision` | the abstract promise of the watchdog: a mode that is a function of two times, and alarms at its changes |
| `WatchdogMachine` | the three statig handlers and `step` as pure functions |
| `Watchdog` | `step` one dispatched event at a time; implements `Supervision` |
| `WatchdogService` | `CycleBridge` driving `WatchdogMachine`, then `main`'s use of the log through `ReplayGate`; implements `Supervision` |
| `ReplayGate` | `read_copperlists` and `replay_gate` as functions |
| `MessageBridge` | the single-message pipeline, with any number of chained `FsmTask`s and one transport thread; implements `Pipeline` |
| `MCMessageBridge` | two small machines in a row for TLC: one emits nothing on a tick and twice on one message, the other answers ticks |
| `EchoService` | `MessageBridge` with the echo machine, and `main`'s reading of the log, replay and verdict |
| `Startup` | the registry, the construction of the bridge tasks by several builders, the end of a driver |
| `RtConfig` | `RtConfig::apply` as a function of the configuration, the thread and the host |
| `DriverThread` | `Startup` and `RtConfig` together: what the thread of a driver makes of its configuration |
| `SpawnedThread` | one driver thread from its spawn to the end of its `apply`, for any settings of its builder |
| `MCStartup` | two builders of one application and one that shares the egress task type; and `RtConfig` on three cores |
| `CycleBridgeProofs`, `CycleBridgeEgressProofs` | theorems about the batch pipeline: inbound half and log; outbound half and refinement |
| `MessageBridgeProofs`, `MessageBridgeEgressProofs` | the same about the single-message pipeline |
| `WatchdogProofs`, `WatchdogServiceProofs` | theorems about the machine; about the service and the replay gate |
| `EchoServiceProofs` | theorems about the echo example |
| `StartupProofs` | theorems about the registry, and about `RtConfig::apply` |

### CycleBridge and the code

* Threads. `feeder` is the thread in `Pulse::run` that sends, `relay` the driver
  thread that runs the receive loop of `Pulse::run`, `pc` the position of the
  thread in `run_live`. `Feeder`, `Relay` and `Loop` are their steps.
* Granularity. A task touches shared state only through a channel operation or
  a clock reading, and each of those is an action: every `try_recv` of the drain
  (`DrainOne`, `DrainEnds`), `rx.len()` (`CountPending`), `ctx.now()`
  (`StampCycle`), every send of egress (`EgressOne`). Between two of them other
  threads may run. What happens between two accesses is local and part of the
  action before it.
* Channels. A bounded channel accepts while it is not full; a blocked `send` is
  the state `feeder = "blocked"`; `try_send` on a full channel is `FeedShed`. With
  capacity 0 the channel is a rendezvous: `DrainHandover` takes the message of a
  blocked sender. Dropping a `Receiver` fails sends, dropping a `Sender` fails
  receives once the channel is empty.
* Failure. `RelayFails` is `Transport::run` returning `Err`; from then on egress
  fails. A `CuError` either lets the runtime go on or makes `run_one_iteration`
  return `Err`, on which the example panics: both are modelled.
* History variables (`sent`, `emitted`, `upto`, `before`, `trace`) record what
  happened, for the properties; no action reads them.

* Refinement of `Pipeline`. `accepted` is the history of what the inbound channel took,
  a step opens when the machine has run (`RunFsm`: only then are its inputs and outputs
  both known) and is recorded by `LogCopperlist`; `delivered` is what the relay has
  received. The drain, the stamp and the sends of egress are stutters.

### MessageBridge and the code

* `transport` is the one thread of `Feeder::run`, which first sends all inputs
  and then receives one echo for each; `pc` is the position of `main` in
  `run_live`, `stage` the `FsmTask` that runs.
* `slots` is the copperlist: slot 0 is written by ingress, slot i by the i-th
  `FsmTask`. `StartIteration` hands out either an empty copperlist or any that
  still holds what an earlier iteration left in it, since the tasks must not
  depend on it. A `tov` is a time or absent: no task of the repository writes a
  `Tov::Range`, for which `trigger_for` has a branch.
* The two clock readings of an `FsmTask` (fallback of `trigger_for`, time of
  the output) are two actions. `FsmExtra` is the double emit, with the runtime
  going on or `expect` panicking.
* `recv_timeout` fails by disconnection, and, if `TimeoutsFire`, at any time its
  channel is empty: a thread may be delayed for longer than any timeout.
* Refinement of `Pipeline`. A step opens when the last `FsmTask` is done, with at most
  one message (the slot of ingress) and at most one output (the last slot). An iteration
  in which the loop panics before that has taken a message that no step consumes.

### Watchdog and the code

`machine` is `WatchdogMachine`: `gate` is the statig state, the rest is
`WatchdogCtx` with its store. `BeginCycle`, `DispatchFeed`, `DispatchCheck` and
`DrainEmitted` are the four parts of `step`. The refinement maps the supervision's
`now` and `lastFeed` to the machine as it was when the last cycle ended (`was`),
and its alarms to the alarms emitted: the end of a cycle is a cycle of the
supervision, the steps in between are stutters.

`WatchdogService` implements the same `Supervision` with a mapping that never looks at the
machine: `now` and `lastFeed` are the times of the last cycle and of the last cycle with
events among the cycles that ingress built. The alarms of the composed service are
therefore determined by its cycles alone.

### EchoService and the code

The machine's state is its counter, `count`, in a width that no run exhausts; `Echo` stands
for the formatting of "echo {number}: {body}", a number from which both can be read.
`read_recorded(damaged)` is what the reader gets of a log whose record `damaged` does not
decode (`damaged = Len(log) + 1`: an undamaged log); `main(damaged)` is the verdict of the
two assertions and the `diff`, in their order.

### Startup and the code

`slots` is `SLOTS`, keyed by task type; a builder is a thread in `run_live` or
in code like it. `held` are the channel ends that only the builder has: those
of `DriverHandles` before they are installed, those of the tasks once they are
constructed. An end that is in no slot and with no builder has been dropped.
`install` and `take` hold the lock from beginning to end, so each is one action.
A build can fail before any task's `take` (nothing installed, `max_batch = 0`, an error
of the logger or of a task in between) and after one (`TakeIllTyped`); a `CuError` and
a panic both drop what the builder holds and leave the slots alone. After that, or
after a run, the builder may spawn again, or build without installing (`BuildAnyway`),
which the documentation of the registry forbids: the history variable `forgot` marks the
runs in which somebody did, in which ends do get mixed up.

### RtConfig and the code

`apply` is sequential and runs on its own thread, so it is a function, not a state
machine: `PinAll` goes through the affinity list with `Pin`, with the list of cores taken once,
before the loop, as in the code (the variant takes it anew for every entry, and finds
after the first success that the thread is on one core only). A host may refuse to list
cores, a core that is listed, or `SCHED_FIFO`. A thread starts with the cores and the policy of its
spawner; `get_core_ids` lists the former. `TransportDriver` applies its configuration to
the driver thread and discards the result, so what `apply` leaves of the thread
is what `Transport::run` runs with (`SpawnedThread`).

## Runs

| Run | Question | Bounds |
|---|---|---|
| `cycle_bridge` | nine safety properties of the batch pipeline, and that it implements `Pipeline` | batch 2, bounded channel of 2, 3 messages, 3 iterations, clock 0..2, a transport that may fail; 3.0 M states |
| `cycle_bridge_live` | iterations end, shutdown ends, blocked senders return, no message is taken twice by a rendezvous | capacity 0, fair threads |
| `pending_outpaced` | *violated*: is `pending` non-zero only when the batch is full? | |
| `watchdog` | the statig machine implements the supervision | timeout 2, clock 0..9, up to 2 feeds per cycle |
| `watchdog_service` | alarms against the times of the feeds; the service implements `Supervision`; the replay gate on every log | timeout 1, batch 1 (so that a backlog builds up), 2 feeds, 4 iterations, clock 0..4; 1.6 M states |
| `watchdog_spurious_trip` | *violated*: does a trip mean that no feed was sent within the timeout? | as above |
| `message_bridge` | order, ticks, replay, no silent drop, echoes in order, and that it implements `Pipeline` | two stages, 3 inputs, 4 iterations, clock 0..2, timeouts; 2.3 M states |
| `chained_tick` | *violated*: can every machine of a chain be replayed from its slot? | two stages |
| `echo_service` | the echo example ends, and its replay check notices what was lost | one stage, 3 inputs, 6 iterations as in the code, no timeouts, fair threads, the log damaged at any record |
| `echo_outrun` | *violated*: is every input echoed? | as above |
| `startup` | who gets which channel end, and does the join return; what does `apply` leave of a thread | three builders, one of which spawns twice; fair threads; 0.3 M states. `apply`: 3 cores, affinity lists of up to 3 with repetitions, priorities 0, 50, 99, 100, every starting thread and host |
| `rt_config` | *violated*: does `Ok` mean that the thread is on its cores, or at least that it has its policy? | 2 cores, one priority, lists of up to 2 |

Why the bounds are enough: the batch limit is smaller than the number of messages,
so a drain can be cut short and leave a backlog; the channel is as small as the
batch, so it fills and senders block; there are at least three iterations, so a
message can wait over one, and state can go stale over two; the clock advances at
least once inside an iteration and once between two; the timeout lies strictly
inside the range of the clock, with values on both sides of its boundary. Three
builders are a first one that fails, one that meets what it left, and one that
overlaps with both in one task type only. An affinity list of three has a first, a last and
a middle entry, any of which can fail; the priorities lie on both sides of both ends of
1..99. The service run has room for feed, trip, recovery and a second trip. The machines of
the MC modules make each output depend on the order, time and state of the step.
Counters are cut off only in guards (`MaxSent`, `MaxCycles`, `MaxClock`, `Inputs`).

### What the passing runs show

*Batch pipeline.* `MessagesInOrder`: every accepted message is in exactly one logged
cycle, in the cycle being built, or queued, in order. `CycleTimeCoversEvents`: a
cycle's time is no earlier than the sending of its events and never runs back.
`UnderfullCycleEmptiesQueue` and `BoundedLatency`: a message waits only behind a
backlog, for no more cycles than it takes to drain what it found in the channel, and so, in
a bounded channel, for a bounded number of cycles. The run has a bounded channel; the theorem
is about both kinds, and with `spawn` it says what the growing latency of its comment is: the
backlog, and nothing else.
`ReplayReproduces`: the log determines states and outputs. `OutputsInOrder`: what is
in the channel, in the batch and at the transport is what the machine emitted, in order, and
egress reports no error before the transport fails. `LiveEqualsLog`: what `run_live` has collected
at the end is the concatenation of the outputs in the records of the log, which is what the
watchdog's `main` asserts. `ImplementsPipeline`: inbound path, log and outbound path at once: messages
are consumed in order, each by one step, the record of a step holds its inputs and all
of its outputs (`LogHoldsOutputs` is part of this), and the outputs are delivered once.
`LoopNeverWaits`: inside an iteration the loop can always step.

*Single-message pipeline.* `InputsInOrder`, `TickMeansDrained` (a tick means that nothing
sent before the iteration is waiting: an input that keeps the channel filled keeps the
machine from ticking, which is what the documentation of `FsmTask` warns of),
`ReplayReproduces` (of the machine fed by ingress, with ticks), `NoSilentDrop` (a value that is not in the log, or was not sent,
was dropped by a `process` that returned a `CuError`), `EchoesInOrder`, and
`ImplementsPipeline`, which survives double emits, timeouts, a panic and copperlists
used again.

*Watchdog.* `GateFollowsFeeds` and `ImplementsSupervision` for the machine;
`TripMeansSilence` and `ArmedMeansRecentFeed` for the service, in terms of when feeds were
sent, and `ImplementsSupervision` in terms of the cycles it was given. `DamageNoticed`,
`HolesNoticed` and `ControlDiverges` for what `main` makes of the logs the service writes.
The reader confuses a file that was cut, or has a damaged length, with a shorter one, and the gate
passes on any beginning of a log; it is `main`'s comparison with the live alarms that refuses
it, if an alarm is missing (`Accepted`). A tail without alarms can be lost unnoticed.

*Echo.* `GateNoticesLostEchoes`: the reader stops without a word at a record that does not
decode, and replay and log then agree on what was read; still, `main` says OK exactly if
all inputs were echoed and no echo is in the part that was not read. A damaged tail without an echo
passes. `EchoesNumbered`, `RunLiveReturns`, and `InTimeIsEchoed`:
three extra iterations are enough if input k is sent before the iteration after the
k+1st begins.

*Startup.* `OwnApplication`, `ParkedIsSafe` and `CleanRunLeavesNothing`: if everybody installs
before building, an application has the two ends of its own driver, nobody takes
another builder's end, and a successful build leaves nothing parked. `ParkedIsSafe`
has a price: what a failed build leaves in the registry stays for good, and every
later install under those task types panics. `EndsOnce` holds without that
condition; `JoinReturns`: dropping the application ends the driver.

*Real-time configuration.* `BestEffort`: whatever becomes of one half of the configuration, the
other is attempted; a thread that could be pinned is on cores of its list, an allowed priority is
set, a refused request changes nothing, `Ok` means that none was refused, and the first
refusal is reported. It is stated of the first driver thread of the process, for everything it
may inherit from its builder. It does not say that the thread has what was asked for: for several
cores, and for `Normal`, it need not (findings 5 and 6); nor what an empty list means,
which leaves the inherited cores, as the documentation ("no pinning") can be read.

### Fairness

`cycle_bridge_live` assumes weak fairness of the loop thread, of the feeder thread,
and of the relay's receive and return; `echo_service` of the two threads of the echo
example; `startup` of a builder's return from `join` and of a driver's exit once it is
disconnected. That is what an operating system gives a runnable thread. Nothing is assumed
of the clock, of a transport fault or of a timeout: none of them has to happen. The
loop of the example ends because it counts iterations or `RUN_FOR`; in `CycleBridge`
stopping is always allowed, and `MaxCycles` makes it the only possibility in the end.

## Findings

1. `PendingMeansOutpaced` (run `pending_outpaced`): `Cycle::pending` is documented as
   non-zero when input outpaces the loop; it is also non-zero when a single message
   arrives between the drain and `rx.len()`.
2. `TripMeansNoFeed` (`watchdog_spurious_trip`): `Alarm::Tripped` is documented as "no feed
   for longer than the timeout"; a feed that arrives between the drain and the reading
   of the clock is not in the cycle whose time covers it, and the check trips.
3. `ChainReplays` (`chained_tick`): a chained `FsmTask` that gets nothing ticks at a
   clock reading that is not logged, because an empty output leaves `tov` unset; the
   notes say that such a chain can be replayed stage by stage.
4. `EveryInputEchoed` (`echo_outrun`): the echo example's loop can be over before the
   inputs arrive, and its assertion then fails.
5. `OkMeansConfigured` (`rt_config`): `RtConfig::affinity` is documented as the "Core ids to pin
   this thread to"; of several only the last that can be pinned remains, with `Ok`.
6. The same run: `SchedPolicy::Normal` is documented as the default time-sharing scheduler, but
   `apply` then leaves the policy alone, so a driver spawned from a thread that has `SCHED_FIFO`
   keeps that priority, with `Ok`. The README wants driver threads to have a lower priority than the loop,
   "so middleware cannot starve the deterministic loop". `OkMeansConfigured` asks for one of the two
   only, so that one behaviour refutes both: a thread that inherits `SCHED_FIFO` is configured
   with `Normal` and two cores, and ends on one core with `SCHED_FIFO`.

One more divergence has no run of its own, since it shows in the text: the README promises that
transport failures enter the graph as a message or become a `CuError` (section 7, "No silent
failure"). The result of `Transport::run` is only the value of the driver thread (`spawn_with`),
which the example discards; egress notices that the transport is gone if a value is sent
afterwards. `OutputsInOrder` says what such a run delivers.

## Proofs

TLAPS proves the following for every value of the constants: every machine, number of
stages, batch limit, capacity, bound, number of inputs and timeout, any builders, cores
and affinity lists. Each theorem states the property in brackets.

| Module | Theorems |
|---|---|
| `CycleBridgeProofs` | `TypeCorrect` (`TypeOK`), `InboundFifo` (`MessagesInOrder`), `TimeCoversEvents` (`CycleTimeCoversEvents`), `UnderfullEmpties` (`UnderfullCycleEmptiesQueue`), `LogReplays` (`ReplayReproduces`), `NeverTwice` (`AcceptedOnce`), `WaitIsBounded` (`BoundedLatency`) |
| `CycleBridgeEgressProofs` | `LogComplete` (`LogHoldsOutputs`, which no run checks by itself), `OutputsConserved` (`OutputsInOrder`), `LiveIsLog` (`LiveEqualsLog`), `BridgeIsPipeline` (`ImplementsPipeline`) |
| `MessageBridgeProofs` | `TypeCorrect` (`TypeOK`), `InputsKeepOrder` (`InputsInOrder`), `TicksMeanDrained` (`TickMeansDrained`), `ReplayIsExact` (`ReplayReproduces`) |
| `MessageBridgeEgressProofs` | `EchoesKeepOrder` (`EchoesInOrder`), `NothingDropped` (`NoSilentDrop`), `PathIsPipeline` (`ImplementsPipeline`) |
| `WatchdogProofs` | `WatchdogTypes` (`TypeOK`), `GateSettled` (`GateFollowsFeeds`), `Implements` (`ImplementsSupervision`) |
| `WatchdogServiceProofs` | `TripsAreTrue` (`TripMeansSilence`), `ArmedIsAlive` (`ArmedMeansRecentFeed`), `ServiceSupervises` (`ImplementsSupervision`), `DamageIsNoticed` (`DamageNoticed`), `ControlIsCaught` (`ControlDiverges`), `HolesAreNoticed` (`HolesNoticed`) |
| `EchoServiceProofs` | `EchoesAreNumbered` (`EchoesNumbered`), `InTimeAllEchoed` (`InTimeIsEchoed`), `LostEchoesNoticed` (`GateNoticesLostEchoes`) |
| `StartupProofs` | `StartupTypes` (`TypeOK`), `EndsUsedOnce` (`EndsOnce`), `OwnEnds` (`OwnApplication`), `ParkedEndsSafe` (`ParkedIsSafe`), `NothingLeft` (`CleanRunLeavesNothing`), `AppliesBestEffort` (`BestEffort`) |

### Assumptions

Those stated in the modules. The batch limit is positive (`CycleIngressTask::new` refuses
0), capacities, timeouts and bounds are natural numbers, `None` is neither a time nor a
payload nor a channel end, no ingress task type is an egress task type, and `Unset` is
none of the errors of `apply`. A machine's step stays within its states and outputs
(`MachineAssumption` of both bridges; in `MessageBridge` for the triggers that stage can get,
`Triggers`). The services fix the machine: `ServiceAssumption` says that it is the
watchdog's, or the echo example's. `InTimeAllEchoed` assumes in addition that no timeout
fires, without which it is false: a `recv_timeout` may give up although everything was
sent in time. The run `echo_service` has the same setting.

### Arguments

*Batch pipeline.* A type invariant comes first, because the indices of
the other invariants are computed from lengths. Order on the inbound side is
inductive once the queue, the batch and the log are located in the history of
accepted messages (`QueueInOrder`, `BatchInOrder`, `LogInOrder`). The time property needs
to know that what is in the batch or the queue was sent no later than now, and that
the cycle being stamped is no earlier than the last one logged. `AcceptedOnce`
needs `OnceInv`: every accepted message is one that was offered, and none of them is the
last offer while the feeder is still blocked with it. `BoundedLatency` is the hardest of them: `LatencyInv`
gives every accepted message a due cycle (`DueCycle`), from the number of cycles logged and its
place in the channel when it was accepted, and says that the drains left to a queued message
before it is due are enough for those in front of it and itself; a full batch shortens the way
by `MaxBatch`, a batch that is not full ends it. The place in a bounded channel is at most its
capacity, and a longer queue takes no fewer cycles (`CyclesMonotone`), which gives the bound of
`spawn_bounded`. The outbound side needs
the relay's failure flag: until it is set, received, queued and unsent outputs are what
was emitted; afterwards the received ones stay a prefix. What was emitted is the concatenation of the
records and of the current batch (`AllLogged`), which gives `LiveEqualsLog` once the relay has
drained the channel. The refinement of `Pipeline` needs
no invariant beyond these: `RunFsm` is a step, `LogCopperlist` records it, `RelayOne` delivers, and the
remaining actions leave all six mapped variables unchanged, because what they move (from the
queue to the batch, from the batch to the outbound channel) is located by indices that do not
change.

*Single-message pipeline.* The inputs are their own indices, so order is a matter of
`Taken`, the number of inputs that ingress has taken; `InputsInOrder` itself is inductive.
The type invariant includes the payloads that ingress has logged (`LoggedInputs`), since a copperlist
is handed out again. `TickInv` adds that once ingress has found the channel empty in an iteration, everything that was
sent before that iteration has been taken.
Replay needs `MachineInv`: within an iteration, the last recorded step of the first machine is
the one it made on the slot that will be logged, and that slot has a time if it has no
message. `DropInv` says the same of the outputs of every stage that has run (`SlotsHold`),
unless a `CuError` was returned, and of what egress has sent. For the refinement,
an iteration becomes a step when its last machine is done (`AtEgress`).

*Watchdog.* The inductive invariant `SupInv` of the machine says what it looks like within a
cycle: unchanged before the first feed, armed with the time of the cycle after it, settled
once the check was made. A machine between two cycles is settled, so the alarms
of a cycle are determined by two modes, which is what the supervision says.
For the service, `step` is first put in closed form (`StepIs`): what it emits and where
it ends depend only on the mode before, the time, and whether the cycle has
events. `FeederInv` then relates the machine to the feeder: `last_feed_ns` is the time
of the last cycle with events, so no feed that had been accepted before the end of a later
drain is younger than that time, unless it is in a backlog, which a full batch announces.
The refinement of `Supervision` uses the same closed form, and the last cycle and the last
cycle with events as its state.

*Replay gate.* The log replays (`LogReplays`), so a replay is where the run was as long as it is
given the recorded cycles (`ReplayFollows`): every beginning of the log passes
(`BeginningPasses`), and a reading that stops at a damaged record is such a beginning
(`StopsAt`). Its alarms are those that the transport received exactly if the records after it hold none
(`BeginningHolds`, from `LiveIsLog`'s invariant). A hole shows in the ids of its neighbours: two kept records with
none between them stand next to each other in the reading (`RankNext`), where the gate expects
consecutive ids. The negative control is the
interesting one: up to the first arming the perturbed replay is where the run was, in
mode idle; the run emitted `Armed` there and the replay, given no feed, does not
(`NoFeedNoArmed`), whatever happens later.

*Echo example.* `NumberInv`: the counter is the number of inputs the machine was given, the slot
of the machine carries the number of its input, and what egress has sent is `Echo(1, 1)`,
`Echo(2, 2)` and so on, as many as inputs were taken while the transport runs. `InTimeInv`:
in time, ingress has taken input k by the k + `Extra`th iteration (it takes one per
iteration, and input k was there before its turn), so that after the last iteration all are
taken, all echoes are sent, and without timeouts the transport and `main` get them.
`LostEchoesNoticed`: of any beginning of the log, replay and log both give the first t echoes,
where t is the number of inputs these records have taken (`ReadIs`), and t can only
grow along the log (`TakenGrows`), so it is everything exactly if no record after it holds an echo.

*Registry.* `PlaceInv` locates every end (a new one is nowhere, because no end has a
higher number than its builder has spawned; one being installed is in its
builder's hands), and `OwnInv` says what a builder may rely on between its installs and
its takes. An occupied slot stops the second of two builders at its install, so
the two never build at the same time from the same slot.

*Real-time configuration.* The rounds over the affinity list have a closed form (`Pinned`): the
last entry that took the thread and the first that did not. `BestEffort` is weaker than
that.

*Recursive functions.* Several modules define what the code computes in a loop as a recursive function over
an interval (`States` of the gate, `replay` and `echo_outputs` of the echo example,
`PinAll`). TLAPS has no induction rule that its provers can use here, so such a function
is shown to be a given closed form in two steps: the closed form satisfies
the equations, so some function does and the one that TLA+ chooses does; and if the two
differed there would be a least argument at which they do (`Least`, from the well-foundedness of the
natural numbers), which the equations rule out. For `States`, which has no closed form,
existence is proved with `Least` too (`StatesRun`).

### Only model-checked

* The liveness properties: `IterationCompletes`, `ShutdownCompletes` and `BlockedSendReturns`
  (run `cycle_bridge_live`), `RunLiveReturns` (`echo_service`), `JoinReturns` (`startup`). The
  provers have no rules for fairness.
* `LoopNeverWaits`, which is about `ENABLED`.
* The runs that expect a violation: a counterexample is TLC's to find.

The gate is proved about readings of the log of a run: whole, cut short, damaged, with holes or
perturbed like the negative control. What it says of files that are no such reading is neither
checked nor proved.

## Not modelled

* `set_fifo` on systems other than Linux: it always fails.
* `Store`: a marker trait. `freeze` and `thaw` of the tasks: no-ops in the code.
* Encoding, file layout and log rotation: a record decodes, the bytes run out in it (because
  the file was cut, or because of a damaged length), or it fails to decode in another way. A
  damaged record that still decodes, to something else, is left out.
* `main`'s assertion that the alarms of the watchdog's own schedule are armed, tripped, recovered,
  tripped: the schedule of the model is arbitrary.
* The internals of cu29 (monitoring decisions, signals, freezing) and statig.
* `spike/`, build files, documents.

## Plan

Every safety property of the runs is a theorem, and every refinement. What would extend the
development:

1. A bound on the inbound backlog with `spawn`, which grows without limit: that a transport
   which does not outpace the loop on average bounds it needs a model of rates.
2. The replay theorems for any machine whose step is deterministic, of which those about the
   watchdog and the echo example are instances.
3. The remaining parts of the runtime on which `src/` relies, should it start to rely on them.
