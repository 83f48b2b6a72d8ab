-------------------------- MODULE WatchdogService --------------------------
(***************************************************************************)
(* The watchdog example as a whole: CycleBridge driving the watchdog, with *)
(* a transport thread that feeds it and receives its alarms.               *)
(*                                                                         *)
(* The watchdog only knows the times of its cycles and which of them had   *)
(* feeds.  What follows relates its alarms to what its user sees: when     *)
(* feeds were sent, and which alarms arrive.                               *)
(***************************************************************************)
EXTENDS CycleBridge, WatchdogMachine, FiniteSetsExt

INSTANCE ReplayGate

\* FsmBatchTask<WatchdogMachine>: the machine that CycleBridge drives is this one.
ASSUME ServiceAssumption ==
    /\ MInit = MachineDefault
    /\ \A m \in MState, c \in Cycle : FsmStep(m, c) = WatchdogStep(m, c)

\* The machine between two steps, and what it emits.
Machines == [ gate : Gates, last_feed_ns : (0..MaxClock) \cup {None}, now_ns : 0..MaxClock,
              emitted : {<<>>} ]

Alarms == {Armed, Recovered} \cup {Tripped(ns) : ns \in 0..MaxClock}

-----------------------------------------------------------------------------
(***************************************************************************)
(* What main does with the log of the run.                                 *)
(***************************************************************************)
\* The copperlists of the log; their ids count the iterations.
Copperlists ==
    [n \in 1..Len(log) |-> [id |-> n - 1, input |-> log[n].cycle, output |-> log[n].outs]]

\* The log file, with record n damaged.
Damaged(n, how) ==
    [k \in 1..(IF how = "cut" THEN n ELSE Len(log)) |->
        [copperlist |-> Copperlists[k], bytes |-> IF k = n THEN how ELSE "whole"]]

Intact == [k \in 1..Len(log) |-> [copperlist |-> Copperlists[k], bytes |-> "whole"]]

\* replay: a fresh machine over the recorded cycles.
replay(recorded) == replay_gate(recorded)

\* The alarms in the copperlists that were read.
alarms_in(recorded) == FlattenSeq([n \in 1..Len(recorded) |-> recorded[n].output])

\* read_recorded asserts that the log ended cleanly; main that it holds the alarms that
\* the live run has collected, and that the gate passed.
Accepted(file) ==
    LET recorded == read_copperlists(file)
    IN  /\ LogEnd(file) = "Eof"
        /\ alarms_in(recorded) = received
        /\ passed(replay(recorded))

\* The cycles that armed the watchdog, and the negative control: the log with the
\* feeds of the first of them dropped.
ArmedAt(recorded) ==
    { n \in 1..Len(recorded) : \E a \in 1..Len(recorded[n].output) :
                                    recorded[n].output[a] = Armed }

Perturbed(recorded) ==
    LET first == CHOOSE n \in ArmedAt(recorded) : \A k \in ArmedAt(recorded) : n <= k
    IN  [recorded EXCEPT ![first].input.events = <<>>]

-----------------------------------------------------------------------------
\* How many feeds the first n cycles have dispatched.
DispatchedBy(n) == trace[n].first + Len(log[n].cycle.events)

Trips(n) == {a \in 1..Len(log[n].outs) : log[n].outs[a].kind = "Tripped"}

\* Tripped { silent_ns } is the truth about the feeds that had been accepted when
\* the drain of its cycle ended: all of them were sent at least silent_ns before
\* the time of the cycle, and silent_ns is more than the timeout.  No feed that
\* the loop was slow to drain is mistaken for silence.
TripMeansSilence ==
    \A n \in 1..Len(log) : \A a \in Trips(n) :
        LET silent == log[n].outs[a].silent_ns
        IN  /\ silent > TIMEOUT_NS
            /\ \A i \in 1..trace[n].upto : sent[i].at + silent <= log[n].cycle.now_ns

\* While the watchdog stays armed its feeder was alive: since the end of any drain
\* that emptied the channel in a cycle more than the timeout ago, another feed
\* was accepted and dispatched.  A backlog is all that can delay a trip.
ArmedMeansRecentFeed ==
    \A n \in 1..Len(log) : trace[n].after.gate = "armed" =>
        \A m \in 1..n :
            (/\ Len(log[m].cycle.events) < MaxBatch
             /\ log[m].cycle.now_ns + TIMEOUT_NS < log[n].cycle.now_ns)
            => DispatchedBy(n) > trace[m].upto

\* The cycles that the machine has been given, and which of them had feeds.
Cycles ==
    [n \in 1..Len(log) |-> log[n].cycle] \o (IF StepOpen THEN <<TheCycle>> ELSE <<>>)

FedCycles == {n \in 1..Len(Cycles) : Cycles[n].events # <<>>}

LastCycleAt == IF Cycles = <<>> THEN 0 ELSE Cycles[Len(Cycles)].now_ns
LastFeedAt  == IF FedCycles = {} THEN None ELSE Cycles[Max(FedCycles)].now_ns

Supervised ==
    INSTANCE Supervision WITH
        now      <- LastCycleAt,
        lastFeed <- LastFeedAt,
        alarms   <- emitted

\* The service implements Supervision: read off the cycles that ingress has built and
\* the alarms that were emitted, and without a look at the machine, every change of the
\* mode is reported once, with the silence since the last cycle that had a feed.
ImplementsSupervision == Supervised!Spec

-----------------------------------------------------------------------------
\* The log of a run is accepted.  With a corrupt record in it, it is refused.  If the
\* bytes run out in a record, what comes before it passes for the whole log, also when
\* more records follow: main refuses it only because an alarm is missing, or because
\* nothing is left (LogEnd, "check the expected count"; assert_eq!(alarms, live)).
DamageNoticed ==
    (pc = "joined" /\ relay # "failed" /\ Len(log) > 0) =>
        /\ Accepted(Intact)
        /\ \A n \in 1..Len(log) : ~Accepted(Damaged(n, "corrupt"))
        /\ \A n \in 1..Len(log), how \in RunsOut :
              Accepted(Damaged(n, how)) <=>
                  n > 1 /\ \A k \in n..Len(log) : log[k].outs = <<>>

\* The gate passes on every beginning of the log, and on nothing with a hole in it:
\* what it can miss is a lost beginning or a lost end (GateReport::passed).
HolesNoticed ==
    pc = "joined" =>
        \A kept \in SUBSET (1..Len(log)) :
            LET nth(i)   == CHOOSE n \in kept : Cardinality({k \in kept : k <= n}) = i
                recorded == [i \in 1..Cardinality(kept) |-> Copperlists[nth(i)]]
            IN  IF kept # {} /\ kept = 1..Cardinality(kept) THEN passed(replay(recorded))
                ELSE passed(replay(recorded)) =>
                        \A a, b \in kept : \A n \in a..b : n \in kept

\* The gate notices that the feeds that armed the watchdog were dropped, also when the
\* replay has caught up with the recording by its end (main's negative control).
ControlDiverges ==
    (pc = "joined" /\ ArmedAt(Copperlists) # {}) =>
        ~passed(replay(Perturbed(Copperlists)))

-----------------------------------------------------------------------------
\* What the comment on Alarm::Tripped says: "No feed for longer than the timeout",
\* that is, no feed was accepted during the last TIMEOUT_NS before the time at
\* which the trip was decided.
TripMeansNoFeed ==
    \A n \in 1..Len(log) : Trips(n) # {} =>
        \A i \in 1..Len(sent) :
            sent[i].at < log[n].cycle.now_ns =>
                sent[i].at + TIMEOUT_NS < log[n].cycle.now_ns
=============================================================================
