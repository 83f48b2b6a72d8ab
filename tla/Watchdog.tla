------------------------------ MODULE Watchdog ------------------------------
(***************************************************************************)
(* The watchdog, one dispatched event at a time: WatchdogMachine::step     *)
(* takes a cycle, hands its feeds and then one check to the statig         *)
(* machine, and drains the alarms the handlers have pushed.                *)
(*                                                                         *)
(* It implements Supervision, which has no state machine at all.           *)
(***************************************************************************)
EXTENDS WatchdogMachine

CONSTANTS
    MaxClock,   \* bound: cycle times are 0..MaxClock
    MaxFeeds    \* feeds in a cycle, at most (max_batch)

ASSUME BoundAssumption == MaxClock \in Nat /\ MaxFeeds \in Nat

VARIABLES
    machine,  \* the WatchdogMachine
    pc,       \* where step is: "idle" (not running), "dispatch", "drain"
    feeds,    \* how many feeds the current cycle has
    left,     \* how many of them are still to be dispatched
    alarms,   \* every alarm step has emitted
    was,      \* history: the machine before the current cycle
    lastFed   \* history: the time of the last cycle that had a feed, or None

vars == <<machine, pc, feeds, left, alarms, was, lastFed>>

Init ==
    /\ machine = MachineDefault /\ was = MachineDefault
    /\ pc = "idle" /\ feeds = 0 /\ left = 0
    /\ alarms = <<>> /\ lastFed = None

\* step is called with a cycle; the runtime clock never runs back.
BeginCycle(t, k) ==
    /\ pc = "idle"
    /\ pc' = "dispatch"
    /\ machine' = [machine EXCEPT !.now_ns = t]
    /\ feeds' = k /\ left' = k
    /\ lastFed' = IF k > 0 THEN t ELSE lastFed
    /\ UNCHANGED <<alarms, was>>

DispatchFeed ==
    /\ pc = "dispatch" /\ left > 0
    /\ machine' = Handle(machine, "Feed")
    /\ left' = left - 1
    /\ UNCHANGED <<pc, feeds, alarms, was, lastFed>>

\* Variant: the check is made before the feeds of the cycle.
DispatchCheckFirst ==
    /\ pc = "dispatch" /\ left = 0
    /\ machine' = LET checked == Handle([was EXCEPT !.now_ns = machine.now_ns], "Check")
                  IN  IF feeds = 0 THEN checked ELSE Handle(checked, "Feed")
    /\ pc' = "drain"
    /\ UNCHANGED <<feeds, left, alarms, was, lastFed>>

DispatchCheck ==
    /\ pc = "dispatch" /\ left = 0
    /\ machine' = Handle(machine, "Check")
    /\ pc' = "drain"
    /\ UNCHANGED <<feeds, left, alarms, was, lastFed>>

\* Variant: the alarms are copied out but stay in the context.
DrainEmittedKeeping ==
    /\ pc = "drain"
    /\ alarms' = alarms \o machine.emitted
    /\ was' = machine
    /\ pc' = "idle" /\ feeds' = 0
    /\ UNCHANGED <<machine, left, lastFed>>

\* ctx.emitted.drain(..) into the effects.
DrainEmitted ==
    /\ pc = "drain"
    /\ alarms' = alarms \o machine.emitted
    /\ machine' = [machine EXCEPT !.emitted = <<>>]
    /\ was' = machine'
    /\ pc' = "idle" /\ feeds' = 0
    /\ UNCHANGED <<left, lastFed>>

Next == \/ \E t \in machine.now_ns..MaxClock, k \in 0..MaxFeeds : BeginCycle(t, k)
        \/ DispatchFeed \/ DispatchCheck \/ DrainEmitted

Spec == Init /\ [][Next]_vars

-----------------------------------------------------------------------------
\* Seen at the end of its cycles, the machine is the supervision.
Supervised ==
    INSTANCE Supervision WITH now <- was.now_ns, lastFeed <- was.last_feed_ns

Machine == [ gate : Gates, last_feed_ns : (0..MaxClock) \cup {None}, now_ns : 0..MaxClock,
             emitted : Seq({Armed, Recovered} \cup {Tripped(ns) : ns \in 0..MaxClock}) ]

\* Every variable has its type; a cycle never has more than one alarm in its
\* context, and none is left there between two cycles.
TypeOK ==
    /\ machine \in Machine /\ was \in Machine
    /\ pc \in {"idle", "dispatch", "drain"}
    /\ feeds \in 0..MaxFeeds /\ left \in 0..feeds
    /\ alarms \in Seq({Armed, Recovered} \cup {Tripped(ns) : ns \in 0..MaxClock})
    /\ lastFed \in (0..MaxClock) \cup {None}
    /\ Len(machine.emitted) <= 1
    /\ pc = "idle" => machine.emitted = <<>>

\* Between two cycles the state of the statig machine is settled by the time of
\* the last cycle with a feed and the present time: no expiry is missed and no
\* trip is early, whatever the order of feeds, checks and trips before.
GateFollowsFeeds ==
    pc = "idle" => machine.gate = Supervised!Mode(lastFed, machine.now_ns)

\* The watchdog implements Supervision: cycle by cycle, the alarms it emits report
\* the changes of a mode that depends on the last feed and the time alone.
ImplementsSupervision == Supervised!Spec
=============================================================================
