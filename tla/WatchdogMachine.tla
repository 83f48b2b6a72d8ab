-------------------------- MODULE WatchdogMachine --------------------------
(***************************************************************************)
(* The statig machine of the watchdog example: its three state handlers,   *)
(* and WatchdogMachine::step as a function of the machine and its cycle.   *)
(*                                                                         *)
(* A machine is a record: the statig state (gate), the store               *)
(* (last_feed_ns) and the rest of WatchdogCtx (now_ns, emitted).           *)
(***************************************************************************)
EXTENDS Integers, Sequences

CONSTANTS
    TIMEOUT_NS,  \* WatchdogStore::timeout_ns
    None         \* last_feed_ns before any feed

ASSUME TimeoutAssumption == TIMEOUT_NS \in Nat
ASSUME NoneAssumption == None \notin Nat

Gates == {"idle", "armed", "tripped"}

Tripped(ns) == [kind |-> "Tripped", silent_ns |-> ns]
Armed       == [kind |-> "Armed",     silent_ns |-> 0]
Recovered   == [kind |-> "Recovered", silent_ns |-> 0]

MachineDefault == [gate |-> "idle", last_feed_ns |-> None, now_ns |-> 0, emitted |-> <<>>]

-----------------------------------------------------------------------------
\* WatchdogStore
record_feed(m) == [m EXCEPT !.last_feed_ns = m.now_ns]

\* saturating_sub
silent_ns(m) ==
    IF m.last_feed_ns = None \/ m.now_ns < m.last_feed_ns THEN 0
    ELSE m.now_ns - m.last_feed_ns

expired(m) == m.last_feed_ns # None /\ silent_ns(m) > TIMEOUT_NS

-----------------------------------------------------------------------------
\* emitted.push
push(m, alarm) == [m EXCEPT !.emitted = Append(m.emitted, alarm)]

\* Outcome::Transition
Transition(m, gate) == [m EXCEPT !.gate = gate]

\* State::idle
idle(m, event) ==
    IF event = "Feed" THEN Transition(push(record_feed(m), Armed), "armed") ELSE m

\* Variant: armed takes a feed without storing its time.
armedForgetsFeed(m, event) ==
    IF event = "Check" /\ expired(m) THEN Transition(push(m, Tripped(silent_ns(m))), "tripped")
    ELSE m

\* Variant: the guard on Check is missing its negation of silence, so it never fires.
armedNeverExpires(m, event) == IF event = "Feed" THEN record_feed(m) ELSE m

\* State::armed
armed(m, event) ==
    IF event = "Feed" THEN record_feed(m)
    ELSE IF expired(m) THEN Transition(push(m, Tripped(silent_ns(m))), "tripped")
    ELSE m

\* Variant: a feed after a trip arms the watchdog as the first feed does.
trippedArms(m, event) ==
    IF event = "Feed" THEN Transition(push(record_feed(m), Armed), "armed") ELSE m

\* Variant: the recovering transition leaves the time of the last feed alone.
trippedForgetsFeed(m, event) ==
    IF event = "Feed" THEN Transition(push(m, Recovered), "armed") ELSE m

\* State::tripped
tripped(m, event) ==
    IF event = "Feed" THEN Transition(push(record_feed(m), Recovered), "armed") ELSE m

\* handle_with_context
Handle(m, event) ==
    IF m.gate = "idle" THEN idle(m, event)
    ELSE IF m.gate = "armed" THEN armed(m, event) ELSE tripped(m, event)

-----------------------------------------------------------------------------
\* What is dispatched for a cycle: one Feed per event, then one Check.
Dispatched(c) == [i \in 1..Len(c.events) |-> "Feed"] \o <<"Check">>

\* The machine after the first n of the events it dispatches for cycle c.
After(m, c) ==
    LET start == [m EXCEPT !.now_ns = c.now_ns]
        f[n \in 0..(Len(c.events) + 1)] ==
            IF n = 0 THEN start ELSE Handle(f[n - 1], Dispatched(c)[n])
    IN  f[Len(c.events) + 1]

\* WatchdogMachine::step, with the machine between two steps as its state.
WatchdogStep(m, c) ==
    [ state |-> [After(m, c) EXCEPT !.emitted = <<>>],
      outs  |-> After(m, c).emitted ]
=============================================================================
