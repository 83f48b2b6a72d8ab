---------------------------- MODULE Supervision ----------------------------
(***************************************************************************)
(* What the watchdog promises, without a state machine: at any time the    *)
(* supervision has a mode, a function of the time of the last feed and of  *)
(* the present time alone, and an alarm is raised exactly when the mode    *)
(* changes from one cycle to the next.                                     *)
(***************************************************************************)
EXTENDS Integers, Sequences

CONSTANTS
    TIMEOUT_NS,  \* the longest silence that is not an alarm
    None,        \* the time of the last feed before any feed
    MaxClock     \* bound: cycle times are 0..MaxClock

VARIABLES
    now,       \* the time of the last cycle
    lastFeed,  \* the time of the last cycle with a feed, or None
    alarms     \* the alarms raised so far

Modes == {"idle", "armed", "tripped"}

Mode(last, t) ==
    IF last = None THEN "idle"
    ELSE IF t - last > TIMEOUT_NS THEN "tripped" ELSE "armed"

Tripped(ns) == [kind |-> "Tripped", silent_ns |-> ns]
Armed       == [kind |-> "Armed",     silent_ns |-> 0]
Recovered   == [kind |-> "Recovered", silent_ns |-> 0]

\* The alarms that report a change from mode old to mode new, ns after the last feed.
Report(old, new, ns) ==
    IF new = old THEN <<>>
    ELSE IF new = "tripped" THEN <<Tripped(ns)>>
    ELSE IF old = "idle" THEN <<Armed>> ELSE <<Recovered>>

Init == now = 0 /\ lastFeed = None /\ alarms = <<>>

\* A cycle at time t, with or without feeds.
Cycle(t, fed) ==
    LET last == IF fed THEN t ELSE lastFeed
    IN  /\ now' = t
        /\ lastFeed' = last
        /\ alarms' = alarms \o Report(Mode(lastFeed, now), Mode(last, t), t - last)

Next == \E t \in now..MaxClock, fed \in BOOLEAN : Cycle(t, fed)

Spec == Init /\ [][Next]_<<now, lastFeed, alarms>>
=============================================================================
