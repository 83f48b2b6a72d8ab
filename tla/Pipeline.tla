------------------------------ MODULE Pipeline ------------------------------
(***************************************************************************)
(* What a bridge between a transport and the graph promises, whatever its  *)
(* tasks are: the messages the transport sends are consumed in order, some *)
(* at a time, each by one step of the graph; what the steps produce is     *)
(* delivered to the transport in order; and each step is logged, with what *)
(* it consumed and what it produced, before the next one.  Nothing is lost *)
(* or done twice on the way, and a step that was not logged is the last.   *)
(*                                                                         *)
(* CycleBridge (the batch tasks) and MessageBridge (the single-message     *)
(* tasks) both implement it.                                               *)
(***************************************************************************)
EXTENDS Integers, Sequences

CONSTANTS
    Input,     \* what the transport sends
    MaxStep    \* how many messages a step may consume

VARIABLES
    accepted,   \* the messages the inbound channel has accepted
    consumed,   \* how many of them have been given to the graph
    open,       \* the step that is not logged yet, if any
    log,        \* the logged steps
    produced,   \* what the steps have produced
    delivered   \* what the transport has been given of it

vars == <<accepted, consumed, open, log, produced, delivered>>

Init ==
    /\ accepted = <<>> /\ consumed = 0
    /\ open = <<>> /\ log = <<>>
    /\ produced = <<>> /\ delivered = <<>>

Accept ==
    /\ \E m \in Input : accepted' = Append(accepted, m)
    /\ UNCHANGED <<consumed, open, log, produced, delivered>>

\* A step consumes the next n messages and adds something to what is produced.
Step(n) ==
    /\ open = <<>>
    /\ consumed' = consumed + n /\ consumed' <= Len(accepted)
    /\ Len(produced) <= Len(produced')
    /\ produced = SubSeq(produced', 1, Len(produced))
    /\ open' = << [ ins  |-> SubSeq(accepted, consumed + 1, consumed'),
                    outs |-> SubSeq(produced', Len(produced) + 1, Len(produced')) ] >>
    /\ UNCHANGED <<accepted, log, delivered>>

Record ==
    /\ open # <<>>
    /\ log' = log \o open
    /\ open' = <<>>
    /\ UNCHANGED <<accepted, consumed, produced, delivered>>

Deliver ==
    /\ Len(delivered) < Len(produced)
    /\ delivered' = Append(delivered, produced[Len(delivered) + 1])
    /\ UNCHANGED <<accepted, consumed, open, log, produced>>

Next == Accept \/ (\E n \in 0..MaxStep : Step(n)) \/ Record \/ Deliver

Spec == Init /\ [][Next]_vars
=============================================================================
