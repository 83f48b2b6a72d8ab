--------------------------- MODULE MCCycleBridge ---------------------------
(***************************************************************************)
(* CycleBridge with a small machine for TLC: it counts the events it has   *)
(* seen (up to a limit), answers each with the event and the cycle's time, *)
(* and answers a cycle with no event with the time alone, so that an       *)
(* output tells in which order, at what time and in which state the        *)
(* machine was stepped.                                                    *)
(***************************************************************************)
EXTENDS CycleBridge

Counts == 0..(MaxSent + 1)

Answers == [seen : Counts, val : 0..MaxSent, now_ns : 0..MaxClock]

CountStep(s, c) ==
    LET n == Len(c.events)
        seen(k) == IF s + k > MaxSent THEN MaxSent + 1 ELSE s + k
    IN  [ state |-> seen(n),
          outs  |-> IF n = 0 THEN <<[seen |-> s, val |-> 0, now_ns |-> c.now_ns]>>
                    ELSE [i \in 1..n |-> [seen |-> seen(i), val |-> c.events[i],
                                          now_ns |-> c.now_ns]] ]
=============================================================================
