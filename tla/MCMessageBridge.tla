-------------------------- MODULE MCMessageBridge --------------------------
(***************************************************************************)
(* MessageBridge with two small machines in a row, for TLC.  The first     *)
(* remembers the last time it was told by a tick, and emits it with every  *)
(* message; it emits input 2 twice.  The second forwards what it is given, *)
(* and emits the time of a tick that it has not seen yet.                  *)
(***************************************************************************)
EXTENDS MessageBridge

MCState == 0..MaxClock

MCStep(i, s, trigger) ==
    IF trigger.msg # None
    THEN LET out == IF i = 1 THEN 10 * trigger.msg + s ELSE trigger.msg
         IN  [state |-> s, outs |-> IF i = 1 /\ trigger.msg = 2 THEN <<out, out>> ELSE <<out>>]
    ELSE [state |-> trigger.at,
          outs  |-> IF i = 1 \/ trigger.at = s THEN <<>> ELSE <<trigger.at>>]

MCPayload == 0..(10 * Inputs + MaxClock)
=============================================================================
