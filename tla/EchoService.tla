---------------------------- MODULE EchoService ----------------------------
(***************************************************************************)
(* The echo example: MessageBridge with one FsmTask, whose machine numbers *)
(* the messages it echoes, and with the checks main makes afterwards.      *)
(***************************************************************************)
EXTENDS MessageBridge

\* EchoStore::count, the only state of EchoMachine: a u64, in a width that holds every
\* count a run can reach.
Width  == Inputs + 1
Counts == 0..(Width - 1)
Bumped(count) == (count + 1) % Width

\* What EchoStore::echo formats, "echo {number}: {body}", is a number that tells the
\* number and the body; an input is its own index.
Echo(number, body) == Width * number + body
Payloads == 1..Inputs \cup {Echo(number, body) : number \in Counts, body \in 1..Inputs}

\* Variant: the counter is bumped on a tick too.
EchoStepCountingTicks(i, count, trigger) ==
    [ state |-> Bumped(count),
      outs  |-> IF trigger.msg = None THEN <<>>
                ELSE <<Echo(Bumped(count), trigger.msg)>> ]

\* EchoMachine::step: a message is dispatched to EchoGate::running, a tick is not.
EchoStep(i, count, trigger) ==
    IF trigger.msg = None THEN [state |-> count, outs |-> <<>>]
    ELSE [state |-> Bumped(count), outs |-> <<Echo(Bumped(count), trigger.msg)>>]

ASSUME ServiceAssumption ==
    /\ Stages = 1 /\ MState = Counts /\ MInit = 0
    /\ \A count \in Counts : \A trigger \in Triggers(1) :
           FsmStep(1, count, trigger) = EchoStep(1, count, trigger)

\* replay: a fresh machine over the triggers of the records that were read.
replay(read) ==
    LET f[n \in 0..Len(read)] ==
            IF n = 0 THEN [state |-> 0, outs |-> <<>>]
            ELSE LET r == EchoStep(1, f[n - 1].state, Recorded(read[n][0]))
                 IN  [state |-> r.state, outs |-> f[n - 1].outs \o r.outs]
    IN  f[Len(read)].outs

\* read_recorded: decoding ends without a word at a record that does not decode, be it
\* the end of the log or damaged.
read_recorded(damaged) == SubSeq(log, 1, damaged - 1)

\* The outputs of the records that were read.
echo_outputs(read) ==
    LET f[n \in 0..Len(read)] ==
            IF n = 0 THEN <<>> ELSE f[n - 1] \o Held(read[n][1].payload)
    IN  f[Len(read)]

\* Variant: the replay is only compared with what the log holds.
main_without_diff(damaged) ==
    LET read == read_recorded(damaged)
    IN  CASE Len(live) # Inputs -> "live run did not echo every input"
          [] Len(live) = Inputs /\ replay(read) # echo_outputs(read) -> "replay diverged"
          [] OTHER -> "OK"

\* main, once run_live has returned: its assertions and the diff of live and replay.
main(damaged) ==
    LET read == read_recorded(damaged)
    IN  CASE Len(live) # Inputs -> "live run did not echo every input"
          [] Len(live) = Inputs /\ replay(read) # echo_outputs(read) -> "replay diverged"
          [] OTHER -> IF replay(read) = live THEN "OK" ELSE "FAILED"

-----------------------------------------------------------------------------
\* The gate is sound and notices damage that matters: with the log damaged at any
\* record, or past its end, main reports OK exactly if every input was echoed and no
\* echo is in the part that could not be read, and it never finds that the replay
\* diverged from the log (read_recorded, replay, main).
GateNoticesLostEchoes ==
    pc = "joined" => \A damaged \in 1..(Len(log) + 1) :
        /\ main(damaged) # "replay diverged"
        /\ main(damaged) = "OK" <=>
              /\ Len(live) = Inputs
              /\ \A n \in damaged..Len(log) : log[n][1].payload = None

\* The k-th echo is number k and carries input k (EchoGate::running, EchoStore::echo).
EchoesNumbered ==
    \A k \in 1..Len(live) : live[k] = Echo(k, k)

\* If input k is sent before the iteration after the k+1st begins, for each k, three
\* iterations more than there are inputs are enough to echo them all (run_live).
InTimeIsEchoed ==
    pc = "joined" /\ Len(sentAt) = Inputs /\ (\A k \in 1..Inputs : sentAt[k] <= k + Extra - 2)
        => Len(live) = Inputs

\* "run a few extra so all messages traverse ingress -> echo -> egress": main asserts
\* that the live run echoed every input.
EveryInputEchoed == pc = "joined" => Len(live) = Inputs
=============================================================================
