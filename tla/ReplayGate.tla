----------------------------- MODULE ReplayGate -----------------------------
(***************************************************************************)
(* Reading a unified log back, and replaying it: read_copperlists and      *)
(* replay_gate, as functions.                                              *)
(*                                                                         *)
(* A log file is a sequence of records.  A record is "whole"; or it is     *)
(* "cut", when the file ends inside it; "overrun", when damaged bytes, of  *)
(* a length for example, make the decoder ask for more than the rest of    *)
(* the file; or "corrupt", when they fail to decode in any other way.      *)
(***************************************************************************)
EXTENDS Integers, Sequences, FiniteSets

CONSTANTS
    MInit,         \* the fresh machine that the gate replays with
    FsmStep(_, _)  \* run_step_all on it: its next state, and what it emits

\* Variant: every decode error is the end of the log.
LogEndAlwaysEof(file) == "Eof"

\* The first record that does not decode, or one past the last.
Stops(file) ==
    CHOOSE n \in 1..(Len(file) + 1) :
        /\ n <= Len(file) => file[n].bytes # "whole"
        /\ \A k \in 1..(n - 1) : file[k].bytes = "whole"

\* The damage that decodes to UnexpectedEnd or UnexpectedEof: the bytes run out.
RunsOut == {"cut", "overrun"}

\* How read_copperlists ends: where the bytes run out it takes it for the end of the
\* log, and any other decode error for an error.
LogEnd(file) ==
    LET n == Stops(file)
    IN  IF n <= Len(file) /\ file[n].bytes \notin RunsOut THEN "Error" ELSE "Eof"

\* The copperlists it has decoded by then.
read_copperlists(file) == [n \in 1..(Stops(file) - 1) |-> file[n].copperlist]

-----------------------------------------------------------------------------
\* The machine before each step of the replay, from the fresh one on.
States(recorded) ==
    LET m[n \in 1..Len(recorded)] ==
            IF n = 1 THEN MInit ELSE FsmStep(m[n - 1], recorded[n - 1].input).state
    IN  m

\* Variant: only the last step is compared.
DivergentAtEnd(recorded) ==
    { n \in {Len(recorded)} \ {0} :
        FsmStep(States(recorded)[n], recorded[n].input).outs # recorded[n].output }

\* The steps whose replayed output differs from the recording; a divergence does not
\* end the replay.
Divergent(recorded) ==
    { n \in 1..Len(recorded) :
        FsmStep(States(recorded)[n], recorded[n].input).outs # recorded[n].output }

\* Variant: ids only have to go up.
IdGapsBackwards(recorded) ==
    { n \in 2..Len(recorded) : recorded[n].id <= recorded[n - 1].id }

\* Where the copperlist ids are not consecutive.
IdGaps(recorded) == { n \in 2..Len(recorded) : recorded[n].id # recorded[n - 1].id + 1 }

\* GateReport
replay_gate(recorded) ==
    [ steps     |-> Len(recorded),
      divergent |-> Cardinality(Divergent(recorded)),
      id_gaps   |-> IdGaps(recorded) ]

passed(report) == report.steps > 0 /\ report.divergent = 0 /\ report.id_gaps = {}
=============================================================================
