--------------------------- MODULE SpawnedThread ---------------------------
(***************************************************************************)
(* One driver thread from its spawn to the end of its RtConfig::apply: the *)
(* thread has the settings of its builder, which the service may have      *)
(* started with any, and applies the configuration it was given.           *)
(***************************************************************************)
EXTENDS RtConfig

VARIABLES
    builder,   \* the thread that calls TransportDriver::spawn
    driver,    \* the driver thread, that of its builder before it is spawned
    rt,        \* its configuration
    host,      \* what the host allows
    pc,        \* "spawn", then "apply", then "run"
    err        \* what apply returned, Unset for Ok

vars == <<builder, driver, rt, host, pc, err>>

Init == /\ builder \in Thread /\ driver = builder
        /\ rt \in Config /\ host \in Host
        /\ pc = "spawn" /\ err = Unset

\* thread::spawn
Spawn == /\ pc = "spawn"
         /\ driver' = builder
         /\ pc' = "apply"
         /\ UNCHANGED <<builder, rt, host, err>>

\* rt.apply(), and on to transport.run whatever it returned
Apply == /\ pc = "apply"
         /\ LET result == apply(rt, driver, host)
            IN  driver' = result.thread /\ err' = result.err
         /\ pc' = "run"
         /\ UNCHANGED <<builder, rt, host>>

Next == Spawn \/ Apply

Spec == Init /\ [][Next]_vars

-----------------------------------------------------------------------------
\* "Core ids to pin this thread to", and SchedPolicy::Normal as the "Default time-sharing
\* scheduler (SCHED_OTHER)".
Pinned  == rt.affinity # <<>> => driver.cores = Range(rt.affinity)
Normal  == rt.scheduler = Unset => driver.fifo = Unset

\* An Ok from RtConfig::apply means by these words that both hold of the driver thread.
\* This says only that one of them does, so that one behaviour refutes both: every entry of
\* the list replaces the core before it, and Normal leaves the class that was inherited.
OkMeansConfigured == pc = "run" /\ err = Unset => Pinned \/ Normal
=============================================================================
