---------------------------- MODULE DriverThread ----------------------------
(***************************************************************************)
(* The thread of a transport driver: TransportDriver spawns it for a       *)
(* builder (Startup), and it applies its configuration to itself           *)
(* (RtConfig).                                                             *)
(***************************************************************************)
EXTENDS Startup, RtConfig

\* The first driver thread of the process has been spawned, and nothing else was done.
FirstDriver(b) ==
    /\ pc[b] = "install_in" /\ attempt[b] = 1 /\ ended = {} /\ ~forgot
    /\ \A c \in Builders \ {b} : pc[c] = "idle" /\ attempt[c] = 0

\* "Best-effort and non-panicking: returns Err(msg) describing the first failure but
\* always attempts both" (apply), whatever the settings that the driver thread has
\* inherited from its builder.  What apply makes of a thread is independent of the other
\* threads, so it is examined on the first driver.  Whether an Ok leaves the thread with
\* the settings that were asked for is another question (SpawnedThread).
BestEffort ==
    \A b \in Builders : FirstDriver(b) => \A inherited \in Thread : AttemptsAll(inherited)
=============================================================================
