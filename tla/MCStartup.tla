----------------------------- MODULE MCStartup -----------------------------
(***************************************************************************)
(* Startup for TLC: two builders of the same application, and one of an    *)
(* application that shares only the egress task type with theirs; and      *)
(* RtConfig, for the thread of each of their drivers, on three cores.      *)
(***************************************************************************)
EXTENDS DriverThread

MCBuilders == 1..3
MCKeys == {"IngressTask", "CycleIngressTask", "EgressTask"}
MCInKey == [b \in MCBuilders |-> IF b = 3 THEN "CycleIngressTask" ELSE "IngressTask"]
MCOutKey == [b \in MCBuilders |-> "EgressTask"]
MCMaxTries == [b \in MCBuilders |-> IF b = 1 THEN 2 ELSE 1]

MCCores == 0..2
MCPriorities == {0, 50, 99, 100}
=============================================================================
