------------------------------ MODULE Startup ------------------------------
(***************************************************************************)
(* How an application gets the channel ends of its transport driver: the   *)
(* process-wide registry, the constructors of the bridge tasks, and the    *)
(* life of a driver thread.  Several builders of one process (main and a   *)
(* replay, the threads of a test binary) spawn a driver, install its two   *)
(* ends under the types of their tasks and build; an installation may find *)
(* its slot occupied, a build may fail at any task, and a builder may try  *)
(* again or build without having installed anything.                       *)
(***************************************************************************)
EXTENDS Naturals

CONSTANTS
    Builders,       \* callers of run_live, or of code like it
    Keys,           \* task types: the keys of the registry
    InKey, OutKey,  \* the ingress and the egress task type of each builder's application
    MaxTries,       \* bound: how many drivers each builder spawns
    None            \* an empty slot

ASSUME KeyAssumption ==
    /\ InKey \in [Builders -> Keys] /\ OutKey \in [Builders -> Keys]
    /\ \A b, c \in Builders : InKey[b] # OutKey[c]
ASSUME TriesAssumption == MaxTries \in [Builders -> Nat]

\* DriverHandles: the Receiver ("in") and the Sender ("out") of builder of's try-th driver.
End == [of : Builders, try : Nat, side : {"in", "out"}]

ASSUME NoneAssumption == None \notin End

VARIABLES
    slots,      \* SLOTS
    held,       \* the ends in each builder's locals or in the tasks of its application
    pc,         \* where each builder is in run_live
    attempt,    \* how many drivers it has spawned
    ended,      \* the drivers whose thread is over
    forgot      \* history: somebody has built without installing

vars == <<slots, held, pc, attempt, ended, forgot>>

EndOf(b, n, s) == [of |-> b, try |-> n, side |-> s]
Idle == {"idle", "failed", "panicked", "done"}

Init ==
    /\ slots = [k \in Keys |-> None]
    /\ held = [b \in Builders |-> {}]
    /\ pc = [b \in Builders |-> "idle"]
    /\ attempt = [b \in Builders |-> 0]
    /\ ended = {}
    /\ forgot = FALSE

\* The side whose task b is installing or constructing, and the type of that task.
Side(b)  == IF pc[b] \in {"install_in", "new_in"} THEN "in" ELSE "out"
KeyAt(b) == IF Side(b) = "in" THEN InKey[b] ELSE OutKey[b]

\* TransportDriver::spawn: the channels and the thread.
Spawn(b) ==
    /\ pc[b] \in Idle /\ attempt[b] < MaxTries[b]
    /\ attempt' = [attempt EXCEPT ![b] = @ + 1]
    /\ held' = [held EXCEPT ![b] = {EndOf(b, attempt[b] + 1, "in"), EndOf(b, attempt[b] + 1, "out")}]
    /\ pc' = [pc EXCEPT ![b] = "install_in"]
    /\ UNCHANGED <<slots, ended, forgot>>

\* Variant: install does not look.
NeverOccupied(k) == FALSE

Occupied(k) == slots[k] # None

\* registry::install, which holds the lock for all of it.
Install(b) ==
    /\ pc[b] \in {"install_in", "install_out"} /\ ~Occupied(KeyAt(b))
    /\ LET end == EndOf(b, attempt[b], Side(b))
       IN  /\ slots' = [slots EXCEPT ![KeyAt(b)] = end]
           /\ held' = [held EXCEPT ![b] = @ \ {end}]
    /\ pc' = [pc EXCEPT ![b] = IF Side(b) = "in" THEN "install_out" ELSE "new_in"]
    /\ UNCHANGED <<attempt, ended, forgot>>

\* The builder's stack unwinds, or its build returns: the ends it holds are dropped.
GiveUp(b, how) ==
    /\ held' = [held EXCEPT ![b] = {}]
    /\ pc' = [pc EXCEPT ![b] = how]
    /\ UNCHANGED <<attempt, ended, forgot>>

\* install's panic, after the lock was released.
InstallPanics(b) ==
    /\ pc[b] \in {"install_in", "install_out"} /\ Occupied(KeyAt(b))
    /\ GiveUp(b, "panicked")
    /\ UNCHANGED slots

\* A caller that builds the runtime without an install, for a replay or a second try, say,
\* which the documentation of registry warns of and nothing in the repository does.
BuildAnyway(b) ==
    /\ pc[b] \in Idle
    /\ pc' = [pc EXCEPT ![b] = "new_in"]
    /\ forgot' = TRUE
    /\ UNCHANGED <<slots, held, attempt, ended>>

\* Variant: take returns what it leaves in the slot.
StillThere(k) == slots

Emptied(k) == [slots EXCEPT ![k] = None]

\* The constructor of a bridge task takes its end; the egress task is the last of the graph.
New(b) ==
    /\ pc[b] \in {"new_in", "new_out"} /\ slots[KeyAt(b)] # None
    /\ held' = [held EXCEPT ![b] = @ \cup {slots[KeyAt(b)]}]
    /\ slots' = Emptied(KeyAt(b))
    /\ pc' = [pc EXCEPT ![b] = IF Side(b) = "in" THEN "new_out" ELSE "running"]
    /\ UNCHANGED <<attempt, ended, forgot>>

\* build returns Err before this task's take: nothing is installed, max_batch is 0, or
\* another task or the logger refuses.
NewFails(b) ==
    /\ pc[b] \in {"new_in", "new_out"}
    /\ GiveUp(b, "failed")
    /\ UNCHANGED slots

\* take with another type than was installed: the slot is emptied before the downcast.
TakeIllTyped(b) ==
    /\ pc[b] \in {"new_in", "new_out"} /\ slots[KeyAt(b)] # None
    /\ slots' = Emptied(KeyAt(b))
    /\ GiveUp(b, "failed")

\* A failed start_all_tasks, run_one_iteration or stop_all_tasks: main expects all three.
RunPanics(b) == pc[b] = "running" /\ GiveUp(b, "panicked") /\ UNCHANGED slots

\* Variant: join without dropping the application.
StopAndKeep(b) ==
    /\ pc[b] = "running"
    /\ pc' = [pc EXCEPT ![b] = "joining"]
    /\ UNCHANGED <<slots, held, attempt, ended, forgot>>

\* run_live drops the application, and with it both ends.
StopAndDrop(b) == pc[b] = "running" /\ GiveUp(b, "joining") /\ UNCHANGED slots

Join(b) ==
    /\ pc[b] = "joining" /\ <<b, attempt[b]>> \in ended
    /\ pc' = [pc EXCEPT ![b] = "done"]
    /\ UNCHANGED <<slots, held, attempt, ended, forgot>>

Parked(e) == \E k \in Keys : slots[k] = e
Live(e)   == Parked(e) \/ \E b \in Builders : e \in held[b]

ThreadEnds(b, n) ==
    /\ n <= attempt[b] /\ <<b, n>> \notin ended
    /\ ended' = ended \cup {<<b, n>>}
    /\ UNCHANGED <<slots, held, pc, attempt, forgot>>

\* Transport::run returns when its receiver is disconnected.
Disconnected(b, n) == ~Live(EndOf(b, n, "out")) /\ ThreadEnds(b, n)

\* Transport::run returns for a reason of its own.
TransportFails(b, n) == Live(EndOf(b, n, "out")) /\ ThreadEnds(b, n)

Next ==
    \/ \E b \in Builders :
         \/ Spawn(b) \/ Install(b) \/ InstallPanics(b) \/ BuildAnyway(b)
         \/ New(b) \/ NewFails(b) \/ TakeIllTyped(b)
         \/ RunPanics(b) \/ StopAndDrop(b) \/ Join(b)
    \/ \E b \in Builders : \E n \in 1..MaxTries[b] : Disconnected(b, n) \/ TransportFails(b, n)

Spec == Init /\ [][Next]_vars

\* A thread that can run runs in the end; nobody has to build, stop or fail.
FairSpec ==
    /\ Spec
    /\ \A b \in Builders : WF_vars(Join(b))
    /\ \A b \in Builders : \A n \in 1..MaxTries[b] : WF_vars(Disconnected(b, n))

-----------------------------------------------------------------------------
TypeOK ==
    /\ slots \in [Keys -> End \cup {None}]
    /\ held \in [Builders -> SUBSET End]
    /\ pc \in [Builders -> Idle \cup {"install_in", "install_out", "new_in", "new_out",
                                       "running", "joining"}]
    /\ attempt \in [Builders -> Nat]
    /\ ended \subseteq Builders \X Nat
    /\ forgot \in BOOLEAN

\* If everybody installs before building, an application has the two ends of the driver
\* its builder spawned last, whoever else installs, fails or panics (install, take).
OwnApplication ==
    ~forgot => \A b \in Builders : pc[b] = "running" =>
        held[b] = {EndOf(b, attempt[b], "in"), EndOf(b, attempt[b], "out")}

\* A channel end is in one place: two applications never share one (take consumes a slot).
EndsOnce ==
    /\ \A b \in Builders : \A e \in held[b] :
         ~Parked(e) /\ \A c \in Builders \ {b} : e \notin held[c]
    /\ \A k, l \in Keys : slots[k] = slots[l] /\ slots[k] # None => k = l

\* If everybody installs before building, an end leaves the slot it is parked in only by
\* a step of the builder that parked it, whatever a failed build has left there (install).
ParkedIsSafe ==
    [][\A k \in Keys : ~forgot' /\ slots[k] # None /\ slots'[k] # slots[k] =>
          slots'[k] = None /\ pc'[slots[k].of] # pc[slots[k].of]]_vars

\* Nor does a build that has succeeded leave anything of its driver in the registry.
CleanRunLeavesNothing ==
    ~forgot => \A b \in Builders : pc[b] \in {"running", "joining", "done"} =>
        \A s \in {"in", "out"} : ~Parked(EndOf(b, attempt[b], s))

\* Dropping the application ends the driver, so run_live's join returns (drop, join).
JoinReturns == \A b \in Builders : pc[b] = "joining" ~> pc[b] = "done" \/ forgot
=============================================================================
