------------------------------ MODULE RtConfig ------------------------------
(***************************************************************************)
(* RtConfig::apply on the current thread, as a function.                   *)
(*                                                                         *)
(* A thread has the set of cores it may run on and its SCHED_FIFO          *)
(* priority, Unset for SCHED_OTHER.  It starts with those of the thread    *)
(* that spawned it: a driver thread, on which TransportDriver calls apply  *)
(* and discards the result, with those of the builder of the application.  *)
(* A host says whether the cores of a thread can be listed, which of them  *)
(* refuse a thread although they are listed (one that went offline, say),  *)
(* and whether SCHED_FIFO is allowed.                                      *)
(***************************************************************************)
EXTENDS Integers, Sequences, FiniteSetsExt, SequencesExt

CONSTANTS
    Cores,         \* core ids
    Priorities,    \* the priorities that a configuration may ask for
    MaxAffinity,   \* bound: the length of an affinity list
    Unset          \* no priority, no error

\* The errors that apply may report.
Errors == ({"not available", "failed to pin"} \X Cores)
          \cup {"core ids unavailable", "invalid priority", "set SCHED_FIFO failed"}

ASSUME CoreAssumption ==
    /\ Cores \subseteq Nat /\ Priorities \subseteq Nat /\ MaxAffinity \in Nat
    /\ Unset \notin Nat \cup Errors

\* RtConfig: scheduler is Unset for SchedPolicy::Normal, prio for Fifo(prio).
Config == [ scheduler : Priorities \cup {Unset}, affinity : BoundedSeq(Cores, MaxAffinity) ]

\* The priorities that SCHED_FIFO has on Linux.
FifoRange == 1..99

Thread == [ cores : (SUBSET Cores) \ {{}}, fifo : (Priorities \cap FifoRange) \cup {Unset} ]
Host   == [ lists : BOOLEAN, refuse : SUBSET Cores, nice : BOOLEAN ]

-----------------------------------------------------------------------------
\* first_err.get_or_insert(e)
FirstErr(err, e) == IF err = Unset THEN e ELSE err

\* One round of the loop over affinity: ids is what get_core_ids returned before it.
Pin(done, want, ids, host) ==
    IF want \notin ids THEN [done EXCEPT !.err = FirstErr(@, <<"not available", want>>)]
    ELSE IF want \in host.refuse THEN [done EXCEPT !.err = FirstErr(@, <<"failed to pin", want>>)]
    ELSE [done EXCEPT !.thread.cores = {want}]

\* Variant: the cores are listed again for every entry.
PinAll_relisting(rt, th, host) ==
    LET done[n \in 0..Len(rt.affinity)] ==
            IF n = 0 THEN [thread |-> th, err |-> Unset]
            ELSE Pin(done[n - 1], rt.affinity[n], done[n - 1].thread.cores, host)
    IN  done[Len(rt.affinity)]

\* The affinity part of apply.
PinAll(rt, th, host) ==
    LET done[n \in 0..Len(rt.affinity)] ==
            IF n = 0 THEN [thread |-> th, err |-> Unset]
            ELSE Pin(done[n - 1], rt.affinity[n], th.cores, host)
    IN  done[Len(rt.affinity)]

\* set_fifo: what it makes of the thread's priority, or why it fails.
set_fifo(prio, host) ==
    IF prio > 99 THEN "invalid priority"
    ELSE IF prio \notin FifoRange \/ ~host.nice THEN "set SCHED_FIFO failed"
    ELSE Unset

apply(rt, th, host) ==
    LET pinned == IF rt.affinity # <<>> /\ ~host.lists
                  THEN [thread |-> th, err |-> "core ids unavailable"]
                  ELSE PinAll(rt, th, host)
        failed == set_fifo(rt.scheduler, host)
    IN  IF rt.scheduler = Unset THEN pinned
        ELSE IF failed = Unset THEN [pinned EXCEPT !.thread.fifo = rt.scheduler]
        ELSE [pinned EXCEPT !.err = FirstErr(@, failed)]

-----------------------------------------------------------------------------
\* What apply owes thread th, whatever it was before: pinned at all, it is on cores of
\* the list; it has the priority that it asked for and may have; a request that fails
\* changes nothing; Ok means that no request failed, and an error names the first one that
\* did.  Nothing is said of what a configuration leaves open: the class of the thread for
\* Normal, and its cores for an empty list.
AttemptsAll(th) ==
    \A rt \in Config, host \in Host :
        LET result == apply(rt, th, host)
            takes  == { i \in DOMAIN rt.affinity :
                          host.lists /\ rt.affinity[i] \in th.cores \ host.refuse }
            missed == DOMAIN rt.affinity \ takes
            fifo   == rt.scheduler \in FifoRange /\ host.nice
            denied == rt.scheduler # Unset /\ ~fifo
        IN  /\ takes # {} => result.thread.cores \subseteq {rt.affinity[i] : i \in takes}
            /\ takes = {} /\ missed # {} => result.thread.cores = th.cores
            /\ fifo => result.thread.fifo = rt.scheduler
            /\ denied => result.thread.fifo = th.fifo
            /\ result.err = Unset <=> missed = {} /\ ~denied
            /\ missed # {} /\ host.lists => result.err[2] = rt.affinity[Min(missed)]
            /\ missed # {} /\ ~host.lists => result.err = "core ids unavailable"
=============================================================================
