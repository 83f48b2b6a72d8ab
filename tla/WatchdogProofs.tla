--------------------------- MODULE WatchdogProofs ---------------------------
(***************************************************************************)
(* Proofs that the statig watchdog implements the supervision, for every   *)
(* timeout and every sequence of cycles.                                   *)
(*                                                                         *)
(* The invariant says what the machine looks like in the middle of a       *)
(* cycle: unchanged before the first feed is dispatched, armed with the    *)
(* time of the cycle after it, and settled once the check is made.         *)
(***************************************************************************)
EXTENDS Watchdog, SequenceTheorems, TLAPS

Alarm == {Armed, Recovered} \cup {Tripped(ns) : ns \in 0..MaxClock}

Times == (0..MaxClock) \cup {None}

\* The gate is what the last feed and the time say.
Settled(m) == m.gate = Supervised!Mode(m.last_feed_ns, m.now_ns)

Report(old, new, ns) == Supervised!Report(old, new, ns)

\* The machine between two cycles.
WasInv ==
    /\ was.emitted = <<>> /\ Settled(was)
    /\ was.last_feed_ns # None => was.last_feed_ns <= was.now_ns
    /\ was.now_ns <= machine.now_ns

\* No feed of the cycle has been dispatched, or at least one.
FeedsInv ==
    pc = "dispatch" =>
        IF left = feeds
        THEN /\ machine.gate = was.gate /\ machine.last_feed_ns = was.last_feed_ns
             /\ machine.emitted = <<>>
        ELSE /\ machine.gate = "armed" /\ machine.last_feed_ns = machine.now_ns
             /\ machine.emitted = Report(was.gate, "armed", 0)

\* The check has been made.
CheckedInv ==
    pc = "drain" =>
        /\ Settled(machine)
        /\ machine.last_feed_ns = IF feeds > 0 THEN machine.now_ns ELSE was.last_feed_ns
        /\ machine.emitted =
              Report(was.gate, machine.gate, machine.now_ns - machine.last_feed_ns)

RestInv == pc = "idle" => machine = was /\ feeds = 0

LastFedInv ==
    lastFed = IF pc # "idle" /\ feeds > 0 THEN machine.now_ns ELSE was.last_feed_ns

TypeInv ==
    /\ machine \in Machine /\ was \in Machine
    /\ pc \in {"idle", "dispatch", "drain"}
    /\ feeds \in 0..MaxFeeds /\ left \in 0..feeds
    /\ pc # "dispatch" => left = 0
    /\ alarms \in Seq(Alarm)
    /\ lastFed \in Times

SupInv == TypeInv /\ WasInv /\ FeedsInv /\ CheckedInv /\ RestInv /\ LastFedInv

-----------------------------------------------------------------------------
\* The parts of a machine.
LEMMA MachineParts ==
    ASSUME NEW m \in Machine
    PROVE  /\ m.gate \in Gates /\ m.last_feed_ns \in Times /\ m.now_ns \in 0..MaxClock
           /\ m.emitted \in Seq(Alarm)
           /\ m = [gate |-> m.gate, last_feed_ns |-> m.last_feed_ns,
                   now_ns |-> m.now_ns, emitted |-> m.emitted]
BY DEF Machine, Times, Alarm

LEMMA MachineOf ==
    ASSUME NEW g \in Gates, NEW l \in Times, NEW t \in 0..MaxClock, NEW e \in Seq(Alarm)
    PROVE  [gate |-> g, last_feed_ns |-> l, now_ns |-> t, emitted |-> e] \in Machine
BY DEF Machine, Times, Alarm

LEMMA TimesAreInts ==
    ASSUME NEW t \in 0..MaxClock
    PROVE  t \in Nat /\ t # None /\ t \in Times
BY BoundAssumption, NoneAssumption DEF Times

LEMMA RecordFeedIs ==
    ASSUME NEW m \in Machine
    PROVE  /\ record_feed(m) \in Machine
           /\ record_feed(m) = [gate |-> m.gate, last_feed_ns |-> m.now_ns,
                                now_ns |-> m.now_ns, emitted |-> m.emitted]
<1>1. record_feed(m) = [gate |-> m.gate, last_feed_ns |-> m.now_ns,
                        now_ns |-> m.now_ns, emitted |-> m.emitted]
  BY DEF record_feed, Machine
<1> QED BY <1>1, MachineParts, MachineOf, TimesAreInts

LEMMA PushIs ==
    ASSUME NEW m \in Machine, NEW a \in Alarm
    PROVE  /\ push(m, a) \in Machine
           /\ push(m, a) = [gate |-> m.gate, last_feed_ns |-> m.last_feed_ns,
                            now_ns |-> m.now_ns, emitted |-> Append(m.emitted, a)]
<1> DEFINE e == Append(m.emitted, a)
<1>1. push(m, a) = [m EXCEPT !.emitted = e] /\ e \in Seq(Alarm)
  BY MachineParts DEF push
<1> HIDE DEF e
<1>2. [m EXCEPT !.emitted = e] = [gate |-> m.gate, last_feed_ns |-> m.last_feed_ns,
                                  now_ns |-> m.now_ns, emitted |-> e]
  BY DEF Machine
<1>3. [gate |-> m.gate, last_feed_ns |-> m.last_feed_ns, now_ns |-> m.now_ns,
       emitted |-> e] \in Machine
  BY <1>1, MachineParts, MachineOf
<1> QED BY <1>1, <1>2, <1>3 DEF e

LEMMA TransitionIs ==
    ASSUME NEW m \in Machine, NEW g \in Gates
    PROVE  /\ Transition(m, g) \in Machine
           /\ Transition(m, g) = [gate |-> g, last_feed_ns |-> m.last_feed_ns,
                                  now_ns |-> m.now_ns, emitted |-> m.emitted]
<1>1. Transition(m, g) = [gate |-> g, last_feed_ns |-> m.last_feed_ns,
                          now_ns |-> m.now_ns, emitted |-> m.emitted]
  BY DEF Transition, Machine
<1> QED BY <1>1, MachineParts, MachineOf

\* A transition that pushes an alarm.
LEMMA AlarmIs ==
    ASSUME NEW m \in Machine, NEW g \in Gates, NEW a \in Alarm
    PROVE  LET h == Transition(push(m, a), g)
           IN  /\ h \in Machine
               /\ h = [gate |-> g, last_feed_ns |-> m.last_feed_ns, now_ns |-> m.now_ns,
                       emitted |-> Append(m.emitted, a)]
<1> DEFINE q == push(m, a)
<1>1. /\ q \in Machine /\ q.last_feed_ns = m.last_feed_ns /\ q.now_ns = m.now_ns
      /\ q.emitted = Append(m.emitted, a)
  BY PushIs
<1> HIDE DEF q
<1>2. /\ Transition(q, g) \in Machine
      /\ Transition(q, g) = [gate |-> g, last_feed_ns |-> q.last_feed_ns,
                             now_ns |-> q.now_ns, emitted |-> q.emitted]
  BY <1>1, TransitionIs
<1> QED BY <1>1, <1>2 DEF q

\* Whatever the state, a feed leaves the machine armed with the time of the cycle;
\* only a change of state pushes an alarm.
LEMMA FeedHandled ==
    ASSUME NEW m \in Machine
    PROVE  LET h == Handle(m, "Feed")
           IN  /\ h \in Machine /\ h.gate = "armed"
               /\ h.last_feed_ns = m.now_ns /\ h.now_ns = m.now_ns
               /\ h.emitted = IF m.gate = "armed" THEN m.emitted
                              ELSE IF m.gate = "idle" THEN Append(m.emitted, Armed)
                              ELSE Append(m.emitted, Recovered)
<1> DEFINE h == Handle(m, "Feed")
           e == IF m.gate = "armed" THEN m.emitted
                ELSE IF m.gate = "idle" THEN Append(m.emitted, Armed)
                ELSE Append(m.emitted, Recovered)
<1>1. m.gate \in {"idle", "armed", "tripped"}
  BY MachineParts DEF Gates
<1>2. h = [gate |-> "armed", last_feed_ns |-> m.now_ns, now_ns |-> m.now_ns, emitted |-> e]
  <2> DEFINE r == record_feed(m)
  <2>0. /\ r \in Machine /\ r.last_feed_ns = m.now_ns /\ r.now_ns = m.now_ns
        /\ r.emitted = m.emitted /\ Armed \in Alarm /\ Recovered \in Alarm /\ "armed" \in Gates
    BY RecordFeedIs DEF Alarm, Gates
  <2>1. CASE m.gate = "idle"
    <3>1. h = Transition(push(r, Armed), "armed")
      BY <2>1 DEF Handle, idle
    <3> HIDE DEF r, h
    <3>2. h = [gate |-> "armed", last_feed_ns |-> r.last_feed_ns, now_ns |-> r.now_ns,
               emitted |-> Append(r.emitted, Armed)]
      BY <2>0, <3>1, AlarmIs
    <3> QED BY <2>0, <2>1, <3>2
  <2>2. CASE m.gate = "armed"
    <3>1. h = r
      BY <2>2 DEF Handle, armed
    <3> QED BY <2>2, <3>1, RecordFeedIs
  <2>3. CASE m.gate = "tripped"
    <3>1. h = Transition(push(r, Recovered), "armed")
      BY <2>3 DEF Handle, tripped
    <3> HIDE DEF r, h
    <3>2. h = [gate |-> "armed", last_feed_ns |-> r.last_feed_ns, now_ns |-> r.now_ns,
               emitted |-> Append(r.emitted, Recovered)]
      BY <2>0, <3>1, AlarmIs
    <3> QED BY <2>0, <2>3, <3>2
  <2> QED BY <1>1, <2>1, <2>2, <2>3
<1>3. e \in Seq(Alarm)
  BY MachineParts DEF Alarm
<1>4. "armed" \in Gates /\ m.now_ns \in 0..MaxClock /\ m.now_ns \in Times
  BY MachineParts, TimesAreInts DEF Gates
<1> HIDE DEF e
<1>5. h \in Machine
  BY <1>2, <1>3, <1>4, MachineOf
<1> HIDE DEF h
<1>6. /\ h \in Machine /\ h.gate = "armed" /\ h.last_feed_ns = m.now_ns
      /\ h.now_ns = m.now_ns /\ h.emitted = e
  BY <1>2, <1>5
<1> QED BY <1>6 DEF h, e

\* A check trips an armed machine whose last feed is more than the timeout ago,
\* and does nothing else.
LEMMA CheckHandled ==
    ASSUME NEW m \in Machine,
           m.last_feed_ns # None => m.last_feed_ns <= m.now_ns
    PROVE  LET h    == Handle(m, "Check")
               trip == /\ m.gate = "armed" /\ m.last_feed_ns # None
                       /\ m.now_ns - m.last_feed_ns > TIMEOUT_NS
           IN  /\ h \in Machine
               /\ h.last_feed_ns = m.last_feed_ns /\ h.now_ns = m.now_ns
               /\ trip  => /\ h.gate = "tripped"
                           /\ h.emitted = Append(m.emitted, Tripped(m.now_ns - m.last_feed_ns))
               /\ ~trip => h.gate = m.gate /\ h.emitted = m.emitted
<1> DEFINE h    == Handle(m, "Check")
           trip == /\ m.gate = "armed" /\ m.last_feed_ns # None
                   /\ m.now_ns - m.last_feed_ns > TIMEOUT_NS
           ns   == m.now_ns - m.last_feed_ns
<1>1. m.gate \in {"idle", "armed", "tripped"}
  BY MachineParts DEF Gates
<1>2. m.now_ns \in 0..MaxClock /\ (m.last_feed_ns # None => m.last_feed_ns \in 0..MaxClock)
  BY MachineParts DEF Times
<1>3. m.last_feed_ns # None => silent_ns(m) = ns /\ ns \in 0..MaxClock
  BY <1>2, BoundAssumption DEF silent_ns
<1>4. CASE trip
  <2>1. expired(m) /\ silent_ns(m) = ns
    BY <1>3, <1>4 DEF expired
  <2>2. h = Transition(push(m, Tripped(ns)), "tripped")
    BY <1>4, <2>1 DEF Handle, armed
  <2>3. Tripped(ns) \in Alarm /\ "tripped" \in Gates
    BY <1>3, <1>4 DEF Alarm, Gates
  <2> HIDE DEF h, ns
  <2>4. /\ h \in Machine
        /\ h = [gate |-> "tripped", last_feed_ns |-> m.last_feed_ns, now_ns |-> m.now_ns,
                emitted |-> Append(m.emitted, Tripped(ns))]
    BY <2>2, <2>3, AlarmIs
  <2>5. /\ h \in Machine /\ h.gate = "tripped" /\ h.last_feed_ns = m.last_feed_ns
        /\ h.now_ns = m.now_ns /\ h.emitted = Append(m.emitted, Tripped(ns))
    BY <2>4
  <2> QED BY <1>4, <2>5 DEF h, ns
<1>5. CASE ~trip
  <2>1. ~(m.gate = "armed" /\ expired(m))
    BY <1>3, <1>5 DEF expired
  <2>2. h = m
    <3>1. "Check" # "Feed"
      OBVIOUS
    <3>2. idle(m, "Check") = m /\ tripped(m, "Check") = m
      BY <3>1 DEF idle, tripped
    <3>3. m.gate = "armed" => armed(m, "Check") = m
      BY <2>1, <3>1 DEF armed
    <3> QED BY <1>1, <3>2, <3>3 DEF Handle
  <2> QED BY <1>5, <2>2
<1> QED BY <1>4, <1>5

-----------------------------------------------------------------------------
LEMMA DefaultIsMachine ==
    /\ MachineDefault \in Machine /\ MachineDefault.emitted = <<>>
    /\ MachineDefault.gate = "idle" /\ MachineDefault.last_feed_ns = None
    /\ MachineDefault.now_ns = 0
<1>1. /\ "idle" \in Gates /\ None \in Times /\ 0 \in 0..MaxClock /\ <<>> \in Seq(Alarm)
  BY BoundAssumption DEF Gates, Times
<1>2. MachineDefault \in Machine
  BY <1>1, MachineOf DEF MachineDefault
<1> QED BY <1>2 DEF MachineDefault

LEMMA SupInit == Init => SupInv
<1> SUFFICES ASSUME Init PROVE SupInv
  OBVIOUS
<1>1. Settled(MachineDefault)
  BY DefaultIsMachine DEF Settled, Supervised!Mode
<1>2. TypeInv
  BY DefaultIsMachine, BoundAssumption DEF Init, TypeInv, Times
<1>3. WasInv
  BY <1>1, DefaultIsMachine DEF Init, WasInv
<1>4. FeedsInv /\ CheckedInv /\ RestInv /\ LastFedInv
  BY DefaultIsMachine DEF Init, FeedsInv, CheckedInv, RestInv, LastFedInv
<1> QED BY <1>2, <1>3, <1>4 DEF SupInv

LEMMA SupBegin ==
    ASSUME SupInv, NEW t \in machine.now_ns..MaxClock, NEW k \in 0..MaxFeeds, BeginCycle(t, k)
    PROVE  SupInv'
<1>1. /\ pc = "idle" /\ machine = was /\ pc' = "dispatch" /\ feeds' = k /\ left' = k
      /\ UNCHANGED <<alarms, was>> /\ machine' = [machine EXCEPT !.now_ns = t]
      /\ lastFed' = IF k > 0 THEN t ELSE lastFed
      /\ machine \in Machine
  BY DEF BeginCycle, SupInv, RestInv, TypeInv
<1>2. machine.now_ns \in 0..MaxClock /\ machine.now_ns \in Nat
  BY <1>1, MachineParts, BoundAssumption
<1>3. t \in 0..MaxClock /\ machine.now_ns <= t /\ k \in Nat
  BY <1>2, BoundAssumption
<1>4. machine' = [gate |-> machine.gate, last_feed_ns |-> machine.last_feed_ns,
                  now_ns |-> t, emitted |-> machine.emitted]
  BY <1>1 DEF Machine
<1>5. machine' \in Machine
  BY <1>1, <1>3, <1>4, MachineParts, MachineOf
<1>6. TypeInv'
  <2>1. lastFed' \in Times
    BY <1>1, <1>3, TimesAreInts DEF SupInv, TypeInv
  <2>2. k \in 0..k
    BY <1>3
  <2> QED BY <1>1, <1>5, <2>1, <2>2 DEF SupInv, TypeInv
<1>7. WasInv'
  BY <1>1, <1>3, <1>4 DEF SupInv, WasInv, Settled
<1>8. FeedsInv'
  BY <1>1, <1>4 DEF SupInv, WasInv, FeedsInv
<1>9. LastFedInv'
  BY <1>1, <1>4 DEF SupInv, LastFedInv
<1>10. CheckedInv' /\ RestInv'
  BY <1>1 DEF CheckedInv, RestInv
<1> QED BY <1>6, <1>7, <1>8, <1>9, <1>10 DEF SupInv

LEMMA SupFeed ==
    ASSUME SupInv, DispatchFeed
    PROVE  SupInv'
<1>1. /\ pc = "dispatch" /\ pc' = "dispatch" /\ machine' = Handle(machine, "Feed")
      /\ left > 0 /\ left' = left - 1 /\ UNCHANGED <<feeds, alarms, was, lastFed>>
      /\ machine \in Machine /\ was \in Machine /\ feeds \in Nat /\ left \in 0..feeds
  BY BoundAssumption DEF DispatchFeed, SupInv, TypeInv
<1>2. /\ machine' \in Machine /\ machine'.gate = "armed"
      /\ machine'.last_feed_ns = machine.now_ns /\ machine'.now_ns = machine.now_ns
      /\ machine'.emitted = IF machine.gate = "armed" THEN machine.emitted
                            ELSE IF machine.gate = "idle" THEN Append(machine.emitted, Armed)
                            ELSE Append(machine.emitted, Recovered)
  BY <1>1, FeedHandled
<1>3. left' \in 0..feeds /\ left' # feeds
  BY <1>1
<1>4. machine'.emitted = Report(was.gate, "armed", 0)
  <2>1. CASE left = feeds
    <3>1. machine.gate = was.gate /\ machine.emitted = <<>>
      BY <1>1, <2>1 DEF SupInv, FeedsInv
    <3>2. was.gate \in {"idle", "armed", "tripped"}
      BY <1>1, MachineParts DEF Gates
    <3> QED BY <1>2, <3>1, <3>2
            DEF Report, Supervised!Report, Supervised!Armed, Supervised!Recovered, Armed, Recovered
  <2>2. CASE left # feeds
    BY <1>1, <1>2, <2>2 DEF SupInv, FeedsInv
  <2> QED BY <2>1, <2>2
<1>5. TypeInv'
  BY <1>1, <1>2, <1>3 DEF SupInv, TypeInv
<1>6. WasInv' /\ LastFedInv'
  BY <1>1, <1>2 DEF SupInv, WasInv, LastFedInv, Settled
<1>7. FeedsInv'
  BY <1>1, <1>2, <1>3, <1>4 DEF FeedsInv, Report
<1>8. CheckedInv' /\ RestInv'
  BY <1>1 DEF CheckedInv, RestInv
<1> QED BY <1>5, <1>6, <1>7, <1>8 DEF SupInv

LEMMA SupCheck ==
    ASSUME SupInv, DispatchCheck
    PROVE  SupInv'
<1> DEFINE l == machine.last_feed_ns
           t == machine.now_ns
           trip == machine.gate = "armed" /\ l # None /\ t - l > TIMEOUT_NS
<1>1. /\ pc = "dispatch" /\ pc' = "drain" /\ machine' = Handle(machine, "Check")
      /\ left = 0 /\ UNCHANGED <<feeds, left, alarms, was, lastFed>>
      /\ machine \in Machine /\ was \in Machine /\ feeds \in Nat
  BY BoundAssumption DEF DispatchCheck, SupInv, TypeInv
<1>2. /\ t \in Nat /\ was.now_ns \in Nat /\ was.now_ns <= t /\ TIMEOUT_NS \in Nat
      /\ l # None => l \in Nat
      /\ was.last_feed_ns # None => was.last_feed_ns \in Nat /\ was.last_feed_ns <= was.now_ns
  <2>1. /\ t \in 0..MaxClock /\ was.now_ns \in 0..MaxClock
        /\ l \in Times /\ was.last_feed_ns \in Times
    BY <1>1, MachineParts
  <2> QED BY <2>1, TimeoutAssumption, BoundAssumption DEF SupInv, WasInv, Times
<1>3. was.gate = Supervised!Mode(was.last_feed_ns, was.now_ns)
  BY DEF SupInv, WasInv, Settled
\* No feed in this cycle.
<1>4. CASE feeds = 0
  <2>1. machine.gate = was.gate /\ l = was.last_feed_ns /\ machine.emitted = <<>>
    BY <1>1, <1>4 DEF SupInv, FeedsInv
  <2>2. l # None => l <= t
    BY <1>2, <2>1
  <2>3. /\ machine' \in Machine /\ machine'.last_feed_ns = l /\ machine'.now_ns = t
        /\ trip  => machine'.gate = "tripped" /\ machine'.emitted = Append(<<>>, Tripped(t - l))
        /\ ~trip => machine'.gate = was.gate /\ machine'.emitted = <<>>
    BY <1>1, <2>1, <2>2, CheckHandled
  <2>4. machine'.gate = Supervised!Mode(l, t)
    BY <1>2, <1>3, <2>1, <2>3 DEF Supervised!Mode
  <2>5. machine'.emitted = Report(was.gate, machine'.gate, t - l)
    <3>1. CASE trip
      BY <2>1, <2>3, <3>1 DEF Report, Supervised!Report, Supervised!Tripped, Tripped
    <3>2. CASE ~trip
      BY <2>3, <3>2 DEF Report, Supervised!Report
    <3> QED BY <3>1, <3>2
  <2> HIDE DEF l, t, trip
  <2>6. CheckedInv'
    BY <1>1, <1>4, <2>1, <2>3, <2>4, <2>5 DEF CheckedInv, Settled, Report
  <2>7. TypeInv' /\ WasInv' /\ LastFedInv'
    BY <1>1, <1>2, <1>4, <2>3 DEF SupInv, TypeInv, WasInv, LastFedInv, Settled, t
  <2> QED BY <1>1, <2>6, <2>7 DEF SupInv, FeedsInv, RestInv
\* At least one.
<1>5. CASE feeds > 0
  <2>1. machine.gate = "armed" /\ l = t /\ machine.emitted = Report(was.gate, "armed", 0)
    BY <1>1, <1>5 DEF SupInv, FeedsInv
  <2>2. ~trip /\ (l # None => l <= t)
    BY <1>2, <2>1
  <2>3. /\ machine' \in Machine /\ machine'.last_feed_ns = l /\ machine'.now_ns = t
        /\ machine'.gate = "armed" /\ machine'.emitted = machine.emitted
    BY <1>1, <2>1, <2>2, CheckHandled
  <2>4. machine'.gate = Supervised!Mode(l, t)
    <3>1. t # None
      BY <1>2, NoneAssumption
    <3> QED BY <1>2, <2>1, <2>3, <3>1 DEF Supervised!Mode
  <2>5. machine'.emitted = Report(was.gate, machine'.gate, t - l)
    BY <2>1, <2>3 DEF Report, Supervised!Report
  <2> HIDE DEF l, t, trip
  <2>6. CheckedInv'
    BY <1>1, <1>5, <2>1, <2>3, <2>4, <2>5 DEF CheckedInv, Settled, Report
  <2>7. TypeInv' /\ WasInv' /\ LastFedInv'
    BY <1>1, <1>2, <1>5, <2>3 DEF SupInv, TypeInv, WasInv, LastFedInv, Settled, t
  <2> QED BY <1>1, <2>6, <2>7 DEF SupInv, FeedsInv, RestInv
<1> QED BY <1>1, <1>4, <1>5

LEMMA SupDrain ==
    ASSUME SupInv, DrainEmitted
    PROVE  SupInv'
<1> DEFINE m == [machine EXCEPT !.emitted = <<>>]
<1>1. /\ pc = "drain" /\ pc' = "idle" /\ machine' = m /\ was' = m
      /\ alarms' = alarms \o machine.emitted /\ feeds' = 0 /\ UNCHANGED <<left, lastFed>>
      /\ machine \in Machine /\ left = 0 /\ alarms \in Seq(Alarm)
  BY DEF DrainEmitted, SupInv, TypeInv
<1>2. /\ m.gate = machine.gate /\ m.last_feed_ns = machine.last_feed_ns
      /\ m.now_ns = machine.now_ns /\ m.emitted = <<>> /\ m \in Machine
  <2>1. m = [gate |-> machine.gate, last_feed_ns |-> machine.last_feed_ns,
             now_ns |-> machine.now_ns, emitted |-> <<>>]
    <3>1. ASSUME NEW x \in Machine
          PROVE  [x EXCEPT !.emitted = <<>>]
                    = [gate |-> x.gate, last_feed_ns |-> x.last_feed_ns, now_ns |-> x.now_ns,
                       emitted |-> <<>>]
      BY ONLY x \in Machine DEF Machine
    <3> QED BY <1>1, <3>1
  <2>2. <<>> \in Seq(Alarm)
    OBVIOUS
  <2>3. /\ machine.gate \in Gates /\ machine.last_feed_ns \in Times
        /\ machine.now_ns \in 0..MaxClock
    BY <1>1, MachineParts
  <2> HIDE DEF m
  <2>4. m \in Machine
    BY <2>1, <2>2, <2>3, MachineOf
  <2> QED BY <2>1, <2>4
<1>3. machine.now_ns \in Nat /\ was.now_ns \in Nat
  <2>1. machine.now_ns \in 0..MaxClock /\ was.now_ns \in 0..MaxClock
    BY MachineParts DEF SupInv, TypeInv
  <2> QED BY <2>1, BoundAssumption
<1> HIDE DEF m
<1>4. TypeInv'
  <2>1. alarms' \in Seq(Alarm)
    BY <1>1, MachineParts, ConcatProperties
  <2> QED BY <1>1, <1>2, <2>1, BoundAssumption DEF SupInv, TypeInv
<1>5. WasInv'
  <2>1. was.last_feed_ns # None => was.last_feed_ns \in Nat /\ was.last_feed_ns <= machine.now_ns
    <3>1. was.last_feed_ns \in Times
      BY MachineParts DEF SupInv, TypeInv
    <3> QED BY <1>3, <3>1, BoundAssumption DEF SupInv, WasInv, Times
  <2>2. Settled(m)
    BY <1>1, <1>2 DEF SupInv, CheckedInv, Settled
  <2>3. machine.last_feed_ns # None => machine.last_feed_ns <= machine.now_ns
    BY <1>1, <1>3, <2>1 DEF SupInv, CheckedInv
  <2>4. m.last_feed_ns # None => m.last_feed_ns <= m.now_ns
    BY <1>2, <2>3
  <2>5. m.now_ns <= m.now_ns
    BY <1>2, <1>3
  <2> QED BY <1>1, <1>2, <2>2, <2>4, <2>5 DEF WasInv, Settled
<1>6. LastFedInv'
  BY <1>1, <1>2 DEF SupInv, LastFedInv, CheckedInv
<1>7. FeedsInv' /\ CheckedInv' /\ RestInv'
  BY <1>1 DEF FeedsInv, CheckedInv, RestInv
<1> QED BY <1>4, <1>5, <1>6, <1>7 DEF SupInv

LEMMA SupStutter ==
    ASSUME SupInv, UNCHANGED vars
    PROVE  SupInv'
BY DEF vars, SupInv, TypeInv, WasInv, FeedsInv, CheckedInv, RestInv, LastFedInv, Settled

\* The invariant is inductive.
LEMMA SupStep == SupInv /\ [Next]_vars => SupInv'
BY SupBegin, SupFeed, SupCheck, SupDrain, SupStutter DEF Next

LEMMA SupAlways == Spec => []SupInv
<1>1. Init => SupInv
  BY SupInit
<1>2. SupInv /\ [Next]_vars => SupInv'
  BY SupStep
<1> QED BY <1>1, <1>2, PTL DEF Spec

-----------------------------------------------------------------------------
\* A report has at most one alarm.
LEMMA ReportIsShort ==
    ASSUME NEW old, NEW new, NEW ns
    PROVE  Len(Report(old, new, ns)) <= 1
BY DEF Report, Supervised!Report

\* Every variable has its type, a cycle never has more than one alarm in the
\* context of the statig machine, and none is left there between two cycles.
THEOREM WatchdogTypes == Spec => []TypeOK
<1>1. SupInv => TypeOK
  <2> SUFFICES ASSUME SupInv PROVE TypeOK
    OBVIOUS
  <2>1. Len(machine.emitted) <= 1
    <3>1. CASE pc = "idle" \/ (pc = "dispatch" /\ left = feeds)
      BY <3>1 DEF SupInv, RestInv, WasInv, FeedsInv
    <3>2. CASE pc = "dispatch" /\ left # feeds
      BY <3>2, ReportIsShort DEF SupInv, FeedsInv
    <3>3. CASE pc = "drain"
      BY <3>3, ReportIsShort DEF SupInv, CheckedInv
    <3> QED BY <3>1, <3>2, <3>3 DEF SupInv, TypeInv
  <2> QED BY <2>1 DEF SupInv, TypeInv, RestInv, WasInv, TypeOK, Alarm, Times
<1> QED BY <1>1, SupAlways, PTL

\* Between two cycles the statig state is settled by the time of the last cycle
\* with a feed and the present time: no expiry is missed and no trip is early.
THEOREM GateSettled == Spec => []GateFollowsFeeds
<1>1. SupInv => GateFollowsFeeds
  BY DEF SupInv, RestInv, WasInv, LastFedInv, Settled, GateFollowsFeeds
<1> QED BY <1>1, SupAlways, PTL

-----------------------------------------------------------------------------
LEMMA MapsInit == Init => Supervised!Init
BY DefaultIsMachine DEF Init, Supervised!Init

\* The end of a cycle is a cycle of the supervision.
LEMMA MapsDrain ==
    ASSUME SupInv, DrainEmitted
    PROVE  Supervised!Next
<1> DEFINE t    == machine.now_ns
           fed  == feeds > 0
           last == IF fed THEN t ELSE was.last_feed_ns
           old  == Supervised!Mode(was.last_feed_ns, was.now_ns)
           new  == Supervised!Mode(last, t)
<1>1. /\ was' = [machine EXCEPT !.emitted = <<>>] /\ alarms' = alarms \o machine.emitted
      /\ machine \in Machine /\ was \in Machine /\ pc = "drain"
  BY DEF DrainEmitted, SupInv, TypeInv
<1>2. was'.now_ns = t /\ was'.last_feed_ns = machine.last_feed_ns
  BY <1>1 DEF Machine
<1>3. machine.last_feed_ns = last /\ was.gate = old /\ machine.gate = new
  BY <1>1 DEF SupInv, WasInv, CheckedInv, Settled
<1>4. alarms' = alarms \o Supervised!Report(old, new, t - last)
  <2>1. machine.emitted = Report(was.gate, machine.gate, t - machine.last_feed_ns)
    BY <1>1 DEF SupInv, CheckedInv
  <2> QED BY <1>1, <1>3, <2>1 DEF Report
<1>5. t \in was.now_ns..MaxClock
  <2>1. t \in 0..MaxClock /\ was.now_ns \in 0..MaxClock /\ was.now_ns <= t
    BY <1>1, MachineParts DEF SupInv, WasInv
  <2> QED BY <2>1, BoundAssumption
<1>6. was'.last_feed_ns = last
  BY <1>2, <1>3
<1> HIDE DEF old, new
<1>7. Supervised!Cycle(t, fed)
  BY <1>2, <1>4, <1>6 DEF Supervised!Cycle, old, new
<1>8. fed \in BOOLEAN
  OBVIOUS
<1> HIDE DEF t, fed
<1> QED BY <1>5, <1>7, <1>8 DEF Supervised!Next

\* Any other step leaves what the supervision sees as it was.
LEMMA MapsStep ==
    SupInv /\ [Next]_vars
        => [Supervised!Next]_<<was.now_ns, was.last_feed_ns, alarms>>
<1> SUFFICES ASSUME SupInv, [Next]_vars
             PROVE  Supervised!Next \/ UNCHANGED <<was.now_ns, was.last_feed_ns, alarms>>
  OBVIOUS
<1>1. CASE DrainEmitted
  BY <1>1, MapsDrain
<1>2. CASE \E t \in machine.now_ns..MaxClock, k \in 0..MaxFeeds : BeginCycle(t, k)
  BY <1>2 DEF BeginCycle
<1>3. CASE DispatchFeed \/ DispatchCheck
  BY <1>3 DEF DispatchFeed, DispatchCheck
<1>4. CASE UNCHANGED vars
  BY <1>4 DEF vars
<1> QED BY <1>1, <1>2, <1>3, <1>4 DEF Next

\* The watchdog implements the supervision: cycle by cycle its alarms report the
\* changes of a mode that depends on the last feed and the time alone.
THEOREM Implements == Spec => ImplementsSupervision
<1>1. Init => Supervised!Init
  BY MapsInit
<1>2. SupInv /\ [Next]_vars => [Supervised!Next]_<<was.now_ns, was.last_feed_ns, alarms>>
  BY MapsStep
<1> QED BY <1>1, <1>2, SupAlways, PTL DEF Spec, ImplementsSupervision, Supervised!Spec
=============================================================================
