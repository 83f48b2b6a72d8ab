------------------------ MODULE WatchdogServiceProofs ------------------------
(***************************************************************************)
(* Proofs about WatchdogService, for every timeout, batch limit, channel   *)
(* and bound.                                                              *)
(*                                                                         *)
(* First WatchdogMachine::step in closed form; then what the machine knows *)
(* of the cycles and of the messages behind them, by which its alarms are  *)
(* true of its feeder.                                                     *)
(***************************************************************************)
EXTENDS WatchdogService, CycleBridgeEgressProofs, FiniteSetTheorems

-----------------------------------------------------------------------------
(***************************************************************************)
(* The machine and its handlers.                                           *)
(***************************************************************************)
Times == (0..MaxClock) \cup {None}

M(g, l, t, e) == [gate |-> g, last_feed_ns |-> l, now_ns |-> t, emitted |-> e]

LEMMA AlarmIs ==
    ASSUME NEW g, NEW l, NEW t, NEW e, NEW a, NEW h
    PROVE  Transition(push(M(g, l, t, e), a), h) = M(h, l, t, Append(e, a))
<1>1. push(M(g, l, t, e), a) = M(g, l, t, Append(e, a))
  <2>1. ASSUME NEW x PROVE [M(g, l, t, e) EXCEPT !.emitted = x] = M(g, l, t, x)
    BY DEF M
  <2>2. M(g, l, t, e).emitted = e
    BY DEF M
  <2> QED BY <2>1, <2>2 DEF push
<1>2. ASSUME NEW x PROVE Transition(M(g, l, t, x), h) = M(h, l, t, x)
  BY DEF Transition, M
<1> QED BY <1>1, <1>2

\* Whatever the state, a feed leaves the machine armed with the time of the cycle;
\* only a change of state pushes an alarm.
LEMMA FeedIs ==
    ASSUME NEW g \in Gates, NEW l, NEW t, NEW e
    PROVE  Handle(M(g, l, t, e), "Feed") =
              M("armed", t, t, IF g = "armed" THEN e
                               ELSE IF g = "idle" THEN Append(e, Armed)
                               ELSE Append(e, Recovered))
<1>1. g \in {"idle", "armed", "tripped"}
  BY DEF Gates
<1>2. record_feed(M(g, l, t, e)) = M(g, t, t, e)
  BY DEF record_feed, M
<1>3. ASSUME NEW a
      PROVE  Transition(push(M(g, t, t, e), a), "armed") = M("armed", t, t, Append(e, a))
  BY AlarmIs
<1>4. M(g, l, t, e).gate = g
  BY DEF M
<1>5. CASE g = "idle"
  BY <1>2, <1>3, <1>4, <1>5 DEF Handle, idle
<1>6. CASE g = "armed"
  BY <1>2, <1>4, <1>6 DEF Handle, armed
<1>7. CASE g = "tripped"
  BY <1>2, <1>3, <1>4, <1>7 DEF Handle, tripped
<1> QED BY <1>1, <1>5, <1>6, <1>7

\* A check trips an armed machine whose last feed is more than the timeout ago,
\* and does nothing else.
LEMMA CheckIs ==
    ASSUME NEW g \in Gates, NEW l \in Times, NEW t \in 0..MaxClock, NEW e,
           l # None => l <= t
    PROVE  Handle(M(g, l, t, e), "Check") =
              IF g = "armed" /\ l # None /\ t - l > TIMEOUT_NS
              THEN M("tripped", l, t, Append(e, Tripped(t - l))) ELSE M(g, l, t, e)
<1>1. g \in {"idle", "armed", "tripped"}
  BY DEF Gates
<1>2. M(g, l, t, e).gate = g
  BY DEF M
<1>3. /\ expired(M(g, l, t, e)) <=> l # None /\ t - l > TIMEOUT_NS
      /\ l # None => silent_ns(M(g, l, t, e)) = t - l
  BY BoundAssumption, TimeoutAssumption DEF expired, silent_ns, M, Times
<1>4. ASSUME NEW a
      PROVE  Transition(push(M(g, l, t, e), a), "tripped") = M("tripped", l, t, Append(e, a))
  BY AlarmIs
<1>5. CASE g # "armed"
  BY <1>1, <1>2, <1>5 DEF Handle, idle, tripped
<1>6. CASE g = "armed"
  BY <1>2, <1>3, <1>4, <1>6 DEF Handle, armed
<1> QED BY <1>5, <1>6

-----------------------------------------------------------------------------
(***************************************************************************)
(* WatchdogMachine::step in closed form.                                   *)
(***************************************************************************)
\* The feeds of a cycle after the first change nothing, so what is dispatched for a
\* cycle is, in effect, one feed if it has any, and then the check.
LEMMA AfterIs ==
    ASSUME NEW g \in Gates, NEW l, NEW s, NEW e, NEW c, NEW N \in Nat,
           c.events \in Seq(1..MaxSent), N = Len(c.events)
    PROVE  LET start == M(g, l, c.now_ns, e)
           IN  After(M(g, l, s, e), c) =
                  Handle(IF N = 0 THEN start ELSE Handle(start, "Feed"), "Check")
<1> DEFINE start == M(g, l, c.now_ns, e)
           once  == Handle(start, "Feed")
           fed   == IF N = 0 THEN start ELSE once
           Next1(f, n) == IF n = 0 THEN start ELSE Handle(f[n - 1], Dispatched(c)[n])
           closed == [n \in 0..(N + 1) |->
                        IF n = 0 THEN start ELSE IF n <= N THEN once ELSE Handle(fed, "Check")]
           f == CHOOSE h : h = [n \in 0..(N + 1) |-> Next1(h, n)]
<1>1. ASSUME NEW n \in 1..(N + 1)
      PROVE  Dispatched(c)[n] = IF n <= N THEN "Feed" ELSE "Check"
  <2> DEFINE feeds == [i \in 1..N |-> "Feed"]
  <2>1. feeds \in Seq({"Feed"}) /\ Len(feeds) = N /\ Len(<<"Check">>) = 1
    OBVIOUS
  <2>2. Dispatched(c) = feeds \o <<"Check">>
    BY DEF Dispatched
  <2>3. CASE n <= N
    BY <2>1, <2>2, <2>3
  <2>4. CASE n = N + 1
    BY <2>1, <2>2, <2>4
  <2> QED BY <2>3, <2>4
<1>2. Handle(once, "Feed") = once
  <2> DEFINE a == IF g = "armed" THEN e ELSE IF g = "idle" THEN Append(e, Armed)
                  ELSE Append(e, Recovered)
  <2>1. once = M("armed", c.now_ns, c.now_ns, a)
    BY FeedIs
  <2>2. "armed" \in Gates
    BY DEF Gates
  <2> HIDE DEF a, once
  <2> QED BY <2>1, <2>2, FeedIs
<1>3. M(g, l, s, e).emitted = e /\ start = [M(g, l, s, e) EXCEPT !.now_ns = c.now_ns]
  BY DEF M
<1>4. After(M(g, l, s, e), c) = f[N + 1]
  BY <1>3 DEF After
<1> HIDE DEF start, once
<1>5. closed = [n \in 0..(N + 1) |-> Next1(closed, n)]
  <2>1. ASSUME NEW n \in 0..(N + 1) PROVE closed[n] = Next1(closed, n)
    <3>1. CASE n = 0
      BY <3>1
    <3>2. CASE n \in 1..N
      <4>1. closed[n - 1] = IF n = 1 THEN start ELSE once
        BY <3>2
      <4>2. Handle(start, "Feed") = once
        BY DEF once
      <4> QED BY <1>1, <1>2, <3>2, <4>1, <4>2
    <3>3. CASE n = N + 1
      <4>1. closed[n - 1] = fed
        BY <3>3
      <4> QED BY <1>1, <3>3, <4>1
    <3> QED BY <3>1, <3>2, <3>3
  <2> HIDE DEF Next1
  <2> QED BY <2>1
<1>6. f = [n \in 0..(N + 1) |-> Next1(f, n)]
  BY <1>5
<1> HIDE DEF f
<1>7. ASSUME NEW n \in 0..(N + 1) PROVE f[n] = closed[n]
  <2> DEFINE T == {k \in 0..(N + 1) : f[k] # closed[k]}
  <2>1. SUFFICES ASSUME T # {} PROVE FALSE
    OBVIOUS
  <2>2. PICK k \in T : \A j \in T : k <= j
    <3>1. T \in SUBSET Nat
      OBVIOUS
    <3> HIDE DEF T
    <3> QED BY <2>1, <3>1, Least
  <2>3. f[k] = Next1(f, k) /\ closed[k] = Next1(closed, k)
    <3> HIDE DEF Next1, closed
    <3> QED BY <1>5, <1>6
  <2>4. CASE k = 0
    BY <2>2, <2>3, <2>4
  <2>5. CASE k # 0
    <3>1. k - 1 \in 0..(N + 1) /\ k - 1 \notin T
      BY <2>2, <2>5, SMTT(30)
    <3>2. f[k - 1] = closed[k - 1]
      BY <3>1
    <3> HIDE DEF closed
    <3> QED BY <2>2, <2>3, <2>5, <3>2
  <2> QED BY <2>4, <2>5
<1>8. closed[N + 1] = Handle(fed, "Check")
  OBVIOUS
<1>9. N + 1 \in 0..(N + 1)
  OBVIOUS
<1> HIDE DEF closed
<1>10. After(M(g, l, s, e), c) = Handle(fed, "Check")
  BY <1>4, <1>7, <1>8, <1>9
<1> QED BY <1>10 DEF start, once
Mode(l, t) == Supervised!Mode(l, t)

Report(old, new, ns) == Supervised!Report(old, new, ns)

\* A machine between two cycles: nothing is left in its context, and its state is
\* what the time of its last feed and the present time say.
Settled(m) ==
    /\ m = M(m.gate, m.last_feed_ns, m.now_ns, <<>>)
    /\ m.last_feed_ns \in Times /\ m.now_ns \in 0..MaxClock
    /\ m.last_feed_ns # None => m.last_feed_ns <= m.now_ns
    /\ m.gate = Mode(m.last_feed_ns, m.now_ns)

LEMMA CycleParts ==
    ASSUME NEW c \in Cycle
    PROVE  /\ c.now_ns \in 0..MaxClock /\ c.now_ns \in Nat /\ c.now_ns # None
           /\ c.now_ns \in Times
           /\ c.events \in Seq(1..MaxSent) /\ Len(c.events) \in Nat
           /\ c.events = <<>> <=> Len(c.events) = 0
<1>1. c.events \in Batches(1..MaxSent, MaxBatch)
  BY DEF Cycle, Batches
<1>2. c.events \in Seq(1..MaxSent)
  BY <1>1, BatchIsSeq, MaxBatchAssumption
<1>3. c.now_ns \in 0..MaxClock
  BY DEF Cycle
<1>4. c.events = <<>> <=> Len(c.events) = 0
  BY <1>2, EmptySeq
<1> QED BY <1>2, <1>3, <1>4, BoundAssumption, NoneAssumption DEF Times

LEMMA ModeParts ==
    ASSUME NEW l \in Times, NEW t \in 0..MaxClock
    PROVE  /\ Mode(l, t) \in Gates
           /\ Mode(l, t) = "idle" <=> l = None
           /\ Mode(l, t) = "tripped" <=> l # None /\ t - l > TIMEOUT_NS
           /\ Mode(t, t) = "armed"
<1>1. t \in Nat /\ t # None /\ ~(t - t > TIMEOUT_NS)
  BY BoundAssumption, NoneAssumption, TimeoutAssumption
<1> QED BY <1>1 DEF Mode, Supervised!Mode, Gates

\* A machine settled at the time of one cycle is settled at the time of the next, and
\* emits the report of the change between the two.
LEMMA StepIs ==
    ASSUME NEW m, Settled(m), NEW c \in Cycle, m.now_ns <= c.now_ns
    PROVE  LET last == IF Len(c.events) = 0 THEN m.last_feed_ns ELSE c.now_ns
               mode == Mode(last, c.now_ns)
           IN  /\ WatchdogStep(m, c).state = M(mode, last, c.now_ns, <<>>)
               /\ WatchdogStep(m, c).outs = Report(m.gate, mode, c.now_ns - last)
<1> DEFINE g == m.gate
           l == m.last_feed_ns
           s == m.now_ns
           t == c.now_ns
           N == Len(c.events)
           last == IF N = 0 THEN l ELSE t
           mode == Mode(last, t)
           a == Report(g, mode, t - last)
<1>1. /\ m = M(g, l, s, <<>>) /\ l \in Times /\ s \in 0..MaxClock /\ g = Mode(l, s)
      /\ l # None => l <= s
  BY DEF Settled
<1>2. /\ t \in 0..MaxClock /\ t \in Nat /\ t # None /\ N \in Nat /\ c.events \in Seq(1..MaxSent)
      /\ t \in Times /\ s <= t
  BY CycleParts
<1>3. g \in Gates /\ g \in {"idle", "armed", "tripped"}
  BY <1>1, ModeParts DEF Gates
<1>4. l # None => l \in Nat /\ l <= t
  BY <1>1, <1>2, BoundAssumption DEF Times
<1>5. After(m, c) = Handle(IF N = 0 THEN M(g, l, t, <<>>) ELSE Handle(M(g, l, t, <<>>), "Feed"),
                           "Check")
  BY <1>1, <1>2, <1>3, AfterIs
<1>6. After(m, c) = M(mode, last, t, a)
  <2>1. CASE N = 0
    <3> DEFINE late == g = "armed" /\ l # None /\ t - l > TIMEOUT_NS
    <3>1. After(m, c) = IF late THEN M("tripped", l, t, Append(<<>>, Tripped(t - l)))
                        ELSE M(g, l, t, <<>>)
      <4>1. g \in Gates /\ l \in Times /\ t \in 0..MaxClock /\ (l # None => l <= t)
        BY <1>1, <1>2, <1>3, <1>4
      <4>2. After(m, c) = Handle(M(g, l, t, <<>>), "Check")
        BY <1>5, <2>1
      <4> HIDE DEF g, l, t
      <4> QED BY ONLY <4>1, <4>2, CheckIs DEF late
    <3>2. last = l /\ mode = Mode(l, t) /\ a = Report(g, mode, t - l)
      BY <2>1
    <3>3. CASE late
      <4>1. mode = "tripped" /\ g # mode
        BY <1>1, <1>2, <3>2, <3>3, ModeParts
      <4>2. a = <<Tripped(t - l)>>
        BY <3>2, <4>1 DEF Report, Supervised!Report, Supervised!Tripped, Tripped
      <4>3. Append(<<>>, Tripped(t - l)) = <<Tripped(t - l)>>
        OBVIOUS
      <4> QED BY <3>1, <3>2, <3>3, <4>1, <4>2, <4>3
    <3>4. CASE ~late
      <4>1. mode = g
        <5>1. CASE l = None
          BY <1>1, <1>2, <3>2, <5>1, ModeParts
        <5>2. CASE l # None
          <6>1. s \in Nat /\ s - l <= t - l
            BY <1>1, <1>2, <1>4, <5>2, BoundAssumption
          <6>2. g = "tripped" => t - l > TIMEOUT_NS
            <7> HIDE DEF g, l, s, t
            <7>1. g = "tripped" => s - l > TIMEOUT_NS
              BY <1>1, ModeParts
            <7>2. s - l \in Int /\ t - l \in Int
              BY <1>2, <1>4, <5>2, <6>1
            <7> QED BY <6>1, <7>1, <7>2, TimeoutAssumption
          <6>3. (t - l > TIMEOUT_NS) <=> g = "tripped"
            BY <1>1, <1>3, <3>4, <5>2, <6>2, ModeParts
          <6> QED BY <1>1, <1>2, <1>3, <3>2, <5>2, <6>3, ModeParts DEF Gates
        <5> QED BY <5>1, <5>2
      <4>2. a = <<>>
        BY <3>2, <4>1 DEF Report, Supervised!Report
      <4> QED BY <3>1, <3>2, <3>4, <4>1, <4>2
    <3> QED BY <3>3, <3>4
  <2>2. CASE N # 0
    <3> DEFINE nil == <<>>
               e == IF g = "armed" THEN nil ELSE IF g = "idle" THEN Append(nil, Armed)
                    ELSE Append(nil, Recovered)
    <3>1. last = t /\ mode = "armed" /\ ~(t - t > TIMEOUT_NS) /\ "armed" \in Gates
      BY <1>1, <1>2, <2>2, ModeParts, TimeoutAssumption DEF Gates
    <3>2. a = e
      BY <1>3, <3>1 DEF Report, Supervised!Report, Supervised!Armed, Supervised!Recovered,
                        Armed, Recovered
    <3>3. After(m, c) = Handle(Handle(M(g, l, t, nil), "Feed"), "Check")
      BY <1>5, <2>2
    <3> HIDE DEF nil
    <3>4. Handle(M(g, l, t, nil), "Feed") = M("armed", t, t, e)
      BY <1>3, FeedIs
    <3> HIDE DEF e, a, mode, last
    <3>5. Handle(M("armed", t, t, e), "Check") = M("armed", t, t, e)
      BY <1>2, <3>1, CheckIs
    <3> QED BY <3>1, <3>2, <3>3, <3>4, <3>5
  <2> QED BY <2>1, <2>2
<1> HIDE DEF mode, last, a
<1>7. WatchdogStep(m, c).state = M(mode, last, t, <<>>) /\ WatchdogStep(m, c).outs = a
  BY <1>6 DEF WatchdogStep, M
<1> QED BY <1>7 DEF mode, last, a
-----------------------------------------------------------------------------
(***************************************************************************)
(* What the machine knows of the cycles, and of the messages behind them.  *)
(***************************************************************************)
\* The time of the last cycle in the log.
LastTime == IF Len(log) = 0 THEN 0 ELSE log[Len(log)].cycle.now_ns

\* The machine is settled at the time of the last cycle it was given.
KnowsTime ==
    Settled(machine) /\ machine.now_ns = IF Stepped THEN now_ns ELSE LastTime

\* Whatever was dispatched to it was sent by the time it has for its last feed.
KnowsFeeds ==
    \A i \in 1..ConsumedCount : /\ machine.last_feed_ns # None
                                /\ sent[i].at <= machine.last_feed_ns

\* If its last feed is later than a cycle, a message that came after that cycle was
\* dispatched.
KnowsLater ==
    \A n \in 1..Len(log) :
        machine.last_feed_ns # None /\ machine.last_feed_ns > log[n].cycle.now_ns
            => ConsumedCount > DispatchedBy(n)

\* What an alarm of a cycle at time t, whose drain ended with u messages accepted,
\* says of the messages s, of which k were dispatched.
TripHolds(alarm, u, t, k, s) ==
    alarm.kind = "Tripped" =>
        /\ alarm.silent_ns > TIMEOUT_NS /\ u <= k
        /\ \A i \in 1..u : s[i].at + alarm.silent_ns <= t

LoggedTrips ==
    \A n \in 1..Len(log) : \A a \in 1..Len(log[n].outs) :
        TripHolds(log[n].outs[a], trace[n].upto, log[n].cycle.now_ns, ConsumedCount, sent)

OpenTrips ==
    Stepped => \A a \in 1..Len(outs) : TripHolds(outs[a], upto, now_ns, ConsumedCount, sent)

FeederInv ==
    /\ KnowsTime /\ KnowsFeeds /\ KnowsLater
    /\ LoggedTrips /\ OpenTrips /\ ArmedMeansRecentFeed

LEMMA TripKept ==
    ASSUME NEW alarm, NEW u \in Nat, NEW t, NEW k \in Nat, NEW k2 \in Nat, NEW s, NEW s2,
           TripHolds(alarm, u, t, k, s), k <= k2, \A i \in 1..k : s2[i] = s[i]
    PROVE  TripHolds(alarm, u, t, k2, s2)
BY DEF TripHolds

LEMMA FeederTypes ==
    ASSUME TypeInv, InOrderInv
    PROVE  /\ ConsumedCount \in Nat /\ ConsumedCount <= Len(sent) /\ Len(sent) \in Nat
           /\ Taken \in Nat /\ Taken <= Len(sent) /\ Len(events) \in Nat /\ Len(events) <= Taken
           /\ ConsumedCount = IF Stepped THEN Taken ELSE Taken - Len(events)
           /\ Len(log) \in Nat /\ upto \in Nat
           /\ \A n \in 1..Len(log) :
                 /\ trace[n].upto \in Nat /\ DispatchedBy(n) \in Nat
                 /\ DispatchedBy(n) <= Taken - Len(events)
<1>1. /\ Len(sent) \in Nat /\ Taken \in Nat /\ Taken <= Len(sent)
      /\ Len(events) \in Nat /\ Len(events) <= Taken /\ Len(log) \in Nat
  BY InboundTypes DEF Taken
<1>2. ConsumedCount = IF Stepped THEN Taken ELSE Taken - Len(events)
  BY DEF ConsumedCount, StepOpen, Stepped
<1>3. ASSUME NEW n \in 1..Len(log)
      PROVE  trace[n].upto \in Nat /\ DispatchedBy(n) \in Nat
             /\ DispatchedBy(n) <= Taken - Len(events)
  <2>1. trace[n] \in Origin
    BY InboundTypes
  <2>2. trace[n].upto \in Nat
    BY <2>1 DEF Origin
  <2>3. trace[n].first \in Nat /\ Len(log[n].cycle.events) \in Nat
    BY InboundTypes
  <2> QED BY <2>2, <2>3, SMTT(30) DEF DispatchedBy, InOrderInv, SlicesBounded
<1>4. upto \in Nat
  BY DEF TypeInv, TypeOK
<1> QED BY <1>1, <1>2, <1>3, <1>4

\* A step that gives the machine nothing and writes no record.
LEMMA FeederFrame ==
    ASSUME TypeInv, InOrderInv, FeederInv, UNCHANGED <<log, trace, machine>>,
           Stepped' <=> Stepped, Stepped => UNCHANGED <<now_ns, outs, upto>>,
           ConsumedCount' = ConsumedCount, \A k \in 1..Len(sent) : sent'[k] = sent[k]
    PROVE  FeederInv'
<1>0. \A i \in 1..ConsumedCount : sent'[i] = sent[i]
  BY FeederTypes
<1>1. KnowsTime'
  BY DEF FeederInv, KnowsTime, LastTime
<1>2. KnowsFeeds'
  BY <1>0 DEF FeederInv, KnowsFeeds
<1>3. KnowsLater'
  BY DEF FeederInv, KnowsLater, DispatchedBy
<1>4. LoggedTrips'
  <2>1. ASSUME NEW n \in 1..Len(log), NEW a \in 1..Len(log[n].outs)
        PROVE  TripHolds(log[n].outs[a], trace[n].upto, log[n].cycle.now_ns,
                         ConsumedCount, sent')
    <3>1. TripHolds(log[n].outs[a], trace[n].upto, log[n].cycle.now_ns, ConsumedCount, sent)
      BY DEF FeederInv, LoggedTrips
    <3> QED BY <1>0, <3>1, TripKept, FeederTypes, SMTT(30)
  <2> QED BY <2>1 DEF LoggedTrips
<1>5. OpenTrips'
  <2>1. ASSUME Stepped, NEW a \in 1..Len(outs)
        PROVE  TripHolds(outs[a], upto, now_ns, ConsumedCount, sent')
    <3>1. TripHolds(outs[a], upto, now_ns, ConsumedCount, sent)
      BY <2>1 DEF FeederInv, OpenTrips
    <3> QED BY <1>0, <3>1, TripKept, FeederTypes
  <2> QED BY <2>1 DEF OpenTrips
<1>6. ArmedMeansRecentFeed'
  BY DEF FeederInv, ArmedMeansRecentFeed, DispatchedBy
<1> QED BY <1>1, <1>2, <1>3, <1>4, <1>5, <1>6 DEF FeederInv

\* The only report of a trip is that of a change to "tripped".
LEMMA ReportIs ==
    ASSUME NEW old \in Gates, NEW new \in Gates, NEW ns,
           NEW a \in 1..Len(Report(old, new, ns)), Report(old, new, ns)[a].kind = "Tripped"
    PROVE  new = "tripped" /\ Report(old, new, ns)[a].silent_ns = ns
<1> DEFINE r == Report(old, new, ns)
<1>1. CASE new = old
  <2>1. r = <<>>
    BY <1>1 DEF Report, Supervised!Report
  <2> QED BY <2>1
<1>2. CASE new # old /\ new = "tripped"
  <2>1. r = <<Supervised!Tripped(ns)>>
    BY <1>2 DEF Report, Supervised!Report
  <2>2. a = 1 /\ r[1] = Supervised!Tripped(ns)
    BY <2>1
  <2> QED BY <1>2, <2>2 DEF Supervised!Tripped
<1>3. CASE new # old /\ new # "tripped"
  <2>1. r = <<Supervised!Armed>> \/ r = <<Supervised!Recovered>>
    BY <1>3 DEF Report, Supervised!Report
  <2>2. a = 1 /\ (r[1] = Supervised!Armed \/ r[1] = Supervised!Recovered)
    BY <2>1
  <2> QED BY <2>2 DEF Supervised!Armed, Supervised!Recovered
<1> QED BY <1>1, <1>2, <1>3
\* The machine is given the cycle on the copperlist.
LEMMA RunIs ==
    ASSUME TypeInv, InOrderInv, TimeInv, KnowsTime, RunFsm
    PROVE  LET last == IF Len(events) = 0 THEN machine.last_feed_ns ELSE now_ns
               mode == Mode(last, now_ns)
           IN  /\ UNCHANGED <<sent, inq, events, pending, now_ns, upto, log, trace>>
               /\ ~Stepped /\ Stepped' /\ Stamped /\ Drained
               /\ Settled(machine) /\ machine.now_ns = LastTime /\ machine.now_ns <= now_ns
               /\ now_ns \in 0..MaxClock /\ now_ns \in Nat /\ now_ns # None
               /\ machine' = M(mode, last, now_ns, <<>>)
               /\ outs' = Report(machine.gate, mode, now_ns - last)
               /\ emitted' = emitted \o outs'
               /\ last \in Times /\ (last # None => last <= now_ns)
<1> DEFINE last == IF Len(events) = 0 THEN machine.last_feed_ns ELSE now_ns
           mode == Mode(last, now_ns)
<1>1. /\ UNCHANGED <<sent, inq, events, pending, now_ns, upto, log, trace>>
      /\ pc = "fsm" /\ pc' = "egress"
      /\ machine' = FsmStep(machine, TheCycle).state
      /\ outs' = FsmStep(machine, TheCycle).outs
      /\ emitted' = emitted \o outs'
  BY DEF RunFsm, StepMachine, cycleVars, logVars
<1>2. machine \in MState /\ TheCycle \in Cycle
  BY DEF TypeInv, TypeOK
<1>3. FsmStep(machine, TheCycle) = WatchdogStep(machine, TheCycle)
  BY <1>2, ServiceAssumption
<1>4. Settled(machine) /\ machine.now_ns = LastTime
  BY <1>1 DEF KnowsTime, Stepped
<1>5. TheCycle.now_ns = now_ns /\ TheCycle.events = events
  BY DEF TheCycle
<1>6. now_ns \in 0..MaxClock /\ now_ns \in Nat /\ now_ns # None /\ now_ns \in Times
  BY <1>2, <1>5, CycleParts
<1>7. machine.now_ns <= now_ns
  <2>1. CASE Len(log) = 0
    BY <1>4, <1>6, <2>1 DEF LastTime
  <2>2. CASE Len(log) > 0
    <3>1. \A n \in 1..Len(log) : log[n].cycle.now_ns <= now_ns
      BY <1>1 DEF TimeInv, StampCovers, Stamped
    <3> QED BY <1>4, <2>2, <3>1, InboundTypes DEF LastTime
  <2> QED BY <2>1, <2>2, InboundTypes
<1>8. /\ machine' = M(mode, last, now_ns, <<>>)
      /\ outs' = Report(machine.gate, mode, now_ns - last)
  BY <1>1, <1>2, <1>3, <1>4, <1>5, <1>7, StepIs
<1>9. last \in Times /\ (last # None => last <= now_ns)
  <2>1. machine.last_feed_ns \in Times /\ machine.now_ns \in Nat
        /\ (machine.last_feed_ns # None => machine.last_feed_ns \in Nat
                                           /\ machine.last_feed_ns <= machine.now_ns)
    BY <1>4, BoundAssumption DEF Settled, Times
  <2> QED BY <1>6, <1>7, <2>1
<1> QED BY <1>1, <1>4, <1>6, <1>7, <1>8, <1>9 DEF Stepped, Stamped, Drained

LEMMA FeederRun ==
    ASSUME TypeInv, InOrderInv, TimeInv, UnderfullInv, FeederInv, RunFsm
    PROVE  FeederInv'
<1> DEFINE last == IF Len(events) = 0 THEN machine.last_feed_ns ELSE now_ns
           mode == Mode(last, now_ns)
<1>1. /\ UNCHANGED <<sent, inq, events, pending, now_ns, upto, log, trace>>
      /\ ~Stepped /\ Stepped' /\ Stamped /\ Drained
      /\ Settled(machine) /\ machine.now_ns <= now_ns
      /\ now_ns \in 0..MaxClock /\ now_ns \in Nat /\ now_ns # None
      /\ machine' = M(mode, last, now_ns, <<>>)
      /\ outs' = Report(machine.gate, mode, now_ns - last)
      /\ last \in Times /\ (last # None => last <= now_ns)
  BY RunIs DEF FeederInv
<1>2. /\ ConsumedCount = Taken - Len(events) /\ ConsumedCount' = Taken
      /\ Taken \in Nat /\ Len(events) \in Nat /\ ConsumedCount \in Nat /\ Len(events) <= Taken
      /\ Taken <= Len(sent) /\ Len(sent) \in Nat
  <2>1. Taken' = Taken
    BY <1>1 DEF Taken
  <2> QED BY <1>1, <2>1, FeederTypes DEF ConsumedCount, StepOpen, Stepped
<1>3. /\ machine'.gate = mode /\ machine'.last_feed_ns = last
      /\ machine'.now_ns = now_ns /\ machine' = M(mode, last, now_ns, <<>>)
  BY <1>1 DEF M
<1>4. /\ machine.last_feed_ns \in Times /\ machine.gate = Mode(machine.last_feed_ns, machine.now_ns)
      /\ machine.now_ns \in 0..MaxClock
      /\ machine.last_feed_ns # None => /\ machine.last_feed_ns \in Nat
                                        /\ machine.last_feed_ns <= now_ns
  BY <1>1, BoundAssumption DEF Settled, Times
<1>5. \A i \in 1..Len(sent) : sent[i].at \in Nat
  BY TimeTypes
<1>6. last # None => last \in Nat
  BY <1>1, <1>4
<1> HIDE DEF mode
<1>7. KnowsTime'
  BY <1>1, <1>3 DEF KnowsTime, Settled, mode
<1>8. ASSUME NEW i \in 1..Taken PROVE last # None /\ sent[i].at <= last
  <2>1. CASE i \in 1..ConsumedCount
    <3>1. machine.last_feed_ns # None /\ sent[i].at <= machine.last_feed_ns
      BY <2>1 DEF FeederInv, KnowsFeeds
    <3>2. sent[i].at \in Nat
      BY <1>2, <1>5
    <3> QED BY <1>1, <1>4, <3>1, <3>2
  <2>2. CASE i \notin 1..ConsumedCount
    <3> DEFINE j == i - (Taken - Len(events))
    <3>1. j \in 1..Len(events) /\ Taken - Len(events) + j = i /\ Len(events) # 0
      BY <1>2, <2>2
    <3>2. sent[Taken - Len(events) + j].at <= now_ns
      BY <1>1, <3>1 DEF TimeInv, StampCovers
    <3> QED BY <1>1, <3>1, <3>2
  <2> QED BY <2>1, <2>2
<1>9. KnowsFeeds'
  BY <1>1, <1>2, <1>3, <1>8 DEF KnowsFeeds
<1>10. KnowsLater'
  <2>1. ASSUME NEW n \in 1..Len(log), last # None, last > log[n].cycle.now_ns
        PROVE  Taken > DispatchedBy(n)
    <3>1. CASE Len(events) = 0
      BY <1>2, <2>1, <3>1 DEF FeederInv, KnowsLater
    <3>2. CASE Len(events) # 0
      BY <1>2, <3>2, FeederTypes
    <3> QED BY <3>1, <3>2
  <2>2. \A n \in 1..Len(log) : DispatchedBy(n)' = DispatchedBy(n)
    BY <1>1 DEF DispatchedBy
  <2> QED BY <1>1, <1>2, <1>3, <2>1, <2>2 DEF KnowsLater
<1>11. LoggedTrips'
  <2>1. ASSUME NEW n \in 1..Len(log), NEW a \in 1..Len(log[n].outs)
        PROVE  TripHolds(log[n].outs[a], trace[n].upto, log[n].cycle.now_ns, Taken, sent)
    <3>1. TripHolds(log[n].outs[a], trace[n].upto, log[n].cycle.now_ns, ConsumedCount, sent)
      BY DEF FeederInv, LoggedTrips
    <3>2. trace[n].upto \in Nat /\ ConsumedCount <= Taken
      BY <1>2, FeederTypes
    <3> QED BY <1>2, <3>1, <3>2, TripKept
  <2> QED BY <1>1, <1>2, <2>1 DEF LoggedTrips
<1>12. OpenTrips'
  <2>1. ASSUME NEW a \in 1..Len(outs'), outs'[a].kind = "Tripped"
        PROVE  /\ outs'[a].silent_ns > TIMEOUT_NS /\ upto <= Taken
               /\ \A i \in 1..upto : sent[i].at + outs'[a].silent_ns <= now_ns
    <3>1. machine.gate \in Gates /\ mode \in Gates
      BY <1>1, <1>4, ModeParts DEF mode
    <3>2. mode = "tripped" /\ outs'[a].silent_ns = now_ns - last
      BY <1>1, <2>1, <3>1, ReportIs
    <3>3. last # None /\ now_ns - last > TIMEOUT_NS /\ Len(events) = 0
      BY <1>1, <3>2, ModeParts DEF mode
    <3>4. upto = Taken
      <4>1. Len(events) # MaxBatch
        BY <3>3, MaxBatchAssumption
      <4> QED BY <1>1, <4>1 DEF UnderfullInv, DrainSaid
    <3>5. ASSUME NEW i \in 1..Taken PROVE sent[i].at + (now_ns - last) <= now_ns
      <4>1. sent[i].at <= last /\ sent[i].at \in Nat /\ last \in Nat
        BY <1>2, <1>5, <1>6, <1>8, <3>3
      <4> HIDE DEF last
      <4> QED BY <1>1, <4>1
    <3> QED BY <1>2, <3>2, <3>3, <3>4, <3>5
  <2> QED BY <1>1, <1>2, <2>1 DEF OpenTrips, TripHolds
<1>13. ArmedMeansRecentFeed'
  BY <1>1 DEF FeederInv, ArmedMeansRecentFeed, DispatchedBy
<1> QED BY <1>7, <1>9, <1>10, <1>11, <1>12, <1>13 DEF FeederInv
\* The copperlist of the cycle the machine was given is logged.
LEMMA FeederLog ==
    ASSUME TypeInv, InOrderInv, TimeInv, UnderfullInv, FeederInv, LogCopperlist, Stepped,
           UnderfullCycleEmptiesQueue
    PROVE  FeederInv'
<1> DEFINE final == Len(log')
<1>1. /\ UNCHANGED <<sent, inq, machine>> /\ ~Stepped' /\ Len(events') = 0 /\ Taken' = Taken
      /\ final = Len(log) + 1 /\ Len(log) \in Nat
      /\ \A n \in 1..Len(log) : log'[n] = log[n] /\ trace'[n] = trace[n]
      /\ log'[final].cycle = TheCycle /\ log'[final].outs = outs
      /\ log'[final].cycle.now_ns = now_ns /\ log'[final].cycle.events = events
      /\ trace'[final].first = Taken - Len(events) /\ trace'[final].upto = upto
      /\ trace'[final].after = machine
  BY LogAppends, InboundTypes DEF LogCopperlist, LogWith, Stepped, Taken, TheCycle
<1>2. /\ ConsumedCount = Taken /\ ConsumedCount' = Taken /\ Taken \in Nat
      /\ Len(events) \in Nat /\ Len(events) <= Taken
  <2>1. ConsumedCount' = Taken' - Len(events')
    BY <1>1 DEF ConsumedCount, StepOpen, Stepped
  <2> QED BY <1>1, <2>1, FeederTypes
<1>3. Settled(machine) /\ machine.now_ns = now_ns
  BY DEF FeederInv, KnowsTime
<1>4. /\ machine.last_feed_ns \in Times /\ machine.gate = Mode(machine.last_feed_ns, now_ns)
      /\ now_ns \in 0..MaxClock /\ now_ns \in Nat
      /\ machine.last_feed_ns # None => /\ machine.last_feed_ns \in Nat
                                        /\ machine.last_feed_ns <= now_ns
  BY <1>3, BoundAssumption DEF Settled, Times
<1>5. \A n \in 1..Len(log) : /\ DispatchedBy(n)' = DispatchedBy(n)
                             /\ DispatchedBy(n) \in Nat /\ trace[n].upto \in Nat
  BY <1>1, FeederTypes DEF DispatchedBy
<1>6. ASSUME NEW n \in 1..final, n = final PROVE DispatchedBy(n)' = Taken
  <2>1. DispatchedBy(n)' = trace'[n].first + Len(log'[n].cycle.events)
    BY DEF DispatchedBy
  <2> QED BY <1>1, <1>2, <1>6, <2>1
<1> HIDE DEF final
<1>7. KnowsTime'
  BY <1>1, <1>3 DEF KnowsTime, LastTime, final
<1>8. KnowsFeeds'
  BY <1>1, <1>2 DEF FeederInv, KnowsFeeds<1>9. KnowsLater'
  <2>1. ASSUME NEW n \in 1..final, machine.last_feed_ns # None,
               machine.last_feed_ns > log'[n].cycle.now_ns
        PROVE  Taken > DispatchedBy(n)'
    <3>1. CASE n = final
      BY <1>1, <1>4, <2>1, <3>1
    <3>2. CASE n \in 1..Len(log)
      BY <1>1, <1>2, <1>5, <2>1, <3>2 DEF FeederInv, KnowsLater
    <3> QED BY <1>1, <3>1, <3>2
  <2> QED BY <1>1, <1>2, <2>1 DEF KnowsLater, final
<1>10. LoggedTrips'
  <2>1. ASSUME NEW n \in 1..final, NEW a \in 1..Len(log'[n].outs)
        PROVE  TripHolds(log'[n].outs[a], trace'[n].upto, log'[n].cycle.now_ns, Taken, sent)
    <3>1. CASE n = final
      BY <1>1, <1>2, <3>1 DEF FeederInv, OpenTrips
    <3>2. CASE n \in 1..Len(log)
      BY <1>1, <1>2, <3>2 DEF FeederInv, LoggedTrips
    <3> QED BY <1>1, <3>1, <3>2
  <2> QED BY <1>1, <1>2, <2>1 DEF LoggedTrips, final
<1>11. OpenTrips'
  BY <1>1 DEF OpenTrips
<1>12. ArmedMeansRecentFeed'
  <2>1. ASSUME NEW n \in 1..final, trace'[n].after.gate = "armed", NEW m \in 1..n,
               Len(log'[m].cycle.events) < MaxBatch,
               log'[m].cycle.now_ns + TIMEOUT_NS < log'[n].cycle.now_ns
        PROVE  DispatchedBy(n)' > trace'[m].upto
    <3>1. CASE n = final
      <4>1. DispatchedBy(n)' = Taken
        BY <1>6, <3>1
      <4>2. m # final
        BY <1>1, <1>4, <2>1, <3>1, TimeoutAssumption
      <4>3. m \in 1..Len(log)
        BY <1>1, <3>1, <4>2
      <4>4. log[m].cycle.now_ns \in Nat /\ log[m].cycle.now_ns + TIMEOUT_NS < now_ns
        BY <1>1, <2>1, <3>1, <4>3, TimeTypes
      <4>5. machine.last_feed_ns # None /\ ~(now_ns - machine.last_feed_ns > TIMEOUT_NS)
        BY <1>1, <1>4, <2>1, <3>1, ModeParts
      <4>6. machine.last_feed_ns > log[m].cycle.now_ns
        BY <1>4, <4>4, <4>5, TimeoutAssumption
      <4>7. Taken > DispatchedBy(m)
        BY <1>2, <4>3, <4>5, <4>6 DEF FeederInv, KnowsLater
      <4>8. DispatchedBy(m) = trace[m].upto
        BY <1>1, <2>1, <4>3, MaxBatchAssumption, InboundTypes, SMTT(30)
           DEF UnderfullCycleEmptiesQueue, DispatchedBy
      <4> QED BY <1>1, <4>1, <4>3, <4>7, <4>8
    <3>2. CASE n \in 1..Len(log)
      <4>1. m \in 1..Len(log)
        BY <1>1, <3>2
      <4> QED BY <1>1, <1>5, <2>1, <3>2, <4>1 DEF FeederInv, ArmedMeansRecentFeed
    <3> QED BY <1>1, <3>1, <3>2
  <2> QED BY <2>1 DEF ArmedMeansRecentFeed, final
<1> QED BY <1>7, <1>8, <1>9, <1>10, <1>11, <1>12 DEF FeederInv

LEMMA FeederInit == Init => FeederInv
<1> SUFFICES ASSUME Init PROVE FeederInv
  OBVIOUS
<1>1. machine = MachineDefault /\ Len(log) = 0 /\ Len(sent) = 0 /\ pc = "idle" /\ Len(inq) = 0
      /\ Len(events) = 0
  BY ServiceAssumption DEF Init
<1>2. machine = M("idle", None, 0, <<>>)
  BY <1>1 DEF MachineDefault, M
<1>3. Settled(machine)
  <2>1. /\ machine.gate = "idle" /\ machine.last_feed_ns = None /\ machine.now_ns = 0
        /\ None \in Times /\ 0 \in 0..MaxClock
    BY <1>2, BoundAssumption DEF M, Times
  <2>2. Mode(None, 0) = "idle"
    BY <2>1, ModeParts
  <2> QED BY <1>2, <2>1, <2>2 DEF Settled
<1>4. KnowsTime
  BY <1>1, <1>2, <1>3 DEF KnowsTime, LastTime, Stepped, M
<1>5. ConsumedCount = 0
  BY <1>1 DEF ConsumedCount, StepOpen, Taken
<1> QED BY <1>1, <1>4, <1>5 DEF FeederInv, KnowsFeeds, KnowsLater, LoggedTrips, OpenTrips,
                               Stepped, ArmedMeansRecentFeed

\* Every step but the machine's own and that of the log leaves alone what FeederInv
\* is about.
LEMMA FeederQuiet ==
    ASSUME TypeInv, InOrderInv, [Next]_vars, ~RunFsm, ~EndIteration, ~EgressErrIgnored
    PROVE  /\ UNCHANGED <<log, trace, machine, emitted>>
           /\ Stepped' <=> Stepped
           /\ Stepped => UNCHANGED <<now_ns, outs, upto, events, pending>>
           /\ ConsumedCount' = ConsumedCount
           /\ \A k \in 1..Len(sent) : sent'[k] = sent[k]
<1> USE DEF loopVars, cycleVars, fsmVars, logVars, Stepped
<1>1. ASSUME UNCHANGED <<sent, inq, events, pc>> PROVE ConsumedCount' = ConsumedCount
  BY <1>1 DEF ConsumedCount, StepOpen, Taken
<1>2. ASSUME NEW v \in 1..MaxSent, Accept(v), UNCHANGED <<events, pc>>
      PROVE  ConsumedCount' = ConsumedCount /\ \A k \in 1..Len(sent) : sent'[k] = sent[k]
  <2>1. /\ Len(sent') = Len(sent) + 1 /\ Len(inq') = Len(inq) + 1
        /\ \A k \in 1..Len(sent) : sent'[k] = sent[k]
    BY <1>2, InboundTypes DEF Accept, Sent
  <2>2. Taken' = Taken
    BY <2>1, InboundTypes DEF Taken
  <2> QED BY <1>2, <2>1, <2>2 DEF ConsumedCount, StepOpen
<1>3. CASE FeedAccepted
  <2>1. offered + 1 \in 1..MaxSent
    BY <1>3, BoundAssumption DEF FeedAccepted, TypeInv, TypeOK
  <2> QED BY <1>2, <1>3, <2>1 DEF FeedAccepted
<1>4. CASE FeedUnblocked
  <2>1. offered \in 1..MaxSent
    BY <1>4, InboundTypes DEF FeedUnblocked, TypeInv, Offers, TypeOK
  <2> QED BY <1>2, <1>4, <2>1 DEF FeedUnblocked
<1>5. CASE DrainOne
  <2>1. Len(inq') = Len(inq) - 1 /\ Len(events') = Len(events) + 1
    BY <1>5, InboundTypes, HeadTailProperties DEF DrainOne
  <2>2. ConsumedCount' = ConsumedCount
    BY <1>5, <2>1, InboundTypes DEF DrainOne, ConsumedCount, StepOpen, Taken
  <2> QED BY <1>5, <2>2 DEF DrainOne
<1>6. CASE DrainHandover
  <2>1. /\ Len(sent') = Len(sent) + 1 /\ Len(events') = Len(events) + 1
        /\ \A k \in 1..Len(sent) : sent'[k] = sent[k]
    BY <1>6, InboundTypes DEF DrainHandover, Sent
  <2>2. ConsumedCount' = ConsumedCount
    BY <1>6, <2>1, InboundTypes DEF DrainHandover, ConsumedCount, StepOpen, Taken
  <2> QED BY <1>6, <2>1, <2>2 DEF DrainHandover
<1>7. CASE \/ Tick \/ FeedBlocks \/ FeedShed \/ FeedRefused \/ FeederReturns \/ Relay
           \/ UNCHANGED vars
  BY <1>1, <1>7 DEF Tick, FeedBlocks, FeedShed, FeedRefused, FeederReturns, Relay, RelayOne,
                    RelayEnds, RelayFails, vars
<1>8. CASE \/ StartIteration \/ DrainEnds \/ CountPending \/ StampCycle \/ EgressOne
           \/ EgressErrPanics \/ StopLoop \/ JoinDriver
  BY <1>8 DEF StartIteration, DrainEnds, EndDrain, CountPending, StampCycle, EgressOne,
              EgressErrPanics, EgressErr, StopLoop, JoinDriver, ConsumedCount, StepOpen, Taken
<1> QED
  BY <1>3, <1>4, <1>5, <1>6, <1>7, <1>8 DEF Next, Feeder, Loop, Terminated

LEMMA FeederStep ==
    TypeInv /\ InOrderInv /\ TimeInv /\ UnderfullInv /\ FeederInv /\ [Next]_vars => FeederInv'
<1> SUFFICES ASSUME TypeInv, InOrderInv, TimeInv, UnderfullInv, FeederInv, [Next]_vars
             PROVE  FeederInv'
  OBVIOUS
<1>1. CASE RunFsm
  BY <1>1, FeederRun
<1>2. CASE EndIteration \/ EgressErrIgnored
  BY <1>2, FeederLog DEF EndIteration, EgressErrIgnored, EgressErr, Stepped, UnderfullInv
<1>3. CASE ~RunFsm /\ ~EndIteration /\ ~EgressErrIgnored
  BY <1>3, FeederQuiet, FeederFrame
<1> QED BY <1>1, <1>2, <1>3

LEMMA FeederCorrect ==
    Spec => []TypeInv /\ []InOrderInv /\ []TimeInv /\ []UnderfullInv /\ []FeederInv
<1>1. Init => TimeInv
  BY DEF Init, TimeInv, PastOnly, StampCovers, Stamped, CycleTimeCoversEvents
<1>2. Init => UnderfullInv
  BY DEF Init, UnderfullInv, DrainSaid, Drained, UnderfullCycleEmptiesQueue
<1> QED
  BY <1>1, <1>2, TypeInit, TypeStep, InOrderInit, InOrderStep, TimeStep, UnderfullStep,
     FeederInit, FeederStep, PTL DEF Spec

\* Tripped { silent_ns } is true of the feeds, for every timeout, batch limit and
\* channel: all that had been accepted by the end of the cycle's drain are at least
\* that old, however late the loop was.
THEOREM TripsAreTrue == Spec => []TripMeansSilence
<1>1. FeederInv => TripMeansSilence
  BY DEF FeederInv, LoggedTrips, TripHolds, TripMeansSilence, Trips
<1> QED BY <1>1, FeederCorrect, PTL

\* The watchdog does not stay armed over a silence: behind a cycle that emptied the
\* channel more than the timeout ago, another feed was accepted and dispatched.
THEOREM ArmedIsAlive == Spec => []ArmedMeansRecentFeed
<1>1. FeederInv => ArmedMeansRecentFeed
  BY DEF FeederInv
<1> QED BY <1>1, FeederCorrect, PTL
-----------------------------------------------------------------------------
(***************************************************************************)
(* The service implements Supervision.                                     *)
(***************************************************************************)
LEMMA LastOf ==
    ASSUME NEW N \in Nat, NEW S \in SUBSET (1..N), S # {}
    PROVE  Max(S) \in S /\ \A k \in S : k <= Max(S)
<1> DEFINE T == {N - k : k \in S}
<1>0. \A k \in S : k \in Nat /\ N - k \in Nat
  OBVIOUS
<1>1. T \in SUBSET Nat /\ T # {}
  BY <1>0
<1>2. PICK x \in T : \A y \in T : x <= y
  <2> HIDE DEF T
  <2> QED BY <1>1, Least
<1>3. PICK m \in S : x = N - m
  BY <1>2
<1>4. ASSUME NEW k \in S PROVE m >= k
  <2>1. N - k \in T
    OBVIOUS
  <2>2. N - m <= N - k
    BY <1>2, <1>3, <2>1
  <2>3. m \in Nat /\ k \in Nat
    OBVIOUS
  <2> QED BY <2>2, <2>3
<1>5. Max(S) \in S /\ \A k \in S : Max(S) >= k
  BY <1>3, <1>4 DEF Max
<1>6. Max(S) \in Nat
  BY <1>0, <1>5
<1> QED BY <1>0, <1>5, <1>6

\* The cycles given to the machine, open one included, from what is in the log.
LEMMA CyclesOf ==
    ASSUME NEW l, NEW o \in BOOLEAN, NEW c, Len(l) \in Nat
    PROVE  LET s == [n \in 1..Len(l) |-> l[n].cycle] \o (IF o THEN <<c>> ELSE <<>>)
           IN  /\ s = [n \in 1..(IF o THEN Len(l) + 1 ELSE Len(l)) |->
                          IF n <= Len(l) THEN l[n].cycle ELSE c]
               /\ Len(s) = IF o THEN Len(l) + 1 ELSE Len(l)
<1> DEFINE a == [n \in 1..Len(l) |-> l[n].cycle]
           b == IF o THEN <<c>> ELSE <<>>
           s == a \o b
           N == IF o THEN Len(l) + 1 ELSE Len(l)
           S == {l[n].cycle : n \in 1..Len(l)} \cup {c}
<1>1. a \in Seq(S) /\ Len(a) = Len(l)
  <2>1. \A n \in 1..Len(l) : l[n].cycle \in S
    OBVIOUS
  <2> HIDE DEF S
  <2>2. a \in [1..Len(l) -> S]
    BY <2>1
  <2> HIDE DEF a
  <2> QED BY <2>2
<1>2. b \in Seq(S) /\ Len(b) = (IF o THEN 1 ELSE 0) /\ (o => b[1] = c)
  <2>1. c \in S
    OBVIOUS
  <2> HIDE DEF S
  <2>2. <<c>> \in Seq(S) /\ Len(<<c>>) = 1 /\ <<>> \in Seq(S) /\ Len(<<>>) = 0
    BY <2>1
  <2>3. CASE o
    BY <2>2, <2>3
  <2>4. CASE ~o
    BY <2>2, <2>4
  <2> QED BY <2>3, <2>4
<1> HIDE DEF a, b, S
<1>3. /\ s \in Seq(S) /\ Len(s) = N
      /\ \A n \in 1..N : s[n] = IF n <= Len(l) THEN a[n] ELSE b[n - Len(l)]
  <2>1. /\ s \in Seq(S) /\ Len(s) = Len(a) + Len(b)
        /\ \A n \in 1..(Len(a) + Len(b)) : s[n] = IF n <= Len(a) THEN a[n] ELSE b[n - Len(a)]
    <3>1. a \in Seq(S) /\ b \in Seq(S)
      BY <1>1, <1>2
    <3> QED BY ONLY <3>1, ConcatProperties
  <2>2. Len(a) + Len(b) = N
    BY <1>1, <1>2
  <2> HIDE DEF s, N
  <2> QED BY ONLY <1>1, <2>1, <2>2
<1>4. s = [n \in 1..N |-> s[n]]
  <2> HIDE DEF s, N
  <2>1. s \in [1..N -> S]
    BY <1>3, LenProperties
  <2> QED BY <2>1
<1>5. \A n \in 1..N : s[n] = IF n <= Len(l) THEN l[n].cycle ELSE c
  BY <1>2, <1>3 DEF a
<1> QED BY <1>3, <1>4, <1>5 DEF a, b

LEMMA CyclesAre ==
    ASSUME TypeInv
    PROVE  /\ Cycles = [n \in 1..(IF Stepped THEN Len(log) + 1 ELSE Len(log)) |->
                          IF n <= Len(log) THEN log[n].cycle ELSE TheCycle]
           /\ Len(Cycles) = IF Stepped THEN Len(log) + 1 ELSE Len(log)
           /\ Len(log) \in Nat
<1>1. Len(log) \in Nat
  BY InboundTypes
<1>2. Stepped \in BOOLEAN
  BY DEF Stepped
<1> QED BY <1>1, <1>2, CyclesOf DEF Cycles, StepOpen, Stepped
\* The supervision has no look at the machine, but the machine knows what it sees.
SupInv == LastCycleAt = machine.now_ns /\ LastFeedAt = machine.last_feed_ns

LEMMA SupInit == Init => SupInv /\ Supervised!Init
<1> SUFFICES ASSUME Init PROVE SupInv /\ Supervised!Init
  OBVIOUS
<1>1. machine.now_ns = 0 /\ machine.last_feed_ns = None /\ emitted = <<>>
  BY ServiceAssumption DEF Init, MachineDefault
<1>2. Len(Cycles) = 0 /\ Cycles = <<>>
  <2>1. Cycles = [n \in 1..0 |-> log[n].cycle] \o <<>>
    BY DEF Init, Cycles, StepOpen
  <2>2. [n \in 1..0 |-> log[n].cycle] = <<>>
    OBVIOUS
  <2>3. Cycles = <<>>
    BY <2>1, <2>2
  <2> QED BY <2>3
<1>3. FedCycles = {}
  BY <1>2 DEF FedCycles
<1> QED BY <1>1, <1>2, <1>3 DEF SupInv, Supervised!Init, LastCycleAt, LastFeedAt

\* Logging the open cycle does not change the cycles there were.
LEMMA CyclesLogged ==
    ASSUME TypeInv, LogCopperlist, Stepped
    PROVE  Cycles' = Cycles
<1>1. /\ ~Stepped' /\ Len(log') = Len(log) + 1 /\ Len(log) \in Nat
      /\ \A n \in 1..Len(log) : log'[n] = log[n]
      /\ log'[Len(log) + 1].cycle = TheCycle
  BY LogAppends, InboundTypes DEF LogCopperlist, LogWith, Stepped
<1>2. Cycles = [n \in 1..(Len(log) + 1) |-> IF n <= Len(log) THEN log[n].cycle ELSE TheCycle]
  BY CyclesAre
<1>3. Cycles' = [n \in 1..Len(log') |-> log'[n].cycle]
  <2>1. Cycles' = [n \in 1..Len(log') |-> log'[n].cycle] \o <<>>
    BY <1>1 DEF Cycles, StepOpen, Stepped
  <2> DEFINE l == log'
  <2>2. Len(l) \in Nat
    BY <1>1
  <2> HIDE DEF l
  <2>3. [n \in 1..Len(l) |-> l[n].cycle] \o <<>> =
            [n \in 1..Len(l) |-> IF n <= Len(l) THEN l[n].cycle ELSE TheCycle]
    BY <2>2, CyclesOf
  <2>4. [n \in 1..Len(l) |-> l[n].cycle] \o <<>> = [n \in 1..Len(l) |-> l[n].cycle]
    BY <2>2, <2>3
  <2> QED BY <2>1, <2>4 DEF l
<1>4. \A n \in 1..(Len(log) + 1) :
          log'[n].cycle = IF n <= Len(log) THEN log[n].cycle ELSE TheCycle
  BY <1>1
<1> QED BY <1>1, <1>2, <1>3, <1>4

\* The machine's step adds its cycle to them.
LEMMA CyclesRun ==
    ASSUME TypeInv, RunFsm
    PROVE  /\ Len(Cycles) \in Nat /\ Len(Cycles') = Len(Cycles) + 1
           /\ \A n \in 1..Len(Cycles) : Cycles'[n] = Cycles[n]
           /\ Cycles'[Len(Cycles) + 1] = TheCycle
<1>1. /\ UNCHANGED <<log, events, pending, now_ns>> /\ ~Stepped /\ Stepped'
      /\ Len(log) \in Nat
  BY InboundTypes DEF RunFsm, StepMachine, logVars, cycleVars, Stepped
<1>2. /\ Cycles = [n \in 1..Len(log) |-> IF n <= Len(log) THEN log[n].cycle ELSE TheCycle]
      /\ Len(Cycles) = Len(log)
  BY <1>1, CyclesAre
<1>3. Cycles' = [n \in 1..Len(log) |-> log[n].cycle] \o <<TheCycle>>
  BY <1>1 DEF Cycles, StepOpen, Stepped, TheCycle
<1>4. /\ Cycles' = [n \in 1..(Len(log) + 1) |->
                        IF n <= Len(log) THEN log[n].cycle ELSE TheCycle]
      /\ Len(Cycles') = Len(log) + 1
  <2> DEFINE s == [n \in 1..Len(log) |-> log[n].cycle] \o <<TheCycle>>
  <2>1. /\ s = [n \in 1..(Len(log) + 1) |-> IF n <= Len(log) THEN log[n].cycle ELSE TheCycle]
        /\ Len(s) = Len(log) + 1
    BY <1>1, CyclesOf
  <2> HIDE DEF s
  <2> QED BY <1>3, <2>1 DEF s
<1>5. ASSUME NEW n \in 1..(Len(log) + 1)
      PROVE  Cycles'[n] = IF n <= Len(log) THEN log[n].cycle ELSE TheCycle
  BY <1>4
<1>6. ASSUME NEW n \in 1..Len(log) PROVE Cycles[n] = log[n].cycle
  BY <1>2
<1> QED BY <1>1, <1>2, <1>4, <1>5, <1>6
LEMMA SeenRun ==
    ASSUME TypeInv, RunFsm
    PROVE  /\ LastCycleAt' = now_ns
           /\ LastFeedAt' = IF Len(events) = 0 THEN LastFeedAt ELSE now_ns
<1> DEFINE N == Len(Cycles)
           C == Cycles
           D == Cycles'
           F == FedCycles
           G == FedCycles'
<1>1. /\ N \in Nat /\ Len(D) = N + 1 /\ \A n \in 1..N : D[n] = C[n]
      /\ D[N + 1] = TheCycle
  BY CyclesRun
<1>2. /\ TheCycle.now_ns = now_ns /\ TheCycle.events = events
      /\ events = <<>> <=> Len(events) = 0
  <2>1. TheCycle \in Cycle /\ TheCycle.now_ns = now_ns /\ TheCycle.events = events
    BY DEF TypeInv, TypeOK, TheCycle
  <2> QED BY <2>1, CycleParts
<1>3. F = {n \in 1..N : C[n].events # <<>>} /\ G = {n \in 1..Len(D) : D[n].events # <<>>}
  BY DEF FedCycles
<1>4. /\ LastCycleAt' = IF D = <<>> THEN 0 ELSE D[Len(D)].now_ns
      /\ LastFeedAt = IF F = {} THEN None ELSE C[Max(F)].now_ns
      /\ LastFeedAt' = IF G = {} THEN None ELSE D[Max(G)].now_ns
  BY DEF LastCycleAt, LastFeedAt
<1> HIDE DEF N, C, D, F, G
<1>5. LastCycleAt' = now_ns
  <2>1. D # <<>>
    BY <1>1
  <2> QED BY <1>1, <1>2, <1>4, <2>1
<1>6. CASE Len(events) = 0
  <2>1. G = F
    BY <1>1, <1>2, <1>3, <1>6
  <2>2. ASSUME F # {} PROVE D[Max(F)] = C[Max(F)]
    <3>1. F \in SUBSET (1..N)
      BY <1>3
    <3>2. Max(F) \in 1..N
      BY <1>1, <2>2, <3>1, LastOf
    <3> QED BY <1>1, <3>2
  <2>3. LastFeedAt' = LastFeedAt
    BY <1>4, <2>1, <2>2
  <2> QED BY <1>5, <1>6, <2>3
<1>7. CASE Len(events) # 0
  <2>1. N + 1 \in G /\ G \in SUBSET (1..(N + 1))
    BY <1>1, <1>2, <1>3, <1>7
  <2>2. N + 1 \in Nat
    BY <1>1
  <2>3. Max(G) \in G /\ \A k \in G : k <= Max(G)
    BY <2>1, <2>2, LastOf
  <2>4. Max(G) = N + 1
    <3> DEFINE m == Max(G)
    <3>1. m \in 1..(N + 1) /\ N + 1 <= m
      BY <2>1, <2>3
    <3> HIDE DEF m
    <3>2. m = N + 1
      BY <1>1, <3>1
    <3> QED BY <3>2 DEF m
  <2> QED BY <1>1, <1>2, <1>4, <1>5, <1>7, <2>1, <2>4
<1> QED BY <1>5, <1>6, <1>7

\* The machine's step is a cycle of the supervision.
LEMMA MapsRun ==
    ASSUME TypeInv, InOrderInv, TimeInv, FeederInv, SupInv, RunFsm
    PROVE  SupInv' /\ Supervised!Next
<1> DEFINE last == IF Len(events) = 0 THEN machine.last_feed_ns ELSE now_ns
           fed  == Len(events) # 0
<1>1. /\ machine' = M(Mode(last, now_ns), last, now_ns, <<>>)
      /\ emitted' = emitted \o Report(machine.gate, Mode(last, now_ns), now_ns - last)
      /\ machine.now_ns <= now_ns /\ now_ns \in 0..MaxClock /\ Settled(machine)
  BY RunIs DEF FeederInv
<1>2. /\ LastCycleAt' = now_ns /\ LastFeedAt' = last
      /\ LastCycleAt = machine.now_ns /\ LastFeedAt = machine.last_feed_ns
  BY SeenRun DEF SupInv
<1>3. machine'.now_ns = now_ns /\ machine'.last_feed_ns = last
  BY <1>1 DEF M
<1>4. machine.gate = Supervised!Mode(LastFeedAt, LastCycleAt) /\ machine.now_ns \in 0..MaxClock
  BY <1>1, <1>2 DEF Settled, Mode
<1>5. emitted' = emitted \o Supervised!Report(Supervised!Mode(LastFeedAt, LastCycleAt),
                                             Supervised!Mode(last, now_ns), now_ns - last)
  BY <1>1, <1>4 DEF Mode, Report
<1>6. last = IF fed THEN now_ns ELSE LastFeedAt
  BY <1>2
<1> HIDE DEF last
<1>7. Supervised!Cycle(now_ns, fed)
  BY <1>2, <1>5, <1>6 DEF Supervised!Cycle
<1>8. now_ns \in LastCycleAt..MaxClock /\ fed \in BOOLEAN
  BY <1>1, <1>2, <1>4, BoundAssumption
<1> HIDE DEF fed
<1>9. Supervised!Next
  BY <1>7, <1>8 DEF Supervised!Next
<1> QED BY <1>2, <1>3, <1>9 DEF SupInv

seenBySupervision == <<LastCycleAt, LastFeedAt, emitted>>

\* Any other step leaves what the supervision sees as it was.
LEMMA MapsSupervision ==
    TypeInv /\ InOrderInv /\ TimeInv /\ FeederInv /\ SupInv /\ [Next]_vars
        => SupInv' /\ [Supervised!Next]_seenBySupervision
<1> SUFFICES ASSUME TypeInv, InOrderInv, TimeInv, FeederInv, SupInv, [Next]_vars
             PROVE  SupInv' /\ (Supervised!Next \/ UNCHANGED seenBySupervision)
  OBVIOUS
<1>1. CASE RunFsm
  BY <1>1, MapsRun
<1>2. ASSUME Cycles' = Cycles, UNCHANGED <<machine, emitted>>
      PROVE  SupInv' /\ UNCHANGED seenBySupervision
  <2>1. FedCycles' = FedCycles
    BY <1>2 DEF FedCycles
  <2>2. LastCycleAt' = LastCycleAt /\ LastFeedAt' = LastFeedAt
    BY <1>2, <2>1 DEF LastCycleAt, LastFeedAt
  <2> QED BY <1>2, <2>2 DEF SupInv, seenBySupervision
<1>3. CASE EndIteration \/ EgressErrIgnored
  <2>1. LogCopperlist /\ Stepped /\ UNCHANGED <<machine, emitted>>
    BY <1>3 DEF EndIteration, EgressErrIgnored, EgressErr, LogCopperlist, LogWith, Stepped
  <2> QED BY <1>2, <2>1, CyclesLogged
<1>4. CASE ~RunFsm /\ ~EndIteration /\ ~EgressErrIgnored
  <2>1. /\ UNCHANGED <<log, machine, emitted>> /\ (Stepped' <=> Stepped)
        /\ Stepped => UNCHANGED <<now_ns, events, pending>>
    BY <1>4, FeederQuiet
  <2>2. Cycles' = Cycles
    <3>1. CASE Stepped
      <4>1. TheCycle' = TheCycle
        BY <2>1, <3>1 DEF TheCycle
      <4> QED BY <2>1, <3>1, <4>1 DEF Cycles, StepOpen, Stepped
    <3>2. CASE ~Stepped
      BY <2>1, <3>2 DEF Cycles, StepOpen, Stepped
    <3> QED BY <3>1, <3>2
  <2> QED BY <1>2, <2>1, <2>2
<1> QED BY <1>1, <1>3, <1>4

\* The whole service, transport threads and channels included, implements the
\* supervision: what it emits reports the changes of a mode that depends on the times
\* of its cycles and on which of them had feeds, and on nothing else.
THEOREM ServiceSupervises == Spec => ImplementsSupervision
<1>1. Init => SupInv /\ Supervised!Init
  BY SupInit
<1>2. TypeInv /\ InOrderInv /\ TimeInv /\ FeederInv /\ SupInv /\ [Next]_vars
        => SupInv' /\ [Supervised!Next]_seenBySupervision
  BY MapsSupervision
<1>3. Spec => [][Supervised!Next]_seenBySupervision
  BY <1>1, <1>2, FeederCorrect, PTL DEF Spec
<1> QED
  BY <1>1, <1>3, PTL DEF Spec, ImplementsSupervision, Supervised!Spec, seenBySupervision
-----------------------------------------------------------------------------
(***************************************************************************)
(* The replay gate over the log of a run.                                  *)
(***************************************************************************)
\* The recursive function in States exists: a run over k steps extends to k + 1.
LEMMA StatesRun ==
    ASSUME NEW r, NEW N \in Nat, N = Len(r)
    PROVE  \A n \in 1..N :
              States(r)[n] = IF n = 1 THEN MInit
                             ELSE FsmStep(States(r)[n - 1], r[n - 1].input).state
<1> DEFINE Next1(f, n) == IF n = 1 THEN MInit ELSE FsmStep(f[n - 1], r[n - 1].input).state
           Over(f, k) == f = [n \in 1..k |-> Next1(f, n)]
           T == {k \in 0..N : \A f : ~Over(f, k)}
<1>1. ASSUME T # {} PROVE FALSE
  <2>1. PICK k \in T : \A j \in T : k <= j
    <3>1. T \in SUBSET Nat
      OBVIOUS
    <3> HIDE DEF T
    <3> QED BY <1>1, <3>1, Least
  <2>2. k \in 0..N /\ ~\E f : Over(f, k)
    <3> HIDE DEF Over
    <3> QED OBVIOUS
  <2>3. CASE k = 0
    <3> DEFINE f == [n \in 1..0 |-> MInit]
    <3>1. Over(f, 0)
      OBVIOUS
    <3> HIDE DEF Over, f
    <3> QED BY <2>2, <2>3, <3>1
  <2>4. CASE k # 0
    <3>1. k - 1 \in 0..N /\ k - 1 \notin T
      <4> HIDE DEF T
      <4> QED BY <2>1, <2>2, <2>4
    <3>2. PICK f : Over(f, k - 1)
      <4> HIDE DEF Over
      <4> QED BY <3>1
    <3> DEFINE g == [n \in 1..k |-> Next1(f, n)]
    <3>3. ASSUME NEW n \in 1..(k - 1) PROVE g[n] = f[n]
      <4>1. f[n] = Next1(f, n)
        <5> HIDE DEF Next1
        <5> QED BY <3>2
      <4>2. n \in 1..k
        BY <2>2
      <4> HIDE DEF Next1
      <4> QED BY <4>1, <4>2
    <3>4. ASSUME NEW n \in 1..k PROVE Next1(f, n) = Next1(g, n)
      <4>1. n # 1 => g[n - 1] = f[n - 1]
        <5> HIDE DEF g
        <5> QED BY <2>2, <3>3
      <4> HIDE DEF g
      <4> QED BY <4>1
    <3>5. Over(g, k)
      <4>1. g = [n \in 1..k |-> Next1(f, n)]
        OBVIOUS
      <4> HIDE DEF g, Next1
      <4> QED BY <3>4, <4>1
    <3> HIDE DEF Over, g
    <3> QED BY <2>2, <3>5
  <2> QED BY <2>3, <2>4
<1>2. \E f : Over(f, N)
  <2>1. N \notin T
    <3> HIDE DEF T
    <3> QED BY <1>1
  <2> HIDE DEF Over
  <2> QED BY <2>1
<1>3. States(r) = CHOOSE f : Over(f, N)
  BY DEF States
<1>4. Over(States(r), N)
  <2> HIDE DEF Over
  <2> QED BY <1>2, <1>3
<1>5. ASSUME NEW n \in 1..N PROVE States(r)[n] = Next1(States(r), n)
  <2> DEFINE s == States(r)
  <2>1. s = [i \in 1..N |-> Next1(s, i)]
    BY <1>4
  <2> HIDE DEF s, Next1
  <2> QED BY <2>1 DEF s
<1> QED BY <1>5

\* f has the states that the machine goes through on the first K inputs of r.
RunsOn(r, K, f) ==
    \A n \in 1..K : f[n] = IF n = 1 THEN MInit ELSE FsmStep(f[n - 1], r[n - 1].input).state

\* There is only one run over the same inputs.
LEMMA SameRun ==
    ASSUME NEW r, NEW N \in Nat, N = Len(r), NEW K \in 0..N, NEW f, RunsOn(r, K, f)
    PROVE  \A n \in 1..K : States(r)[n] = f[n]
<1> USE DEF RunsOn
<1> DEFINE T == {n \in 1..K : States(r)[n] # f[n]}
<1>1. SUFFICES ASSUME T # {} PROVE FALSE
  OBVIOUS
<1>2. PICK k \in T : \A j \in T : k <= j
  <2>1. T \in SUBSET Nat
    OBVIOUS
  <2> HIDE DEF T
  <2> QED BY <1>1, <2>1, Least
<1>3. k \in 1..N /\ k \in 1..K
  OBVIOUS
<1>4. k # 1 => States(r)[k - 1] = f[k - 1]
  BY <1>2, <1>3
<1>5. States(r)[k] = IF k = 1 THEN MInit ELSE FsmStep(States(r)[k - 1], r[k - 1].input).state
  BY <1>3, StatesRun
<1>6. f[k] = IF k = 1 THEN MInit ELSE FsmStep(f[k - 1], r[k - 1].input).state
  BY <1>3
<1>7. States(r)[k] # f[k]
  OBVIOUS
<1> HIDE DEF T
<1> QED BY <1>4, <1>5, <1>6, <1>7

\* A report passes when the gate counted neither a divergence nor a gap.
LEMMA GatePasses ==
    ASSUME NEW r, NEW N \in Nat, N = Len(r)
    PROVE  passed(replay(r)) <=> N > 0 /\ Divergent(r) = {} /\ IdGaps(r) = {}
<1>1. IsFiniteSet(1..N)
  BY FS_Interval
<1>2. Divergent(r) \in SUBSET (1..N)
  BY DEF Divergent
<1>3. IsFiniteSet(Divergent(r))
  BY <1>1, <1>2, FS_Subset
<1>4. Cardinality(Divergent(r)) = 0 <=> Divergent(r) = {}
  BY <1>3, FS_EmptySet
<1> QED BY <1>4 DEF passed, replay, replay_gate

\* As long as it is given the recorded cycles, the replay is where the run was.
LEMMA ReplayFollows ==
    ASSUME TypeInv, ReplayReproduces, NEW r, NEW N \in Nat, N = Len(r),
           NEW K \in 0..N, K <= Len(log), \A n \in 1..(K - 1) : r[n].input = log[n].cycle
    PROVE  \A n \in 1..K : States(r)[n] = trace[n].before
<1> DEFINE f == [n \in 1..K |-> trace[n].before]
<1>1. ASSUME NEW n \in 1..K
      PROVE  f[n] = IF n = 1 THEN MInit ELSE FsmStep(f[n - 1], r[n - 1].input).state
  <2>1. Len(log) \in Nat /\ n \in 1..Len(log)
    BY InboundTypes
  <2>2. CASE n = 1
    BY <2>1, <2>2 DEF ReplayReproduces
  <2>3. CASE n # 1
    <3>1. n - 1 \in 1..Len(log) /\ n - 1 \in 1..(K - 1) /\ n - 1 \in 1..K
      BY <2>1, <2>3
    <3>2. trace[n].before = trace[n - 1].after
      BY <2>1, <2>3 DEF ReplayReproduces
    <3>3. FsmStep(trace[n - 1].before, log[n - 1].cycle).state = trace[n - 1].after
      BY <3>1 DEF ReplayReproduces
    <3>4. r[n - 1].input = log[n - 1].cycle
      BY <3>1
    <3> QED BY <2>3, <3>1, <3>2, <3>3, <3>4
  <2> QED BY <2>2, <2>3
<1>2. \A n \in 1..K : States(r)[n] = f[n]
  <2> HIDE DEF f
  <2>1. N \in Nat /\ N = Len(r) /\ K \in 0..N /\ RunsOn(r, K, f)
    BY <1>1 DEF RunsOn
  <2> QED BY ONLY <2>1, SameRun
<1> QED BY <1>2 DEF f

\* A beginning of the log replays as it was recorded.
LEMMA BeginningPasses ==
    ASSUME TypeInv, ReplayReproduces, NEW N \in 1..Len(log), NEW r,
           r = [n \in 1..N |-> Copperlists[n]]
    PROVE  passed(replay(r))
<1>1. Len(log) \in Nat /\ N \in Nat /\ Len(r) = N
  BY InboundTypes
<1>2. ASSUME NEW n \in 1..N
      PROVE  /\ n \in 1..Len(log) /\ r[n].input = log[n].cycle
             /\ r[n].output = log[n].outs /\ r[n].id = n - 1
  BY <1>1 DEF Copperlists
<1>3. \A n \in 1..N : States(r)[n] = trace[n].before
  <2>1. N \in 0..N /\ N <= Len(log) /\ \A n \in 1..(N - 1) : r[n].input = log[n].cycle
    BY <1>1, <1>2
  <2> QED BY <1>1, <2>1, ReplayFollows
<1>4. Divergent(r) = {}
  BY <1>1, <1>2, <1>3 DEF Divergent, ReplayReproduces
<1>5. IdGaps(r) = {}
  <2>1. ASSUME NEW n \in 2..N PROVE r[n].id = r[n - 1].id + 1
    BY <1>1, <1>2
  <2> QED BY <1>1, <2>1 DEF IdGaps
<1> QED BY <1>1, <1>4, <1>5, GatePasses
\* read_copperlists stops at the first record that is not whole.
LEMMA StopsAt ==
    ASSUME NEW file, NEW L \in Nat, L = Len(file), NEW n \in 1..(L + 1),
           n <= L => file[n].bytes # "whole", \A k \in 1..(n - 1) : file[k].bytes = "whole"
    PROVE  Stops(file) = n
<1> DEFINE At(x) == /\ x <= L => file[x].bytes # "whole"
                    /\ \A k \in 1..(x - 1) : file[k].bytes = "whole"
<1>1. Stops(file) = CHOOSE x \in 1..(L + 1) : At(x)
  BY DEF Stops
<1>2. At(n)
  OBVIOUS
<1>3. ASSUME NEW x \in 1..(L + 1), At(x) PROVE x = n
  <2>1. ~(x < n)
    <3>1. ASSUME x < n PROVE FALSE
      <4>1. x \in 1..(n - 1) /\ x <= L
        BY <3>1
      <4> QED BY <1>3, <4>1
    <3> QED BY <3>1
  <2>2. ~(n < x)
    <3>1. ASSUME n < x PROVE FALSE
      <4>1. n \in 1..(x - 1) /\ n <= L
        BY <3>1
      <4> QED BY <1>3, <4>1
    <3> QED BY <3>1
  <2> QED BY <2>1, <2>2
<1> HIDE DEF At
<1> QED BY <1>1, <1>2, <1>3

\* What was emitted by the end of the record before the n-th is all there is exactly if
\* nothing was emitted from the n-th on.
LEMMA RestIsEmpty ==
    ASSUME TypeInv, OutInv, pc = "joined", NEW n \in 2..Len(log)
    PROVE  NextOutFirst(n - 1) = Len(emitted) <=> \A k \in n..Len(log) : log[k].outs = <<>>
<1> DEFINE L == Len(log)
           all == Len(emitted)
<1>0. L \in Nat /\ all \in Nat /\ n \in 2..L /\ n - 1 \in 1..L
  BY OutTypes
<1>1. NextOutFirst(L) = all
  BY <1>0, AllLogged
<1>2. \A k \in 1..L : NextOutFirst(k) \in Nat /\ NextOutFirst(k) <= all
  BY LoggedOutputs
<1>3. ASSUME NEW k \in 2..L
      PROVE  /\ NextOutFirst(k) = NextOutFirst(k - 1) + Len(log[k].outs)
             /\ Len(log[k].outs) \in Nat /\ (Len(log[k].outs) = 0 <=> log[k].outs = <<>>)
  <2>1. k \in 1..L /\ k - 1 < L /\ (k - 1) + 1 = k
    BY <1>0
  <2>2. NextOutFirst(k - 1) = trace[k].outFirst
    BY <2>1 DEF NextOutFirst
  <2>3. NextOutFirst(k) = trace[k].outFirst + Len(log[k].outs)
    BY <2>1 DEF OutInv, LogHoldsOutputs
  <2>4. log[k] \in Record
    BY <2>1, InboundTypes
  <2>5. log[k].outs \in Seq(Out)
    BY <2>4 DEF Record
  <2>6. Len(log[k].outs) \in Nat /\ (Len(log[k].outs) = 0 <=> log[k].outs = <<>>)
    BY <2>5
  <2> QED BY <2>2, <2>3, <2>6
<1> HIDE DEF L, all
<1>4. ASSUME \A k \in n..L : log[k].outs = <<>>
      PROVE  NextOutFirst(n - 1) = all
  <2> DEFINE T == {k \in (n - 1)..L : NextOutFirst(k) # NextOutFirst(n - 1)}
  <2>1. ASSUME T # {} PROVE FALSE
    <3>1. PICK k \in T : \A j \in T : k <= j
      <4>1. T \in SUBSET Nat
        BY <1>0
      <4> HIDE DEF T
      <4> QED BY <2>1, <4>1, Least
    <3>2. k \in n..L /\ k \in 2..L /\ k - 1 \in (n - 1)..L
      BY <1>0
    <3>3. k - 1 \notin T
      <4> HIDE DEF T
      <4> QED BY <1>0, <3>1, <3>2
    <3>4. NextOutFirst(k - 1) = NextOutFirst(n - 1)
      BY <3>2, <3>3
    <3>5. NextOutFirst(k) = NextOutFirst(k - 1) + 0
      BY <1>3, <1>4, <3>2
    <3>6. NextOutFirst(k - 1) \in Nat
      BY <1>0, <1>2, <3>2
    <3>7. NextOutFirst(k) = NextOutFirst(n - 1)
      BY <3>4, <3>5, <3>6
    <3> QED BY <3>7
  <2>2. L \in (n - 1)..L
    BY <1>0
  <2> QED BY <1>1, <2>1, <2>2
<1>5. ASSUME NextOutFirst(n - 1) = all, NEW m \in n..L
      PROVE  log[m].outs = <<>>
  <2> DEFINE T == {k \in (n - 1)..L : NextOutFirst(k) # all}
  <2>1. ASSUME T # {} PROVE FALSE
    <3>1. PICK k \in T : \A j \in T : k <= j
      <4>1. T \in SUBSET Nat
        BY <1>0
      <4> HIDE DEF T
      <4> QED BY <2>1, <4>1, Least
    <3>2. k \in n..L /\ k \in 2..L /\ k - 1 \in (n - 1)..L /\ k \in 1..L
      BY <1>0, <1>5
    <3>3. k - 1 \notin T
      <4> HIDE DEF T
      <4> QED BY <1>0, <3>1, <3>2
    <3>4. NextOutFirst(k - 1) = all
      BY <3>2, <3>3
    <3>5. /\ NextOutFirst(k) = all + Len(log[k].outs) /\ Len(log[k].outs) \in Nat
          /\ NextOutFirst(k) <= all
      BY <1>2, <1>3, <3>2, <3>4
    <3>6. NextOutFirst(k) = all
      BY <1>0, <3>5
    <3> QED BY <3>6
  <2>2. m \in (n - 1)..L /\ m - 1 \in (n - 1)..L /\ m \in 2..L
    BY <1>0
  <2>3. NextOutFirst(m) = all /\ NextOutFirst(m - 1) = all
    BY <2>1, <2>2
  <2> QED BY <1>0, <1>3, <2>2, <2>3
<1> QED BY <1>4, <1>5 DEF L, all

\* A beginning of the log holds all the alarms that were received exactly if there are
\* none in the rest.
LEMMA BeginningHolds ==
    ASSUME TypeInv, OutInv, pc = "joined", relay # "failed", NEW n \in 1..(Len(log) + 1), n > 1,
           NEW r, r = [k \in 1..(n - 1) |-> Copperlists[k]]
    PROVE  alarms_in(r) = received <=> \A k \in n..Len(log) : log[k].outs = <<>>
<1>1. Len(log) \in Nat /\ n - 1 \in 1..Len(log) /\ n \in Nat
  BY InboundTypes
<1>2. alarms_in(r) = FlattenSeq([k \in 1..(n - 1) |-> log[k].outs])
  <2>1. Len(r) = n - 1 /\ \A k \in 1..(n - 1) : r[k].output = log[k].outs
    BY <1>1 DEF Copperlists
  <2>2. [k \in 1..Len(r) |-> r[k].output] = [k \in 1..(n - 1) |-> log[k].outs]
    BY <2>1
  <2> QED BY <2>2 DEF alarms_in
<1> DEFINE end == NextOutFirst(n - 1)
<1>3. alarms_in(r) = SubSeq(emitted, 1, end) /\ end \in Nat /\ end <= Len(emitted)
  BY <1>1, <1>2, LoggedOutputs
<1>4. received = emitted /\ emitted \in Seq(Out) /\ Len(emitted) \in Nat
  BY AllLogged, OutTypes
<1>5. alarms_in(r) = received <=> end = Len(emitted)
  <2> HIDE DEF end
  <2>1. Len(SubSeq(emitted, 1, end)) = end
    BY <1>3, <1>4
  <2>2. SubSeq(emitted, 1, Len(emitted)) = emitted
    BY <1>4
  <2> QED BY <1>3, <1>4, <2>1, <2>2
<1>6. CASE n \in 2..Len(log)
  BY <1>5, <1>6, RestIsEmpty
<1>7. CASE n = Len(log) + 1
  <2>1. n - 1 = Len(log) /\ Len(log) > 0
    BY <1>1, <1>7
  <2>2. end = Len(emitted)
    BY <2>1, AllLogged
  <2>3. n..Len(log) = {}
    BY <1>1, <1>7
  <2> QED BY <1>5, <2>2, <2>3
<1> QED BY <1>1, <1>6, <1>7

LEMMA DamageIsSeen ==
    ASSUME TypeInv, OutInv, ReplayReproduces, pc = "joined", relay # "failed", Len(log) > 0
    PROVE  /\ Accepted(Intact)
           /\ \A n \in 1..Len(log) : ~Accepted(Damaged(n, "corrupt"))
           /\ \A n \in 1..Len(log), how \in RunsOut :
                 Accepted(Damaged(n, how)) <=>
                     n > 1 /\ \A k \in n..Len(log) : log[k].outs = <<>>
<1> DEFINE L == Len(log)
<1>1. L \in Nat /\ L \in 1..L
  BY InboundTypes
<1>2. Accepted(Intact)
  <2> DEFINE r == read_copperlists(Intact)
  <2>1. /\ Len(Intact) = L
        /\ \A k \in 1..L : /\ Intact[k].bytes = "whole" /\ Intact[k].copperlist = Copperlists[k]
    BY <1>1 DEF Intact
  <2>2. Stops(Intact) = L + 1
    BY <1>1, <2>1, StopsAt
  <2>3. LogEnd(Intact) = "Eof"
    BY <1>1, <2>1, <2>2 DEF LogEnd
  <2>4. r = [k \in 1..L |-> Copperlists[k]]
    BY <1>1, <2>1, <2>2 DEF read_copperlists
  <2> HIDE DEF r
  <2>5. passed(replay(r))
    BY <1>1, <2>4, BeginningPasses
  <2>6. alarms_in(r) = received
    <3>1. L + 1 \in 1..(L + 1) /\ L + 1 > 1 /\ (L + 1) - 1 = L /\ (L + 1)..L = {}
      BY <1>1
    <3> QED BY <2>4, <3>1, BeginningHolds
  <2> QED BY <2>3, <2>5, <2>6 DEF Accepted, r
<1>3. ASSUME NEW n \in 1..L PROVE ~Accepted(Damaged(n, "corrupt"))
  <2> DEFINE file == Damaged(n, "corrupt")
  <2>1. /\ Len(file) = L
        /\ \A k \in 1..L : file[k].bytes = IF k = n THEN "corrupt" ELSE "whole"
    BY <1>1 DEF Damaged
  <2> HIDE DEF file
  <2>2. Stops(file) = n
    BY <1>1, <1>3, <2>1, StopsAt
  <2>3. LogEnd(file) = "Error"
    BY <1>1, <2>1, <2>2 DEF LogEnd, RunsOut
  <2> QED BY <2>3 DEF Accepted, file
<1>4. ASSUME NEW n \in 1..L, NEW how \in RunsOut
      PROVE  Accepted(Damaged(n, how)) <=> n > 1 /\ \A k \in n..L : log[k].outs = <<>>
  <2> DEFINE file == Damaged(n, how)
             last == IF how = "cut" THEN n ELSE L
             r == read_copperlists(file)
  <2>0. how # "whole" /\ last \in Nat /\ n <= last /\ last <= L /\ n \in Nat
    BY <1>1 DEF RunsOut
  <2>1. /\ Len(file) = last
        /\ \A k \in 1..last : /\ file[k].bytes = IF k = n THEN how ELSE "whole"
                              /\ file[k].copperlist = Copperlists[k]
    BY <1>1, <2>0 DEF Damaged
  <2> HIDE DEF file, last
  <2>2. Stops(file) = n
    BY <1>1, <1>4, <2>0, <2>1, StopsAt
  <2>3. LogEnd(file) = "Eof"
    BY <1>1, <2>0, <2>1, <2>2 DEF LogEnd
  <2>4. r = [k \in 1..(n - 1) |-> Copperlists[k]] /\ n - 1 \in Nat /\ Len(r) = n - 1
    BY <1>1, <2>0, <2>1, <2>2 DEF read_copperlists
  <2> HIDE DEF r
  <2>5. n = 1 => ~passed(replay(r))
    BY <2>4, GatePasses
  <2>6. n > 1 => passed(replay(r))
    <3>1. n > 1 => n - 1 \in 1..Len(log)
      BY <1>1, <2>0
    <3> QED BY <2>4, <3>1, BeginningPasses
  <2>7. n > 1 => (alarms_in(r) = received <=> \A k \in n..L : log[k].outs = <<>>)
    <3>1. n \in 1..(L + 1)
      BY <1>1, <2>0
    <3> QED BY <2>4, <3>1, BeginningHolds
  <2>8. Accepted(file) <=> alarms_in(r) = received /\ passed(replay(r))
    BY <2>3 DEF Accepted, r
  <2>9. n = 1 \/ n > 1
    BY <2>0
  <2> QED BY <2>5, <2>6, <2>7, <2>8, <2>9 DEF file
<1> QED BY <1>2, <1>3, <1>4

\* The log of every run without a transport fault replays to itself and is accepted; a
\* corrupt record is noticed; where the bytes run out, what comes before is accepted
\* exactly if no alarm is lost with the rest (read_recorded, LogEnd, main's assertions).
THEOREM DamageIsNoticed == Spec => []DamageNoticed
<1>1. TypeInv /\ OutInv /\ ReplayReproduces => DamageNoticed
  BY DamageIsSeen DEF DamageNoticed
<1> QED BY <1>1, FeederCorrect, LogReplays, OutInit, OutStep, TypeInit, TypeStep, PTL DEF Spec
-----------------------------------------------------------------------------
(***************************************************************************)
(* The negative control.                                                   *)
(***************************************************************************)
LEMMA SettledAfter ==
    ASSUME NEW m, Settled(m), NEW c \in Cycle, m.now_ns <= c.now_ns
    PROVE  Settled(WatchdogStep(m, c).state) /\ WatchdogStep(m, c).state.now_ns = c.now_ns
<1> DEFINE last == IF Len(c.events) = 0 THEN m.last_feed_ns ELSE c.now_ns
           mode == Mode(last, c.now_ns)
<1>1. WatchdogStep(m, c).state = M(mode, last, c.now_ns, <<>>)
  BY StepIs
<1>2. /\ c.now_ns \in 0..MaxClock /\ c.now_ns \in Nat /\ c.now_ns \in Times
      /\ Len(c.events) \in Nat
  BY CycleParts
<1>3. last \in Times /\ (last # None => last <= c.now_ns)
  <2>1. /\ m.last_feed_ns \in Times /\ m.now_ns \in 0..MaxClock
        /\ m.last_feed_ns # None => m.last_feed_ns \in Nat /\ m.last_feed_ns <= m.now_ns
    BY BoundAssumption DEF Settled, Times
  <2>2. m.last_feed_ns # None => m.last_feed_ns <= c.now_ns
    BY <1>2, <2>1, BoundAssumption
  <2> QED BY <1>2, <2>1, <2>2
<1> HIDE DEF last
<1> QED BY <1>1, <1>2, <1>3 DEF Settled, M

\* The machine that a run starts from.
LEMMA StartSettled == Settled(MInit) /\ MInit.now_ns = 0
<1>1. MInit = M("idle", None, 0, <<>>)
  BY ServiceAssumption DEF MachineDefault, M
<1>2. None \in Times /\ 0 \in 0..MaxClock
  BY BoundAssumption DEF Times
<1>3. Mode(None, 0) = "idle"
  BY <1>2, ModeParts
<1> QED BY <1>1, <1>2, <1>3 DEF Settled, M

\* Before each recorded step the machine was settled, at the time of the cycle before.
LEMMA SettledBefore ==
    ASSUME TypeInv, ReplayReproduces, CycleTimeCoversEvents
    PROVE  \A n \in 1..Len(log) : /\ Settled(trace[n].before)
                                  /\ trace[n].before.now_ns <= log[n].cycle.now_ns
<1> DEFINE Good(n) == /\ Settled(trace[n].before)
                      /\ trace[n].before.now_ns <= log[n].cycle.now_ns
           T == {n \in 1..Len(log) : ~Good(n)}
<1>1. SUFFICES ASSUME T # {} PROVE FALSE
  <2> HIDE DEF Good
  <2>1. \A n \in 1..Len(log) : Good(n)
    BY <1>1
  <2> QED BY <2>1 DEF Good
<1>2. PICK k \in T : \A j \in T : k <= j
  <2>1. T \in SUBSET Nat
    OBVIOUS
  <2> HIDE DEF T
  <2> QED BY <1>1, <2>1, Least
<1>3. k \in 1..Len(log) /\ ~Good(k) /\ Len(log) \in Nat
  <2> HIDE DEF Good
  <2> QED BY InboundTypes
<1>4. ASSUME NEW n \in 1..Len(log)
      PROVE  log[n].cycle \in Cycle /\ log[n].cycle.now_ns \in Nat /\ trace[n].before \in MState
  <2>1. log[n] \in Record /\ trace[n] \in Origin
    BY InboundTypes
  <2>2. log[n].cycle \in Cycle /\ trace[n].before \in MState
    BY <2>1 DEF Record, Origin
  <2> QED BY <2>2, CycleParts
<1>5. CASE k = 1
  <2>1. trace[k].before = MInit
    BY <1>3, <1>5 DEF ReplayReproduces
  <2> QED BY <1>3, <1>4, <2>1, StartSettled
<1>6. CASE k # 1
  <2>1. k - 1 \in 1..Len(log) /\ k - 1 \notin T
    <3> HIDE DEF T
    <3> QED BY <1>2, <1>3, <1>6
  <2>2. Good(k - 1)
    <3> HIDE DEF Good
    <3> QED BY <2>1
  <2> DEFINE m == trace[k - 1].before
             c == log[k - 1].cycle
  <2>3. Settled(m) /\ m.now_ns <= c.now_ns /\ c \in Cycle /\ m \in MState
    BY <1>4, <2>1, <2>2
  <2>4. trace[k].before = FsmStep(m, c).state
    BY <1>3, <1>6, <2>1 DEF ReplayReproduces
  <2>5. FsmStep(m, c) = WatchdogStep(m, c)
    BY <2>3, ServiceAssumption
  <2>6. c.now_ns <= log[k].cycle.now_ns
    <3>1. k - 1 < Len(log) /\ (k - 1) + 1 = k
      BY <1>3
    <3> QED BY <2>1, <3>1 DEF CycleTimeCoversEvents
  <2> HIDE DEF m, c
  <2>7. Settled(trace[k].before) /\ trace[k].before.now_ns = c.now_ns
    BY <2>3, <2>4, <2>5, SettledAfter
  <2> QED BY <1>3, <2>6, <2>7
<1> QED BY <1>5, <1>6

\* A cycle without a feed does not arm the watchdog.
LEMMA NoFeedNoArmed ==
    ASSUME NEW m, Settled(m), NEW c \in Cycle, m.now_ns <= c.now_ns, Len(c.events) = 0,
           NEW a \in 1..Len(WatchdogStep(m, c).outs)
    PROVE  WatchdogStep(m, c).outs[a] # Armed
<1> DEFINE l == m.last_feed_ns
           t == c.now_ns
           r == Report(Mode(l, m.now_ns), Mode(l, t), t - l)
<1>1. WatchdogStep(m, c).outs = r
  <2>1. m.gate = Mode(l, m.now_ns)
    BY DEF Settled
  <2> QED BY <2>1, StepIs
<1>2. CASE l = None
  <2>1. r = <<>>
    BY <1>2 DEF Mode, Report, Supervised!Mode, Supervised!Report
  <2> QED BY <1>1, <2>1
<1>3. CASE l # None
  <2>1. Mode(l, m.now_ns) # "idle"
    BY <1>3, ModeParts DEF Settled
  <2>2. r = <<>> \/ r = <<Supervised!Tripped(t - l)>> \/ r = <<Supervised!Recovered>>
    BY <2>1 DEF Report, Supervised!Report
  <2> HIDE DEF r
  <2>3. a \in 1..Len(r)
    BY <1>1
  <2>4. ASSUME NEW x, r = <<x>> PROVE r[a] = x
    BY <2>3, <2>4
  <2>5. r[a] = Supervised!Tripped(t - l) \/ r[a] = Supervised!Recovered
    <3>1. r # <<>>
      BY <2>3
    <3> QED BY <2>2, <2>4, <3>1
  <2> QED BY <1>1, <2>5 DEF Supervised!Tripped, Supervised!Recovered, Armed
<1> QED BY <1>2, <1>3

LEMMA ControlIsSeen ==
    ASSUME TypeInv, ReplayReproduces, CycleTimeCoversEvents, ArmedAt(Copperlists) # {}
    PROVE  ~passed(replay(Perturbed(Copperlists)))
<1> DEFINE L == Len(log)
           first == CHOOSE n \in ArmedAt(Copperlists) : \A k \in ArmedAt(Copperlists) : n <= k
           r == Perturbed(Copperlists)
           m == trace[first].before
           c == [log[first].cycle EXCEPT !.events = <<>>]
<1>1. /\ L \in Nat /\ Len(Copperlists) = L
      /\ \A n \in 1..L : /\ Copperlists[n].input = log[n].cycle
                         /\ Copperlists[n].output = log[n].outs
  BY InboundTypes DEF Copperlists
<1>2. first \in ArmedAt(Copperlists)
  <2>1. ArmedAt(Copperlists) \in SUBSET Nat
    BY <1>1, SMTT(30) DEF ArmedAt
  <2> QED BY <2>1, Least
<1>3. /\ first \in 1..L
      /\ \E a \in 1..Len(log[first].outs) : log[first].outs[a] = Armed
  BY <1>1, <1>2 DEF ArmedAt
<1>4. r = [Copperlists EXCEPT ![first].input.events = <<>>]
  BY DEF Perturbed
<1> HIDE DEF first
<1>5. /\ Len(r) = L /\ r[first].input = c /\ r[first].output = log[first].outs
      /\ \A n \in 1..(first - 1) : r[n].input = log[n].cycle
  <2> DEFINE s == Copperlists
  <2>1. s = [n \in 1..L |-> s[n]] /\ s[first].input = log[first].cycle
    BY <1>1, <1>3 DEF Copperlists
  <2>2. /\ r = [s EXCEPT ![first].input.events = <<>>]
        /\ s[first] = [id |-> first - 1, input |-> log[first].cycle, output |-> log[first].outs]
    BY <1>3, <1>4 DEF Copperlists
  <2>3. \A n \in 1..L : s[n].input = log[n].cycle /\ s[n].output = log[n].outs
    BY <1>1
  <2> HIDE DEF s, r
  <2>4. ASSUME NEW i, NEW x, NEW o
        PROVE  [[id |-> i, input |-> x, output |-> o] EXCEPT !.input.events = <<>>]
                  = [id |-> i, input |-> [x EXCEPT !.events = <<>>], output |-> o]
    OBVIOUS
  <2>5. [s[first] EXCEPT !.input.events = <<>>]
           = [id |-> first - 1, input |-> c, output |-> log[first].outs]
    BY <2>2, <2>4
  <2>6. r = [n \in 1..L |-> IF n = first THEN [s[first] EXCEPT !.input.events = <<>>]
                            ELSE s[n]]
    BY <1>3, <2>1, <2>2
  <2>7. /\ r = [n \in 1..L |-> IF n = first THEN [s[first] EXCEPT !.input.events = <<>>]
                              ELSE s[n]]
        /\ [s[first] EXCEPT !.input.events = <<>>].input = c
        /\ [s[first] EXCEPT !.input.events = <<>>].output = log[first].outs
    BY <2>5, <2>6
  <2>8. Len(r) = L /\ r[first] = [s[first] EXCEPT !.input.events = <<>>]
    BY <1>1, <1>3, <2>7
  <2>9. \A n \in 1..(first - 1) : r[n].input = log[n].cycle
    BY <1>1, <1>3, <2>3, <2>7
  <2> QED BY <2>7, <2>8, <2>9
<1> HIDE DEF r
<1>6. States(r)[first] = m
  <2>1. first \in 0..L /\ first \in 1..first /\ first <= L
    BY <1>1, <1>3
  <2>2. \A n \in 1..first : States(r)[n] = trace[n].before
    <3>1. /\ TypeInv /\ ReplayReproduces /\ L \in Nat /\ L = Len(r)
          /\ first \in 0..L /\ first <= Len(log)
          /\ \A n \in 1..(first - 1) : r[n].input = log[n].cycle
      BY <1>1, <1>5, <2>1
    <3> HIDE DEF L
    <3> QED BY ONLY <3>1, ReplayFollows
  <2> QED BY <2>1, <2>2
<1>7. c \in Cycle /\ Len(c.events) = 0 /\ c.now_ns = log[first].cycle.now_ns
  <2>1. log[first].cycle \in Cycle
    <3>1. log[first] \in Record
      BY <1>3, InboundTypes
    <3> QED BY <3>1 DEF Record
  <2>2. <<>> \in UNION {[1..n -> 1..MaxSent] : n \in 0..MaxBatch}
    <3>1. 0 \in 0..MaxBatch /\ <<>> \in [1..0 -> 1..MaxSent]
      BY MaxBatchAssumption
    <3> QED BY <3>1
  <2> QED BY <2>1, <2>2 DEF Cycle
<1>8. Settled(m) /\ m.now_ns <= c.now_ns /\ m \in MState
  <2>1. trace[first] \in Origin
    BY <1>3, InboundTypes
  <2> QED BY <1>3, <1>7, <2>1, SettledBefore DEF Origin
<1> HIDE DEF m, c
<1>9. FsmStep(m, c).outs = WatchdogStep(m, c).outs
  BY <1>7, <1>8, ServiceAssumption
<1>10. \A a \in 1..Len(WatchdogStep(m, c).outs) : WatchdogStep(m, c).outs[a] # Armed
  BY <1>7, <1>8, NoFeedNoArmed
<1>11. FsmStep(m, c).outs # log[first].outs
  BY <1>3, <1>9, <1>10
<1>12. first \in Divergent(r)
  BY <1>3, <1>5, <1>6, <1>11 DEF Divergent
<1>13. ~passed(replay(r))
  BY <1>1, <1>5, <1>12, GatePasses
<1> QED BY <1>13 DEF r

\* A recording whose first arming feeds were dropped does not pass the gate, in no run
\* and with no timeout (the negative control in main).
THEOREM ControlIsCaught == Spec => []ControlDiverges
<1>1. TypeInv /\ ReplayReproduces /\ CycleTimeCoversEvents => ControlDiverges
  BY ControlIsSeen DEF ControlDiverges
<1> QED BY <1>1, FeederCorrect, LogReplays, TimeCoversEvents, PTL
-----------------------------------------------------------------------------
(***************************************************************************)
(* Logs with holes.                                                        *)
(***************************************************************************)
\* How many of the kept records there are up to x: its place in the recording.
Rank(kept, x) == Cardinality({k \in kept : k <= x})

LEMMA RankOrder ==
    ASSUME NEW L \in Nat, NEW kept \in SUBSET (1..L)
    PROVE  /\ Cardinality(kept) \in Nat /\ IsFiniteSet(kept)
           /\ \A x \in kept : Rank(kept, x) \in 1..Cardinality(kept)
           /\ \A x, y \in kept : x < y => Rank(kept, x) < Rank(kept, y)
<1>1. IsFiniteSet(kept) /\ Cardinality(kept) \in Nat
  <2>1. IsFiniteSet(1..L)
    BY FS_Interval
  <2>2. IsFiniteSet(kept)
    BY <2>1, FS_Subset
  <2> QED BY <2>2, FS_CardinalityType
<1> DEFINE Upto(x) == {k \in kept : k <= x}
<1>2. ASSUME NEW x \in kept
      PROVE  /\ IsFiniteSet(Upto(x)) /\ Cardinality(Upto(x)) \in Nat
             /\ Cardinality(Upto(x)) <= Cardinality(kept) /\ x \in Upto(x)
  <2>1. Upto(x) \in SUBSET kept /\ x \in Upto(x)
    OBVIOUS
  <2> HIDE DEF Upto
  <2> QED BY <1>1, <2>1, FS_Subset, FS_CardinalityType
<1>3. ASSUME NEW x \in kept PROVE Cardinality(Upto(x)) # 0
  <2> HIDE DEF Upto
  <2> QED BY <1>2, FS_EmptySet
<1>4. ASSUME NEW x \in kept, NEW y \in kept, x < y
      PROVE  Cardinality(Upto(x)) < Cardinality(Upto(y))
  <2>1. Upto(x) \in SUBSET Upto(y) /\ y \in Upto(y) /\ y \notin Upto(x)
    <3>1. \A k \in kept : k \in Nat
      OBVIOUS
    <3>2. y \in Upto(y) /\ y \notin Upto(x)
      BY <1>4, <3>1
    <3>3. ASSUME NEW k \in kept, k <= x PROVE k <= y
      BY <1>4, <3>1, <3>3
    <3> QED BY <3>2, <3>3
  <2> HIDE DEF Upto
  <2>2. /\ Cardinality(Upto(x)) <= Cardinality(Upto(y))
        /\ Cardinality(Upto(x)) # Cardinality(Upto(y))
    BY <1>2, <2>1, FS_Subset
  <2> QED BY <1>2, <2>2
<1> QED BY <1>1, <1>2, <1>3, <1>4 DEF Rank

\* Two kept records with none between them are neighbours in the recording.
LEMMA RankNext ==
    ASSUME NEW L \in Nat, NEW kept \in SUBSET (1..L), NEW x \in kept, NEW y \in kept,
           x < y, \A k \in kept : k <= x \/ y <= k
    PROVE  Rank(kept, y) = Rank(kept, x) + 1
<1> DEFINE below == {k \in kept : k <= x}
<1>1. {k \in kept : k <= y} = below \cup {y} /\ y \notin below /\ below \in SUBSET kept
  <2>1. ASSUME NEW k \in kept PROVE (k <= y <=> k <= x \/ k = y) /\ ~(y <= x)
    <3>1. k \in Nat /\ x \in Nat /\ y \in Nat
      OBVIOUS
    <3>2. k <= x \/ y <= k
      OBVIOUS
    <3> QED BY <3>1, <3>2
  <2> QED BY <2>1
<1> HIDE DEF below
<1>2. IsFiniteSet(below)
  <2>1. IsFiniteSet(kept)
    BY RankOrder
  <2> QED BY <1>1, <2>1, FS_Subset
<1>3. Cardinality(below \cup {y}) = Cardinality(below) + 1
  BY <1>1, <1>2, FS_AddElement
<1> QED BY <1>1, <1>3 DEF Rank, below

LEMMA NthIs ==
    ASSUME NEW L \in Nat, NEW kept \in SUBSET (1..L), NEW x \in kept
    PROVE  (CHOOSE n \in kept : Rank(kept, n) = Rank(kept, x)) = x
<1>1. ASSUME NEW n \in kept, Rank(kept, n) = Rank(kept, x) PROVE n = x
  <2>1. \A i, j \in kept : i < j => Rank(kept, i) < Rank(kept, j)
    BY RankOrder
  <2>2. \A i \in kept : Rank(kept, i) \in Nat /\ i \in Nat
    <3>1. \A i \in kept : Rank(kept, i) \in 1..Cardinality(kept)
      BY RankOrder
    <3>2. Cardinality(kept) \in Nat
      BY RankOrder
    <3> QED BY <3>1, <3>2
  <2> QED BY <1>1, <2>1, <2>2
<1> QED BY <1>1

LEMMA HolesAreSeen ==
    ASSUME TypeInv, ReplayReproduces, NEW kept \in SUBSET (1..Len(log)), NEW r,
           r = [i \in 1..Cardinality(kept) |->
                   Copperlists[CHOOSE n \in kept : Rank(kept, n) = i]]
    PROVE  IF kept # {} /\ kept = 1..Cardinality(kept) THEN passed(replay(r))
           ELSE passed(replay(r)) => \A a, b \in kept : \A n \in a..b : n \in kept
<1> DEFINE N == Cardinality(kept)
<1>1. Len(log) \in Nat /\ N \in Nat /\ Len(r) = N
  <2>1. Len(log) \in Nat
    BY InboundTypes
  <2>2. N \in Nat
    BY <2>1, RankOrder
  <2> QED BY <2>1, <2>2
<1>2. ASSUME NEW x \in kept
      PROVE  /\ Rank(kept, x) \in 1..N /\ r[Rank(kept, x)] = Copperlists[x]
             /\ x \in 1..Len(log) /\ Copperlists[x].id = x - 1
  <2>1. Rank(kept, x) \in 1..N
    BY <1>1, RankOrder
  <2>2. (CHOOSE n \in kept : Rank(kept, n) = Rank(kept, x)) = x
    BY <1>1, NthIs
  <2> QED BY <2>1, <2>2 DEF Copperlists
<1>3. ASSUME kept # {}, kept = 1..N PROVE passed(replay(r))
  <2>1. ASSUME NEW i \in 1..N PROVE Rank(kept, i) = i
    <3>1. {k \in kept : k <= i} = 1..i
      BY <1>1, <1>3
    <3>2. Cardinality(1..i) = i
      BY <1>1, FS_Interval
    <3> QED BY <3>1, <3>2 DEF Rank
  <2>2. \A i \in 1..N : r[i] = Copperlists[i]
    BY <1>2, <1>3, <2>1
  <2>3. N \in 1..Len(log)
    BY <1>1, <1>3
  <2> HIDE DEF N
  <2>4. r = [i \in 1..N |-> Copperlists[i]]
    BY <2>2 DEF N
  <2> QED BY <2>3, <2>4, BeginningPasses
<1>4. ASSUME passed(replay(r)), NEW a \in kept, NEW b \in kept, NEW n \in a..b, n \notin kept
      PROVE  FALSE
  <2> DEFINE below == {k \in kept : k < n}
             above == {k \in kept : n < k}
  <2>1. /\ below \in SUBSET (1..Len(log)) /\ a \in below /\ above \in SUBSET Nat /\ b \in above
        /\ n \in Nat
    <3>1. /\ \A k \in kept : k \in Nat /\ k \in 1..Len(log)
          /\ n \in Int /\ a <= n /\ n <= b
      BY <1>1, <1>4
    <3>2. a # n /\ b # n
      BY <1>4
    <3>3. n \in Nat /\ a < n /\ n < b
      BY <3>1, <3>2
    <3> QED BY <3>1, <3>3
  <2>2. PICK lo \in below : \A k \in below : k <= lo
    <3> HIDE DEF below
    <3> QED BY <1>1, <2>1, LastOf
  <2>3. PICK hi \in above : \A k \in above : hi <= k
    <3> HIDE DEF above
    <3> QED BY <2>1, Least
  <2>4. /\ lo \in kept /\ hi \in kept /\ lo < n /\ n < hi /\ lo \in Nat /\ hi \in Nat
        /\ \A k \in kept : k <= lo \/ hi <= k
    BY <1>1, <1>4, <2>1, <2>2, <2>3
  <2>5. Rank(kept, hi) = Rank(kept, lo) + 1
    <3>1. lo < hi
      BY <2>1, <2>4
    <3> QED BY <1>1, <2>4, <3>1, RankNext
  <2>6. IdGaps(r) = {}
    BY <1>1, <1>4, GatePasses
  <2> DEFINE i == Rank(kept, lo)
  <2>7. i \in 1..N /\ i + 1 \in 1..N /\ r[i].id = lo - 1 /\ r[i + 1].id = hi - 1
    <3>1. i \in 1..N /\ r[i].id = lo - 1
      BY <1>2, <2>4
    <3>2. Rank(kept, hi) \in 1..N /\ r[Rank(kept, hi)].id = hi - 1
      BY <1>2, <2>4
    <3> QED BY <2>5, <3>1, <3>2
  <2> HIDE DEF i
  <2>8. r[i + 1].id = r[i].id + 1
    <3>1. i + 1 \in 2..N /\ (i + 1) - 1 = i
      BY <1>1, <2>7
    <3>2. ASSUME NEW k \in 2..N PROVE r[k].id = r[k - 1].id + 1
      BY ONLY <1>1, <2>6, k \in 2..N DEF IdGaps
    <3> HIDE DEF N
    <3>3. r[i + 1].id = r[(i + 1) - 1].id + 1
      BY ONLY <3>1, <3>2
    <3> QED BY ONLY <3>1, <3>3
  <2> QED BY <2>1, <2>4, <2>7, <2>8
<1> QED BY <1>3, <1>4

\* The gate passes on every beginning of the log of a run, and on nothing with a hole
\* in it: the ids of its copperlists count its records (replay_gate's id_gaps).
THEOREM HolesAreNoticed == Spec => []HolesNoticed
<1>1. TypeInv /\ ReplayReproduces => HolesNoticed
  BY HolesAreSeen DEF HolesNoticed, Rank
<1> QED BY <1>1, FeederCorrect, LogReplays, PTL
=============================================================================
