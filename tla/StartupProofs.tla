--------------------------- MODULE StartupProofs ---------------------------
(***************************************************************************)
(* Every channel end is in one place, and if everybody installs before     *)
(* building, every application has the ends of its own driver; and the     *)
(* thread of a driver is configured as far as the host allows.             *)
(***************************************************************************)
EXTENDS DriverThread, TLAPS, WellFoundedInduction

Sides == {"in", "out"}
Both(b) == {EndOf(b, attempt[b], "in"), EndOf(b, attempt[b], "out")}

LEMMA EndFacts ==
    ASSUME NEW b \in Builders, NEW n \in Nat, NEW s \in Sides
    PROVE  /\ EndOf(b, n, s) \in End /\ EndOf(b, n, s) # None
           /\ EndOf(b, n, s).of = b /\ EndOf(b, n, s).try = n /\ EndOf(b, n, s).side = s
BY NoneAssumption DEF EndOf, End, Sides

LEMMA KeyFacts ==
    ASSUME NEW b \in Builders
    PROVE  /\ Side(b) \in Sides /\ KeyAt(b) \in Keys
           /\ InKey[b] \in Keys /\ OutKey[b] \in Keys
           /\ \A c \in Builders : InKey[b] # OutKey[c]
BY KeyAssumption DEF KeyAt, Side, Sides

-----------------------------------------------------------------------------
\* The types of all variables (all of Startup).
THEOREM StartupTypes == Spec => []TypeOK
<1>1. Init => TypeOK
  <2> SUFFICES ASSUME Init PROVE TypeOK
    OBVIOUS
  <2>1. slots \in [Keys -> End \cup {None}] /\ attempt \in [Builders -> Nat]
    BY DEF Init
  <2>2. held \in [Builders -> SUBSET End]
    BY DEF Init
  <2> QED
    BY <2>1, <2>2 DEF Init, TypeOK, Idle
<1>2. TypeOK /\ [Next]_vars => TypeOK'
  <2> SUFFICES ASSUME TypeOK, [Next]_vars PROVE TypeOK'
    OBVIOUS
  <2>1. ASSUME NEW b \in Builders, Spawn(b) PROVE TypeOK'
    <3>1. attempt[b] + 1 \in Nat
      BY DEF TypeOK
    <3> QED
      BY <2>1, <3>1, EndFacts DEF Spawn, TypeOK, Sides
  <2>2. ASSUME NEW b \in Builders, Install(b) PROVE TypeOK'
    <3>1. EndOf(b, attempt[b], Side(b)) \in End
      BY EndFacts, KeyFacts DEF TypeOK
    <3> QED
      BY <2>2, <3>1 DEF Install, TypeOK
  <2>3. ASSUME NEW b \in Builders, NEW how \in {"failed", "panicked", "joining"}, GiveUp(b, how),
               slots' \in [Keys -> End \cup {None}]
        PROVE  TypeOK'
    BY <2>3 DEF GiveUp, TypeOK, Idle
  <2>4. ASSUME NEW b \in Builders, InstallPanics(b) \/ NewFails(b) \/ RunPanics(b) \/ StopAndDrop(b)
        PROVE  TypeOK'
    BY <2>3, <2>4 DEF InstallPanics, NewFails, RunPanics, StopAndDrop, TypeOK
  <2>5. ASSUME NEW b \in Builders, TakeIllTyped(b) PROVE TypeOK'
    <3>1. slots' \in [Keys -> End \cup {None}]
      BY <2>5 DEF TakeIllTyped, Emptied, TypeOK
    <3> QED
      BY <2>3, <2>5, <3>1 DEF TakeIllTyped
  <2>6. ASSUME NEW b \in Builders, BuildAnyway(b) PROVE TypeOK'
    BY <2>6 DEF BuildAnyway, TypeOK
  <2>7. ASSUME NEW b \in Builders, New(b) PROVE TypeOK'
    <3>1. slots[KeyAt(b)] \in End
      BY <2>7, KeyFacts DEF New, Occupied, TypeOK
    <3> QED
      BY <2>7, <3>1 DEF New, Emptied, TypeOK
  <2>8. ASSUME NEW b \in Builders, Join(b) PROVE TypeOK'
    BY <2>8 DEF Join, TypeOK, Idle
  <2>9. ASSUME NEW b \in Builders, NEW n \in 1..MaxTries[b], ThreadEnds(b, n) PROVE TypeOK'
    <3>1. n \in Nat
      BY TriesAssumption
    <3> QED
      BY <2>9, <3>1 DEF ThreadEnds, TypeOK
  <2>10. CASE UNCHANGED vars
    BY <2>10 DEF vars, TypeOK
  <2> QED
    BY <2>1, <2>2, <2>4, <2>5, <2>6, <2>7, <2>8, <2>9, <2>10
    DEF Next, Disconnected, TransportFails
<1> QED
  BY <1>1, <1>2, PTL DEF Spec

-----------------------------------------------------------------------------
\* No end is of a driver that was not spawned yet, so that a new one is nowhere; an end
\* that is being installed is in its builder's hands.
Spawned ==
    /\ \A k \in Keys : slots[k] # None => slots[k].try <= attempt[slots[k].of]
    /\ \A b \in Builders : \A e \in held[b] : e.try <= attempt[e.of]
InHand ==
    \A b \in Builders :
        /\ pc[b] = "install_in" => held[b] = Both(b)
        /\ pc[b] = "install_out" => held[b] = {EndOf(b, attempt[b], "out")}
PlaceInv == Spawned /\ InHand /\ EndsOnce

LEMMA PlaceInit == Init => PlaceInv
BY DEF Init, PlaceInv, Spawned, InHand, EndsOnce

\* A step that adds no end to the registry or to anybody's hands.
LEMMA PlaceShrinks ==
    ASSUME TypeOK, PlaceInv, attempt' = attempt,
           \A k \in Keys : slots'[k] \in {slots[k], None},
           \A b \in Builders : held'[b] \subseteq held[b],
           \A b \in Builders : pc'[b] \in {"install_in", "install_out"} =>
                pc'[b] = pc[b] /\ held'[b] = held[b]
    PROVE  PlaceInv'
<1>1. Spawned'
  BY DEF TypeOK, PlaceInv, Spawned
<1>2. InHand'
  BY DEF PlaceInv, InHand, Both
<1>3. EndsOnce'
  <2>1. ASSUME NEW b \in Builders, NEW e \in held'[b]
        PROVE  ~Parked(e)' /\ \A c \in Builders \ {b} : e \notin held'[c]
    <3>1. e \in End /\ e # None
      BY <2>1, NoneAssumption DEF TypeOK
    <3> QED
      BY <2>1, <3>1 DEF PlaceInv, EndsOnce, Parked
  <2>2. \A k, l \in Keys : slots'[k] = slots'[l] /\ slots'[k] # None => k = l
    BY DEF PlaceInv, EndsOnce
  <2> QED
    BY <2>1, <2>2 DEF EndsOnce
<1> QED
  BY <1>1, <1>2, <1>3 DEF PlaceInv

LEMMA PlaceSpawn ==
    ASSUME TypeOK, PlaceInv, NEW b \in Builders, Spawn(b)
    PROVE  PlaceInv'
<1> DEFINE n == attempt[b] + 1
<1>1. n \in Nat /\ attempt'[b] = n
  BY DEF TypeOK, Spawn
<1>2. \A c \in Builders \ {b} : attempt'[c] = attempt[c] /\ held'[c] = held[c] /\ pc'[c] = pc[c]
  BY DEF TypeOK, Spawn
<1>3. held'[b] = {EndOf(b, n, "in"), EndOf(b, n, "out")} /\ pc'[b] = "install_in" /\ slots' = slots
  BY DEF TypeOK, Spawn
<1>4. ASSUME NEW e \in held'[b]
      PROVE  e \in End /\ e # None /\ e.of = b /\ e.try = n
  BY <1>1, <1>3, <1>4, EndFacts DEF Sides
<1>5. \A e \in End : e.try <= attempt[e.of] => e.try <= attempt'[e.of] /\ (e.of = b => e.try # n)
  BY <1>1, <1>2 DEF TypeOK, End
<1>6. Spawned'
  BY <1>1, <1>2, <1>3, <1>4, <1>5 DEF TypeOK, PlaceInv, Spawned
<1>7. InHand'
  BY <1>1, <1>2, <1>3 DEF PlaceInv, InHand, Both
<1>8. EndsOnce'
  <2>1. \A e \in held'[b] : ~Parked(e)' /\ \A c \in Builders \ {b} : e \notin held'[c]
    BY <1>2, <1>3, <1>4, <1>5 DEF TypeOK, PlaceInv, Spawned, Parked
  <2>2. \A c \in Builders \ {b} : \A e \in held'[c] :
            ~Parked(e)' /\ \A d \in Builders \ {c} : e \notin held'[d]
    BY <2>1, <1>2, <1>3 DEF PlaceInv, EndsOnce, Parked
  <2> QED
    BY <2>1, <2>2, <1>3 DEF PlaceInv, EndsOnce
<1> QED
  BY <1>6, <1>7, <1>8 DEF PlaceInv

LEMMA PlaceInstall ==
    ASSUME TypeOK, PlaceInv, NEW b \in Builders, Install(b)
    PROVE  PlaceInv'
<1> DEFINE end == EndOf(b, attempt[b], Side(b))
           key == KeyAt(b)
<1>1. /\ key \in Keys /\ attempt[b] \in Nat
      /\ end \in End /\ end # None /\ end.of = b /\ end.try = attempt[b]
  BY EndFacts, KeyFacts DEF TypeOK
<1>2. end \in held[b]
  BY DEF PlaceInv, InHand, Both, Install, Side
<1>3. /\ slots[key] = None /\ slots'[key] = end
      /\ \A k \in Keys \ {key} : slots'[k] = slots[k]
  BY <1>1 DEF TypeOK, Install, Occupied
<1>4. held'[b] = held[b] \ {end} /\ \A c \in Builders \ {b} : held'[c] = held[c] /\ pc'[c] = pc[c]
  BY DEF TypeOK, Install
<1>5. attempt' = attempt
  BY DEF Install
<1>6. Spawned'
  BY <1>1, <1>3, <1>4, <1>5 DEF TypeOK, PlaceInv, Spawned
<1>7. InHand'
  <2>1. pc[b] = "install_in" => held'[b] = {EndOf(b, attempt[b], "out")} /\ pc'[b] = "install_out"
    <3>1. EndOf(b, attempt[b], "in") # EndOf(b, attempt[b], "out")
      BY DEF EndOf
    <3> QED
      BY <1>4, <3>1 DEF PlaceInv, InHand, Both, Install, Side, TypeOK
  <2>2. pc[b] # "install_in" => pc'[b] = "new_in"
    BY DEF Install, Side, TypeOK
  <2> QED
    BY <1>4, <1>5, <2>1, <2>2 DEF PlaceInv, InHand, Both, Install
<1>8. EndsOnce'
  <2>1. \A c \in Builders : held'[c] \subseteq held[c] /\ end \notin held'[c]
    BY <1>2, <1>4 DEF PlaceInv, EndsOnce
  <2>2. \A k \in Keys : slots[k] # end
    BY <1>2 DEF PlaceInv, EndsOnce, Parked
  <2>3. \A k, l \in Keys : slots'[k] = slots'[l] /\ slots'[k] # None => k = l
    BY <1>3, <2>2 DEF PlaceInv, EndsOnce
  <2>4. \A c \in Builders : \A e \in held'[c] : ~Parked(e)'
    BY <1>3, <2>1 DEF PlaceInv, EndsOnce, Parked
  <2> QED
    BY <2>1, <2>3, <2>4 DEF PlaceInv, EndsOnce
<1> HIDE DEF end, key
<1> QED
  BY <1>6, <1>7, <1>8 DEF PlaceInv

LEMMA PlaceNew ==
    ASSUME TypeOK, PlaceInv, NEW b \in Builders, New(b)
    PROVE  PlaceInv'
<1> DEFINE key == KeyAt(b)
           end == slots[key]
<1>1. key \in Keys /\ end \in End /\ end # None
  BY KeyFacts DEF TypeOK, New, Occupied
<1>2. slots'[key] = None /\ \A k \in Keys \ {key} : slots'[k] = slots[k]
  BY <1>1 DEF TypeOK, New, Emptied
<1>3. held'[b] = held[b] \cup {end} /\ \A c \in Builders \ {b} : held'[c] = held[c] /\ pc'[c] = pc[c]
  BY DEF TypeOK, New
<1>4. attempt' = attempt /\ pc'[b] \in {"new_out", "running"}
  BY DEF TypeOK, New
<1>5. \A c \in Builders : end \notin held[c]
  BY <1>1 DEF PlaceInv, EndsOnce, Parked
<1>6. \A k \in Keys : slots'[k] # end
  BY <1>1, <1>2 DEF PlaceInv, EndsOnce
<1> HIDE DEF key
<1>7. Spawned'
  BY <1>1, <1>2, <1>3, <1>4 DEF PlaceInv, Spawned
<1>8. InHand'
  BY <1>3, <1>4 DEF PlaceInv, InHand, Both
<1>9. EndsOnce'
  <2>1. \A c \in Builders : \A e \in held[c] : e # None
    BY NoneAssumption DEF TypeOK
  <2>2. \A c \in Builders : \A e \in held'[c] : ~Parked(e)'
    <3> SUFFICES ASSUME NEW c \in Builders, NEW e \in held'[c], NEW k \in Keys, slots'[k] = e
                 PROVE  FALSE
      BY DEF Parked
    <3>1. e # end
      BY <1>6
    <3>2. e \in held[c]
      BY <1>3, <3>1
    <3>3. e # None
      BY <2>1, <3>2
    <3> QED
      BY <1>2, <3>2, <3>3 DEF PlaceInv, EndsOnce, Parked
  <2>3. \A c \in Builders : \A e \in held'[c] : \A d \in Builders \ {c} : e \notin held'[d]
    BY <1>3, <1>5 DEF PlaceInv, EndsOnce
  <2>4. \A k, l \in Keys : slots'[k] = slots'[l] /\ slots'[k] # None => k = l
    BY <1>2 DEF PlaceInv, EndsOnce
  <2> QED
    BY <2>2, <2>3, <2>4 DEF EndsOnce
<1> QED
  BY <1>7, <1>8, <1>9 DEF PlaceInv

LEMMA PlaceInductive == TypeOK /\ PlaceInv /\ [Next]_vars => PlaceInv'
<1> SUFFICES ASSUME TypeOK, PlaceInv, [Next]_vars PROVE PlaceInv'
  OBVIOUS
<1>1. ASSUME NEW b \in Builders, NEW how \in {"failed", "panicked", "joining"}, GiveUp(b, how),
             \A k \in Keys : slots'[k] \in {slots[k], None}
      PROVE  PlaceInv'
  <2>1. \A c \in Builders \ {b} : held'[c] = held[c] /\ pc'[c] = pc[c]
    BY <1>1 DEF GiveUp, TypeOK
  <2>2. held'[b] = {} /\ pc'[b] = how /\ attempt' = attempt
    BY <1>1 DEF GiveUp, TypeOK
  <2> QED
    BY <1>1, <2>1, <2>2, PlaceShrinks
<1>2. ASSUME NEW b \in Builders, InstallPanics(b) \/ NewFails(b) \/ RunPanics(b) \/ StopAndDrop(b)
      PROVE  PlaceInv'
  BY <1>1, <1>2 DEF InstallPanics, NewFails, RunPanics, StopAndDrop
<1>3. ASSUME NEW b \in Builders, TakeIllTyped(b) PROVE PlaceInv'
  <2>1. \A k \in Keys : slots'[k] \in {slots[k], None}
    BY <1>3 DEF TakeIllTyped, Emptied, TypeOK
  <2> QED
    BY <1>1, <1>3, <2>1 DEF TakeIllTyped
<1>4. ASSUME NEW b \in Builders, BuildAnyway(b) \/ Join(b) PROVE PlaceInv'
  <2>1. slots' = slots /\ held' = held /\ attempt' = attempt
    BY <1>4 DEF BuildAnyway, Join
  <2>2. \A c \in Builders : pc'[c] \in {"install_in", "install_out"} => pc'[c] = pc[c]
    BY <1>4 DEF BuildAnyway, Join, TypeOK
  <2> QED
    BY <2>1, <2>2, PlaceShrinks
<1>5. ASSUME UNCHANGED <<slots, held, pc, attempt>> PROVE PlaceInv'
  BY <1>5, PlaceShrinks
<1> QED
  BY <1>2, <1>3, <1>4, <1>5, PlaceSpawn, PlaceInstall, PlaceNew
  DEF Next, Disconnected, TransportFails, ThreadEnds, vars

\* Every end is in one place, whatever the builders do (take, install).
THEOREM EndsUsedOnce == Spec => []EndsOnce
<1>1. PlaceInv => EndsOnce
  BY DEF PlaceInv
<1> QED
  BY <1>1, StartupTypes, PlaceInit, PlaceInductive, PTL DEF Spec

-----------------------------------------------------------------------------
\* What an installing, building or running builder can rely on, if nobody forgets to
\* install: between its installs and its takes the slots are its own.
OwnInv ==
    ~forgot => \A b \in Builders :
        /\ pc[b] \in {"install_out", "new_in"} => slots[InKey[b]] = EndOf(b, attempt[b], "in")
        /\ pc[b] \in {"new_in", "new_out"} => slots[OutKey[b]] = EndOf(b, attempt[b], "out")
        /\ pc[b] = "new_in" => held[b] = {}
        /\ pc[b] = "new_out" => held[b] = {EndOf(b, attempt[b], "in")}
        /\ pc[b] = "running" => held[b] = Both(b)

LEMMA OwnInit == Init => OwnInv
BY DEF Init, OwnInv

\* The slot that a building builder takes from is its own.
LEMMA OwnSlot ==
    ASSUME TypeOK, OwnInv, ~forgot, NEW b \in Builders, pc[b] \in {"new_in", "new_out"}
    PROVE  slots[KeyAt(b)] = EndOf(b, attempt[b], Side(b)) /\ slots[KeyAt(b)].of = b
<1>1. slots[KeyAt(b)] = EndOf(b, attempt[b], Side(b))
  BY DEF OwnInv, KeyAt, Side
<1>2. EndOf(b, attempt[b], Side(b)).of = b
  BY EndFacts, KeyFacts DEF TypeOK
<1> QED
  BY <1>1, <1>2

\* A step of builder b that changes no slot in which another one's end is parked.
LEMMA OwnOthers ==
    ASSUME TypeOK, OwnInv, ~forgot, NEW b \in Builders,
           \A c \in Builders \ {b} :
               attempt'[c] = attempt[c] /\ held'[c] = held[c] /\ pc'[c] = pc[c],
           \A k \in Keys : slots'[k] = slots[k] \/ slots[k] = None \/ slots[k].of = b,
           NEW c \in Builders \ {b}
    PROVE  /\ pc'[c] \in {"install_out", "new_in"} => slots'[InKey[c]] = EndOf(c, attempt'[c], "in")
           /\ pc'[c] \in {"new_in", "new_out"} => slots'[OutKey[c]] = EndOf(c, attempt'[c], "out")
           /\ pc'[c] = "new_in" => held'[c] = {}
           /\ pc'[c] = "new_out" => held'[c] = {EndOf(c, attempt'[c], "in")}
           /\ pc'[c] = "running" => held'[c] = Both(c)'
<1>1. \A s \in Sides : EndOf(c, attempt[c], s) # None /\ EndOf(c, attempt[c], s).of = c
  BY EndFacts DEF TypeOK
<1>2. InKey[c] \in Keys /\ OutKey[c] \in Keys
  BY KeyFacts
<1>3. pc[c] \in {"install_out", "new_in"} => slots[InKey[c]] = EndOf(c, attempt[c], "in")
  BY DEF OwnInv
<1>4. pc[c] \in {"new_in", "new_out"} => slots[OutKey[c]] = EndOf(c, attempt[c], "out")
  BY DEF OwnInv
<1>5. pc'[c] \in {"install_out", "new_in"} => slots'[InKey[c]] = EndOf(c, attempt'[c], "in")
  BY <1>1, <1>2, <1>3 DEF Sides
<1>6. pc'[c] \in {"new_in", "new_out"} => slots'[OutKey[c]] = EndOf(c, attempt'[c], "out")
  BY <1>1, <1>2, <1>4 DEF Sides
<1> QED
  BY <1>5, <1>6 DEF OwnInv, Both

LEMMA OwnInductive == TypeOK /\ PlaceInv /\ OwnInv /\ [Next]_vars => OwnInv'
<1> SUFFICES ASSUME TypeOK, PlaceInv, OwnInv, [Next]_vars, ~forgot' PROVE OwnInv'
  BY DEF OwnInv
<1>1. ~forgot
  BY DEF Next, Spawn, Install, InstallPanics, BuildAnyway, New, NewFails, TakeIllTyped, RunPanics,
         StopAndDrop, Join, GiveUp, Disconnected, TransportFails, ThreadEnds, vars, TypeOK
<1>2. ASSUME NEW b \in Builders, Spawn(b) PROVE OwnInv'
  <2>1. /\ \A c \in Builders \ {b} :
              attempt'[c] = attempt[c] /\ held'[c] = held[c] /\ pc'[c] = pc[c]
        /\ slots' = slots /\ pc'[b] = "install_in"
    BY <1>2 DEF Spawn, TypeOK
  <2> QED
    BY <1>1, <2>1, OwnOthers DEF OwnInv
<1>3. ASSUME NEW b \in Builders, Install(b) PROVE OwnInv'
  <2> DEFINE key == KeyAt(b)
             end == EndOf(b, attempt[b], Side(b))
  <2>1. attempt' = attempt /\ \A c \in Builders \ {b} : held'[c] = held[c] /\ pc'[c] = pc[c]
    BY <1>3 DEF Install, TypeOK
  <2>2. slots[key] = None /\ slots'[key] = end /\ \A k \in Keys \ {key} : slots'[k] = slots[k]
    BY <1>3, KeyFacts DEF Install, Occupied, TypeOK
  <2>3. pc[b] = "install_in" => /\ pc'[b] = "install_out"
                                /\ slots'[InKey[b]] = EndOf(b, attempt'[b], "in")
    BY <1>3, <2>1, <2>2 DEF Install, KeyAt, Side, TypeOK
  <2>4. pc[b] = "install_out" => /\ pc'[b] = "new_in" /\ held'[b] = {}
                                 /\ slots'[OutKey[b]] = EndOf(b, attempt'[b], "out")
                                 /\ slots'[InKey[b]] = EndOf(b, attempt'[b], "in")
    <3> SUFFICES ASSUME pc[b] = "install_out"
                 PROVE  /\ pc'[b] = "new_in" /\ held'[b] = {}
                        /\ slots'[OutKey[b]] = EndOf(b, attempt'[b], "out")
                        /\ slots'[InKey[b]] = EndOf(b, attempt'[b], "in")
      OBVIOUS
    <3>1. key = OutKey[b] /\ end = EndOf(b, attempt[b], "out") /\ pc'[b] = "new_in"
      BY <1>3 DEF Install, KeyAt, Side, TypeOK
    <3>2. held'[b] = {}
      BY <1>3, <3>1 DEF Install, TypeOK, PlaceInv, InHand
    <3>3. slots[InKey[b]] = EndOf(b, attempt[b], "in") /\ InKey[b] \in Keys \ {key}
      BY <1>1, <3>1, KeyFacts DEF OwnInv
    <3> QED
      BY <2>1, <2>2, <3>1, <3>2, <3>3
  <2>5. pc[b] \in {"install_in", "install_out"}
    BY <1>3 DEF Install
  <2>6. \A k \in Keys : slots'[k] = slots[k] \/ slots[k] = None \/ slots[k].of = b
    BY <2>2
  <2> HIDE DEF key, end
  <2> QED
    BY <1>1, <2>1, <2>3, <2>4, <2>5, <2>6, OwnOthers DEF OwnInv
<1>4. ASSUME NEW b \in Builders, NEW how \in {"failed", "panicked", "joining"}, GiveUp(b, how),
             \A k \in Keys : slots'[k] = slots[k] \/ slots[k] = None \/ slots[k].of = b
      PROVE  OwnInv'
  <2>1. attempt' = attempt /\ \A c \in Builders \ {b} : held'[c] = held[c] /\ pc'[c] = pc[c]
    BY <1>4 DEF GiveUp, TypeOK
  <2>2. pc'[b] = how
    BY <1>4 DEF GiveUp, TypeOK
  <2> QED
    BY <1>1, <1>4, <2>1, <2>2, OwnOthers DEF OwnInv
<1>5. ASSUME NEW b \in Builders, InstallPanics(b) \/ NewFails(b) \/ RunPanics(b) \/ StopAndDrop(b)
      PROVE  OwnInv'
  BY <1>4, <1>5 DEF InstallPanics, NewFails, RunPanics, StopAndDrop
<1>6. ASSUME NEW b \in Builders, TakeIllTyped(b) PROVE OwnInv'
  <2>1. \A k \in Keys \ {KeyAt(b)} : slots'[k] = slots[k]
    BY <1>6 DEF TakeIllTyped, Emptied, TypeOK
  <2>2. slots[KeyAt(b)].of = b
    BY <1>1, <1>6, OwnSlot DEF TakeIllTyped
  <2> QED
    BY <1>4, <1>6, <2>1, <2>2 DEF TakeIllTyped
<1>7. ASSUME NEW b \in Builders, New(b) PROVE OwnInv'
  <2>1. attempt' = attempt /\ \A c \in Builders \ {b} : held'[c] = held[c] /\ pc'[c] = pc[c]
    BY <1>7 DEF New, TypeOK
  <2>2. \A k \in Keys \ {KeyAt(b)} : slots'[k] = slots[k]
    BY <1>7 DEF New, Emptied, TypeOK
  <2>3. slots[KeyAt(b)] = EndOf(b, attempt[b], Side(b)) /\ slots[KeyAt(b)].of = b
    BY <1>1, <1>7, OwnSlot DEF New
  <2>4. pc[b] = "new_in" => /\ pc'[b] = "new_out" /\ held'[b] = {EndOf(b, attempt'[b], "in")}
                            /\ slots'[OutKey[b]] = EndOf(b, attempt'[b], "out")
    <3> SUFFICES ASSUME pc[b] = "new_in"
                 PROVE  /\ pc'[b] = "new_out" /\ held'[b] = {EndOf(b, attempt'[b], "in")}
                        /\ slots'[OutKey[b]] = EndOf(b, attempt'[b], "out")
      OBVIOUS
    <3>1. Side(b) = "in" /\ KeyAt(b) = InKey[b] /\ pc'[b] = "new_out"
      BY <1>7 DEF New, Side, KeyAt, TypeOK
    <3>2. held[b] = {} /\ slots[OutKey[b]] = EndOf(b, attempt[b], "out")
      BY <1>1 DEF OwnInv
    <3>3. held'[b] = {EndOf(b, attempt[b], "in")}
      BY <1>7, <2>3, <3>1, <3>2 DEF New, TypeOK
    <3> QED
      BY <2>1, <2>2, <3>1, <3>2, <3>3, KeyFacts
  <2>5. pc[b] = "new_out" => pc'[b] = "running" /\ held'[b] = Both(b)'
    <3> SUFFICES ASSUME pc[b] = "new_out" PROVE pc'[b] = "running" /\ held'[b] = Both(b)'
      OBVIOUS
    <3>1. Side(b) = "out" /\ pc'[b] = "running"
      BY <1>7 DEF New, Side, TypeOK
    <3>2. held[b] = {EndOf(b, attempt[b], "in")}
      BY <1>1 DEF OwnInv
    <3>3. held'[b] = {EndOf(b, attempt[b], "in"), EndOf(b, attempt[b], "out")}
      BY <1>7, <2>3, <3>1, <3>2 DEF New, TypeOK
    <3> QED
      BY <2>1, <3>1, <3>3 DEF Both
  <2>6. pc[b] \in {"new_in", "new_out"}
    BY <1>7 DEF New
  <2> QED
    BY <1>1, <2>1, <2>2, <2>3, <2>4, <2>5, <2>6, OwnOthers DEF OwnInv
<1>8. ASSUME NEW b \in Builders, Join(b) PROVE OwnInv'
  <2>1. /\ attempt' = attempt /\ slots' = slots /\ held' = held /\ pc'[b] = "done"
        /\ \A c \in Builders \ {b} : pc'[c] = pc[c]
    BY <1>8 DEF Join, TypeOK
  <2> QED
    BY <1>1, <2>1, OwnOthers DEF OwnInv
<1>9. ASSUME NEW b \in Builders, BuildAnyway(b) PROVE FALSE
  BY <1>9 DEF BuildAnyway
<1>10. ASSUME UNCHANGED <<slots, held, pc, attempt>> PROVE OwnInv'
  BY <1>1, <1>10 DEF OwnInv, Both
<1> QED
  BY <1>2, <1>3, <1>5, <1>6, <1>7, <1>8, <1>9, <1>10
  DEF Next, Disconnected, TransportFails, ThreadEnds, vars

\* If everybody installs before building, an application has the two ends of the driver
\* its builder spawned last (install, take).
THEOREM OwnEnds == Spec => []OwnApplication
<1>1. OwnInv => OwnApplication
  BY DEF OwnInv, OwnApplication, Both
<1> QED
  BY <1>1, StartupTypes, PlaceInit, PlaceInductive, OwnInit, OwnInductive, PTL DEF Spec

\* Then only the builder that parked an end takes it out of its slot (install, take).
THEOREM ParkedEndsSafe == Spec => ParkedIsSafe
<1> DEFINE Safe == \A k \in Keys : ~forgot' /\ slots[k] # None /\ slots'[k] # slots[k] =>
                      slots'[k] = None /\ pc'[slots[k].of] # pc[slots[k].of]
<1>1. TypeOK /\ OwnInv /\ [Next]_vars => Safe
  <2> SUFFICES ASSUME TypeOK, OwnInv, [Next]_vars, NEW k \in Keys,
                      ~forgot', slots[k] # None, slots'[k] # slots[k]
               PROVE  slots'[k] = None /\ pc'[slots[k].of] # pc[slots[k].of]
    OBVIOUS
  <2>1. ASSUME NEW b \in Builders, Install(b) PROVE FALSE
    BY <2>1, KeyFacts DEF Install, Occupied, TypeOK
  <2>2. ASSUME NEW b \in Builders, pc[b] \in {"new_in", "new_out"}, forgot' = forgot,
               slots' = Emptied(KeyAt(b)), pc'[b] # pc[b]
        PROVE  slots'[k] = None /\ pc'[slots[k].of] # pc[slots[k].of]
    <3>1. k = KeyAt(b) /\ slots'[k] = None
      BY <2>2 DEF Emptied, TypeOK
    <3> QED
      BY <2>2, <3>1, OwnSlot
  <2>3. ASSUME NEW b \in Builders, New(b) \/ TakeIllTyped(b)
        PROVE  slots'[k] = None /\ pc'[slots[k].of] # pc[slots[k].of]
    <3>1. pc[b] \in {"new_in", "new_out"} /\ forgot' = forgot /\ slots' = Emptied(KeyAt(b))
      BY <2>3 DEF New, TakeIllTyped, GiveUp
    <3>2. pc'[b] # pc[b]
      BY <2>3 DEF New, TakeIllTyped, GiveUp, Side, TypeOK
    <3> QED
      BY <2>2, <3>1, <3>2
  <2>4. slots' # slots
    OBVIOUS
  <2> QED
    BY <2>1, <2>3, <2>4
    DEF Next, Spawn, InstallPanics, BuildAnyway, NewFails, RunPanics, StopAndDrop, Join,
        Disconnected, TransportFails, ThreadEnds, vars
<1>2. Safe => [Safe]_vars
  OBVIOUS
<1>3. Spec => [][Safe]_vars
  BY <1>1, <1>2, StartupTypes, PlaceInit, PlaceInductive, OwnInit, OwnInductive, PTL DEF Spec
<1> QED
  BY <1>3 DEF ParkedIsSafe

-----------------------------------------------------------------------------
\* Nor does a build that has succeeded leave anything of its driver in the registry.
THEOREM NothingLeft == Spec => []CleanRunLeavesNothing
<1> DEFINE Over == {"running", "joining", "done"}
<1>1. Init => CleanRunLeavesNothing
  BY DEF Init, CleanRunLeavesNothing
<1>2. TypeOK /\ PlaceInv /\ OwnInv /\ OwnInv' /\ PlaceInv' /\ CleanRunLeavesNothing /\ [Next]_vars
         => CleanRunLeavesNothing'
  <2> SUFFICES ASSUME TypeOK, PlaceInv, OwnInv, OwnInv', PlaceInv', CleanRunLeavesNothing,
                      [Next]_vars, ~forgot', NEW b \in Builders, pc'[b] \in Over,
                      NEW s \in Sides
               PROVE  ~Parked(EndOf(b, attempt[b], s))'
    BY DEF CleanRunLeavesNothing, Sides
  <2>1. CASE pc'[b] = "running"
    <3>1. EndOf(b, attempt'[b], s) \in held'[b]
      BY <2>1 DEF OwnInv, Both, Sides
    <3> QED
      BY <3>1 DEF PlaceInv, EndsOnce
  <2>2. CASE pc'[b] # "running"
    <3>1. ~forgot /\ attempt'[b] = attempt[b] /\ pc[b] \in Over
      BY <2>2, ZenonT(30) DEF Next, Spawn, Install, InstallPanics, BuildAnyway, New, NewFails, TakeIllTyped,
             RunPanics, StopAndDrop, Join, GiveUp, Disconnected, TransportFails, ThreadEnds,
             vars, TypeOK, Side
    <3>2. ~Parked(EndOf(b, attempt[b], s))
      BY <3>1 DEF CleanRunLeavesNothing, Sides
    <3>3. EndOf(b, attempt[b], s) # None /\ EndOf(b, attempt[b], s).of = b
      BY EndFacts DEF TypeOK
    <3>4. ASSUME NEW k \in Keys, slots'[k] # slots[k]
          PROVE  slots'[k] # EndOf(b, attempt[b], s)
      <4>1. ASSUME NEW c \in Builders, Install(c) PROVE slots'[k] # EndOf(b, attempt[b], s)
        <5>1. c # b
          BY <3>1, <4>1 DEF Install
        <5>2. slots'[k] = EndOf(c, attempt[c], Side(c))
          BY <3>4, <4>1 DEF Install, TypeOK
        <5>3. EndOf(c, attempt[c], Side(c)).of = c
          BY EndFacts, KeyFacts DEF TypeOK
        <5> QED
          BY <3>3, <5>1, <5>2, <5>3
      <4>2. ASSUME NEW c \in Builders, slots' = Emptied(KeyAt(c)) PROVE slots'[k] = None
        BY <3>4, <4>2 DEF Emptied, TypeOK
      <4>3. slots' # slots
        BY <3>4
      <4> QED
        BY <3>3, <4>1, <4>2, <4>3
        DEF Next, Spawn, InstallPanics, BuildAnyway, New, NewFails, TakeIllTyped, RunPanics,
            StopAndDrop, Join, Disconnected, TransportFails, ThreadEnds, vars
    <3> QED
      BY <3>1, <3>2, <3>4 DEF Parked
  <2> QED
    BY <2>1, <2>2
<1> QED
  BY <1>1, <1>2, StartupTypes, PlaceInit, PlaceInductive, OwnInit, OwnInductive, PTL DEF Spec
-----------------------------------------------------------------------------
(***************************************************************************)
(* What RtConfig::apply leaves of the driver thread.  The rounds over the  *)
(* affinity list have a closed form: what matters is the last entry that   *)
(* took the thread and the first that did not.                             *)
(***************************************************************************)
LEMMA Least ==
    ASSUME NEW T \in SUBSET Nat, T # {}
    PROVE  \E x \in T : \A y \in T : x <= y
<1>1. PICK x \in T : \A y \in T : ~(<<y, x>> \in OpToRel(<, Nat))
  BY NatLessThanWellFounded, WFMin
<1>2. OpToRel(<, Nat) = {ss \in Nat \X Nat : ss[1] < ss[2]}
  BY DEF OpToRel
<1>3. ASSUME NEW y \in T PROVE x <= y
  <2>1. <<y, x>> \notin {ss \in Nat \X Nat : ss[1] < ss[2]}
    BY <1>1, <1>2
  <2>2. x \in Nat /\ y \in Nat
    OBVIOUS
  <2>3. ~(y < x)
    BY <2>1, <2>2
  <2> QED BY <2>2, <2>3
<1> QED BY <1>3

\* A non-empty set of numbers up to n has a greatest.
LEMMA GreatestIn ==
    ASSUME NEW n \in Nat, NEW S \in SUBSET (1..n), S # {}
    PROVE  Max(S) \in S
<1> DEFINE T == {n - x : x \in S}
<1>1. \A x \in S : x \in Nat /\ n - x \in Nat
  OBVIOUS
<1>2. T \in SUBSET Nat /\ T # {}
  BY <1>1
<1>3. PICK t \in T : \A u \in T : t <= u
  <2> HIDE DEF T
  <2> QED BY <1>2, Least
<1>4. PICK k \in S : t = n - k
  BY <1>3
<1>5. \A y \in S : k >= y
  BY <1>1, <1>3, <1>4
<1> QED BY <1>4, <1>5 DEF Max

\* The next number is the greatest, and the least only if there was none.
LEMMA NextNumber ==
    ASSUME NEW n \in Nat, NEW S \in SUBSET (1..n)
    PROVE  /\ Max(S \cup {n + 1}) = n + 1
           /\ Min(S \cup {n + 1}) = IF S = {} THEN n + 1 ELSE Min(S)
           /\ S # {} => Min(S) \in S
<1>1. \A x \in S : x \in Nat /\ x <= n
  OBVIOUS
<1>2. Max(S \cup {n + 1}) = n + 1
  <2>1. \A x \in S \cup {n + 1} :
           (\A y \in S \cup {n + 1} : x >= y) <=> x = n + 1
    BY <1>1
  <2>2. n + 1 \in S \cup {n + 1}
    OBVIOUS
  <2> DEFINE m == Max(S \cup {n + 1})
  <2>3. m \in S \cup {n + 1} /\ \A y \in S \cup {n + 1} : m >= y
    BY <2>1, <2>2 DEF Max
  <2> HIDE DEF m
  <2> QED BY <2>1, <2>3 DEF m
<1>3. CASE S = {}
  BY <1>2, <1>3 DEF Min
<1>4. CASE S # {}
  <2>1. S \in SUBSET Nat
    BY <1>1
  <2>2. \E x \in S : \A y \in S : x =< y
    BY <1>4, <2>1, Least
  <2>3. Min(S) \in S /\ \A y \in S : Min(S) =< y
    BY <2>2 DEF Min
  <2> DEFINE least == Min(S)
             m == Min(S \cup {n + 1})
  <2>4. least \in S /\ least <= n /\ \A y \in S : least <= y
    BY <1>1, <2>3
  <2> HIDE DEF least
  <2>5. \A x \in S \cup {n + 1} :
           (\A y \in S \cup {n + 1} : x =< y) <=> x = least
    BY <1>1, <2>4
  <2>6. m \in S \cup {n + 1} /\ \A y \in S \cup {n + 1} : m =< y
    BY <2>4, <2>5 DEF Min
  <2> HIDE DEF m
  <2> QED BY <1>2, <1>4, <2>3, <2>5, <2>6 DEF m, least
<1> QED BY <1>2, <1>3, <1>4

\* One round.
Attempt(cores, fifo, err) == [thread |-> [cores |-> cores, fifo |-> fifo], err |-> err]

Refusal(want, ids) ==
    IF want \notin ids THEN <<"not available", want>> ELSE <<"failed to pin", want>>

\* The assignments of Pin and apply.
OnCore(done, want) == [done EXCEPT !.thread.cores = {want}]
WithFifo(done, prio) == [done EXCEPT !.thread.fifo = prio]
WithErr(done, e) == [done EXCEPT !.err = FirstErr(@, e)]

LEMMA FieldsAre ==
    ASSUME NEW cores, NEW fifo, NEW err
    PROVE  /\ Attempt(cores, fifo, err).thread.cores = cores
           /\ Attempt(cores, fifo, err).thread.fifo = fifo
           /\ Attempt(cores, fifo, err).err = err
BY DEF Attempt

LEMMA OnCoreIs ==
    ASSUME NEW cores, NEW fifo, NEW err, NEW want
    PROVE  OnCore(Attempt(cores, fifo, err), want) = Attempt({want}, fifo, err)
BY DEF Attempt, OnCore

LEMMA WithFifoIs ==
    ASSUME NEW cores, NEW fifo, NEW err, NEW prio
    PROVE  WithFifo(Attempt(cores, fifo, err), prio) = Attempt(cores, prio, err)
BY DEF Attempt, WithFifo

LEMMA WithErrIs ==
    ASSUME NEW cores, NEW fifo, NEW err, NEW e
    PROVE  WithErr(Attempt(cores, fifo, err), e) = Attempt(cores, fifo, FirstErr(err, e))
BY DEF Attempt, WithErr

LEMMA PinTakes ==
    ASSUME NEW cores, NEW fifo, NEW err, NEW want, NEW ids, NEW host,
           want \in ids, want \notin host.refuse
    PROVE  Pin(Attempt(cores, fifo, err), want, ids, host) = Attempt({want}, fifo, err)
<1> DEFINE done == Attempt(cores, fifo, err)
<1>1. Pin(done, want, ids, host) = OnCore(done, want)
  <2> HIDE DEF done
  <2> QED BY Zenon DEF Pin, OnCore
<1> QED BY <1>1, OnCoreIs

LEMMA PinRefuses ==
    ASSUME NEW cores, NEW fifo, NEW err, NEW want, NEW ids, NEW host,
           want \notin ids \/ want \in host.refuse
    PROVE  Pin(Attempt(cores, fifo, err), want, ids, host)
              = Attempt(cores, fifo, FirstErr(err, Refusal(want, ids)))
<1> DEFINE done == Attempt(cores, fifo, err)
<1>1. Pin(done, want, ids, host) = WithErr(done, Refusal(want, ids))
  <2> HIDE DEF done
  <2> QED BY Zenon DEF Pin, WithErr, Refusal
<1> QED BY <1>1, WithErrIs

\* The first n rounds for the affinity list aff on thread th.
TakesIn(aff, th, host, n)  == {i \in 1..n : aff[i] \in th.cores \ host.refuse}
MissedIn(aff, th, host, n) == (1..n) \ TakesIn(aff, th, host, n)

Pinned(aff, th, host, n) ==
    LET takes  == TakesIn(aff, th, host, n)
        missed == MissedIn(aff, th, host, n)
    IN  Attempt(IF takes = {} THEN th.cores ELSE {aff[Max(takes)]}, th.fifo,
                IF missed = {} THEN Unset ELSE Refusal(aff[Min(missed)], th.cores))

LEMMA RefusalIsErr ==
    ASSUME NEW want \in Cores, NEW ids
    PROVE  Refusal(want, ids) # Unset /\ Refusal(want, ids)[2] = want
<1>1. Refusal(want, ids) \in {"not available", "failed to pin"} \X Cores
  BY DEF Refusal
<1>2. Refusal(want, ids) \in Errors
  BY <1>1 DEF Errors
<1>3. Refusal(want, ids)[2] = want
  BY DEF Refusal
<1> QED BY <1>2, <1>3, CoreAssumption

LEMMA PinnedNext ==
    ASSUME NEW n \in Nat, NEW aff, \A i \in 1..(n + 1) : aff[i] \in Cores, NEW th, NEW host
    PROVE  Pinned(aff, th, host, n + 1)
              = Pin(Pinned(aff, th, host, n), aff[n + 1], th.cores, host)
<1> DEFINE T  == TakesIn(aff, th, host, n)
           M  == MissedIn(aff, th, host, n)
           T1 == TakesIn(aff, th, host, n + 1)
           M1 == MissedIn(aff, th, host, n + 1)
           cores == IF T = {} THEN th.cores ELSE {aff[Max(T)]}
           err   == IF M = {} THEN Unset ELSE Refusal(aff[Min(M)], th.cores)
<1>1. T \in SUBSET (1..n) /\ M \in SUBSET (1..n)
  BY DEF TakesIn, MissedIn
<1>2. Pinned(aff, th, host, n) = Attempt(cores, th.fifo, err)
  BY DEF Pinned
<1>3. 1..(n + 1) = (1..n) \cup {n + 1} /\ n + 1 \notin 1..n
  OBVIOUS
<1>4. CASE aff[n + 1] \in th.cores \ host.refuse
  <2>1. T1 = T \cup {n + 1} /\ M1 = M
    BY <1>3, <1>4 DEF TakesIn, MissedIn
  <2>2. T1 # {} /\ Max(T1) = n + 1
    BY <1>1, <2>1, NextNumber
  <2>3. Pinned(aff, th, host, n + 1) = Attempt({aff[n + 1]}, th.fifo, err)
    BY <2>1, <2>2 DEF Pinned
  <2> HIDE DEF err, cores
  <2>4. Pin(Attempt(cores, th.fifo, err), aff[n + 1], th.cores, host)
           = Attempt({aff[n + 1]}, th.fifo, err)
    BY <1>4, PinTakes
  <2> QED BY <1>2, <2>3, <2>4
<1>5. CASE aff[n + 1] \notin th.cores \ host.refuse
  <2>1. T1 = T /\ M1 = M \cup {n + 1}
    BY <1>3, <1>5 DEF TakesIn, MissedIn
  <2>2. M1 # {} /\ Min(M1) = IF M = {} THEN n + 1 ELSE Min(M)
    BY <1>1, <2>1, NextNumber
  <2>3. FirstErr(err, Refusal(aff[n + 1], th.cores)) = Refusal(aff[Min(M1)], th.cores)
    <3>1. CASE M = {}
      BY <2>2, <3>1 DEF FirstErr
    <3>2. CASE M # {}
      <4>1. Min(M) \in 1..(n + 1)
        BY <1>1, <1>3, <3>2, NextNumber
      <4>2. Refusal(aff[Min(M)], th.cores) # Unset
        BY <4>1, RefusalIsErr
      <4> QED BY <2>2, <3>2, <4>2 DEF FirstErr
    <3> QED BY <3>1, <3>2
  <2>4. Pinned(aff, th, host, n + 1)
           = Attempt(cores, th.fifo, Refusal(aff[Min(M1)], th.cores))
    BY <2>1, <2>2 DEF Pinned
  <2> HIDE DEF err, cores
  <2>5. Pin(Attempt(cores, th.fifo, err), aff[n + 1], th.cores, host)
           = Attempt(cores, th.fifo, FirstErr(err, Refusal(aff[n + 1], th.cores)))
    BY <1>5, PinRefuses
  <2> QED BY <1>2, <2>3, <2>4, <2>5
<1> QED BY <1>4, <1>5

\* The recursive function in PinAll is that closed form.
LEMMA PinAllIs ==
    ASSUME NEW rt, NEW N \in Nat, N = Len(rt.affinity),
           \A i \in 1..N : rt.affinity[i] \in Cores, NEW th \in Thread, NEW host
    PROVE  PinAll(rt, th, host) = Pinned(rt.affinity, th, host, N)
<1> DEFINE aff == rt.affinity
           Round(done, n) == Pin(done, aff[n], th.cores, host)
           Value(f, n) == IF n = 0 THEN [thread |-> th, err |-> Unset] ELSE Round(f[n - 1], n)
           Run(f) == f = [n \in 0..N |-> Value(f, n)]
           run == CHOOSE f : Run(f)
           g == [n \in 0..N |-> Pinned(aff, th, host, n)]
<1>1. PinAll(rt, th, host) = run[N]
  BY DEF PinAll
<1>2. \A n \in 0..N : g[n] = Value(g, n)
  <2> SUFFICES ASSUME NEW n \in 0..N PROVE g[n] = Value(g, n)
    OBVIOUS
  <2>1. CASE n = 0
    <3>1. TakesIn(aff, th, host, 0) = {} /\ MissedIn(aff, th, host, 0) = {}
      BY DEF TakesIn, MissedIn
    <3>2. Pinned(aff, th, host, 0) = Attempt(th.cores, th.fifo, Unset)
      BY <3>1 DEF Pinned
    <3>3. th = [cores |-> th.cores, fifo |-> th.fifo]
      BY DEF Thread
    <3>4. Pinned(aff, th, host, 0) = [thread |-> th, err |-> Unset]
      BY <3>2, <3>3 DEF Attempt
    <3> QED BY <2>1, <3>4
  <2>2. CASE n # 0
    <3>1. n - 1 \in 0..N /\ n - 1 \in Nat /\ (n - 1) + 1 = n
      BY <2>2
    <3>2. \A i \in 1..((n - 1) + 1) : aff[i] \in Cores
      BY <3>1
    <3>3. Pinned(aff, th, host, (n - 1) + 1)
             = Pin(Pinned(aff, th, host, n - 1), aff[(n - 1) + 1], th.cores, host)
      <4>1. n - 1 \in Nat /\ \A i \in 1..((n - 1) + 1) : aff[i] \in Cores
        BY <3>1, <3>2
      <4> HIDE DEF aff
      <4> QED BY ONLY <4>1, PinnedNext
    <3>4. g[n] = Pinned(aff, th, host, n) /\ g[n - 1] = Pinned(aff, th, host, n - 1)
      BY <3>1
    <3> HIDE DEF g, aff
    <3> QED BY <2>2, <3>1, <3>3, <3>4
  <2> QED BY <2>1, <2>2
<1> HIDE DEF Round, run
<1>3. Run(g)
  <2>1. g = [n \in 0..N |-> g[n]]
    OBVIOUS
  <2> HIDE DEF g, Value
  <2> QED BY <1>2, <2>1
<1> HIDE DEF g
<1>4. Run(run)
  <2> HIDE DEF Run
  <2> QED BY <1>3 DEF run
<1>5. \A n \in 0..N : run[n] = Value(run, n)
  <2> HIDE DEF Value
  <2>1. run = [n \in 0..N |-> Value(run, n)]
    BY <1>4
  <2> QED BY <2>1
<1>6. \A n \in 0..N : run[n] = g[n]
  <2> DEFINE T == {n \in 0..N : run[n] # g[n]}
  <2>1. SUFFICES ASSUME T # {} PROVE FALSE
    OBVIOUS
  <2>2. PICK k \in T : \A j \in T : k <= j
    <3>1. T \in SUBSET Nat
      OBVIOUS
    <3> HIDE DEF T
    <3> QED BY <2>1, <3>1, Least
  <2>3. CASE k = 0
    BY <1>2, <1>5, <2>3
  <2>4. CASE k # 0
    <3>1. k \in 0..N /\ k - 1 \in 0..N
      BY <2>4
    <3>2. run[k - 1] = g[k - 1]
      BY <2>2, <3>1
    <3> QED BY <1>2, <1>5, <2>4, <3>1, <3>2
  <2> QED BY <2>3, <2>4
<1>7. g[N] = Pinned(aff, th, host, N)
  BY DEF g
<1> QED BY <1>1, <1>6, <1>7

\* Whether thread th may have the priority.
Allowed(rt, host) == rt.scheduler \in FifoRange /\ host.nice

LEMMA SetFifoIs ==
    ASSUME NEW rt \in Config, NEW host, rt.scheduler # Unset
    PROVE  set_fifo(rt.scheduler, host) = Unset <=> Allowed(rt, host)
<1>1. rt.scheduler \in Nat
  BY CoreAssumption DEF Config
<1>2. "invalid priority" # Unset /\ "set SCHED_FIFO failed" # Unset
  BY CoreAssumption DEF Errors
<1>3. CASE rt.scheduler > 99
  <2>1. set_fifo(rt.scheduler, host) = "invalid priority"
    BY <1>3 DEF set_fifo
  <2>2. ~Allowed(rt, host)
    BY <1>1, <1>3 DEF Allowed, FifoRange
  <2> QED BY <1>2, <2>1, <2>2
<1>4. CASE ~(rt.scheduler > 99) /\ Allowed(rt, host)
  BY <1>4 DEF set_fifo, Allowed
<1>5. CASE ~(rt.scheduler > 99) /\ ~Allowed(rt, host)
  <2>1. set_fifo(rt.scheduler, host) = "set SCHED_FIFO failed"
    BY <1>5 DEF set_fifo, Allowed
  <2> QED BY <1>2, <1>5, <2>1
<1> QED BY <1>3, <1>4, <1>5

\* The affinity half of apply.
Pinning(rt, th, host) ==
    IF rt.affinity # <<>> /\ ~host.lists THEN [thread |-> th, err |-> "core ids unavailable"]
    ELSE PinAll(rt, th, host)

\* And the priority half after it.
LEMMA ApplyIs ==
    ASSUME NEW rt \in Config, NEW th, NEW host, NEW cores, NEW fifo, NEW err,
           Pinning(rt, th, host) = Attempt(cores, fifo, err)
    PROVE  /\ apply(rt, th, host).thread.cores = cores
           /\ apply(rt, th, host).thread.fifo
                 = IF Allowed(rt, host) THEN rt.scheduler ELSE fifo
           /\ apply(rt, th, host).err = Unset
                 <=> err = Unset /\ (Allowed(rt, host) \/ rt.scheduler = Unset)
           /\ err # Unset => apply(rt, th, host).err = err
<1> DEFINE pinned == Attempt(cores, fifo, err)
           failed == set_fifo(rt.scheduler, host)
<1>1. apply(rt, th, host) =
         IF rt.scheduler = Unset THEN pinned
         ELSE IF failed = Unset THEN WithFifo(pinned, rt.scheduler)
         ELSE WithErr(pinned, failed)
  <2> HIDE DEF failed
  <2>1. apply(rt, th, host) =
           IF rt.scheduler = Unset THEN Pinning(rt, th, host)
           ELSE IF failed = Unset THEN WithFifo(Pinning(rt, th, host), rt.scheduler)
           ELSE WithErr(Pinning(rt, th, host), failed)
    BY Zenon DEF apply, Pinning, WithFifo, WithErr, failed
  <2> HIDE DEF pinned
  <2>2. Pinning(rt, th, host) = pinned
    BY DEF pinned
  <2> QED BY ONLY <2>1, <2>2, Zenon
<1>2. CASE rt.scheduler = Unset
  <2>1. ~Allowed(rt, host)
    <3>1. Unset \notin FifoRange
      BY CoreAssumption DEF FifoRange
    <3> QED BY <1>2, <3>1 DEF Allowed
  <2>2. apply(rt, th, host) = Attempt(cores, fifo, err)
    BY <1>1, <1>2
  <2> QED BY <1>2, <2>1, <2>2, FieldsAre
<1>3. CASE rt.scheduler # Unset /\ Allowed(rt, host)
  <2>1. apply(rt, th, host) = Attempt(cores, rt.scheduler, err)
    <3>1. failed = Unset
      BY <1>3, SetFifoIs
    <3> HIDE DEF failed
    <3> QED BY <1>1, <1>3, <3>1, WithFifoIs
  <2> QED BY <1>3, <2>1, FieldsAre
<1>4. CASE rt.scheduler # Unset /\ ~Allowed(rt, host)
  <2>1. failed # Unset
    BY <1>4, SetFifoIs
  <2> HIDE DEF failed
  <2>2. apply(rt, th, host) = Attempt(cores, fifo, FirstErr(err, failed))
    BY <1>1, <1>4, <2>1, WithErrIs
  <2>3. /\ FirstErr(err, failed) # Unset
        /\ err # Unset => FirstErr(err, failed) = err
    BY <2>1 DEF FirstErr
  <2> QED BY <1>4, <2>2, <2>3, FieldsAre
<1> QED BY <1>2, <1>3, <1>4

LEMMA AppliesAll ==
    ASSUME NEW th \in Thread
    PROVE  AttemptsAll(th)
<1> SUFFICES ASSUME NEW rt \in Config, NEW host \in Host
             PROVE  LET result == apply(rt, th, host)
                        takes  == { i \in DOMAIN rt.affinity :
                                      host.lists /\ rt.affinity[i] \in th.cores \ host.refuse }
                        missed == DOMAIN rt.affinity \ takes
                        fifo   == rt.scheduler \in FifoRange /\ host.nice
                        denied == rt.scheduler # Unset /\ ~fifo
                    IN  /\ takes # {} => result.thread.cores \subseteq {rt.affinity[i] : i \in takes}
                        /\ takes = {} /\ missed # {} => result.thread.cores = th.cores
                        /\ fifo => result.thread.fifo = rt.scheduler
                        /\ denied => result.thread.fifo = th.fifo
                        /\ result.err = Unset <=> missed = {} /\ ~denied
                        /\ missed # {} /\ host.lists => result.err[2] = rt.affinity[Min(missed)]
                        /\ missed # {} /\ ~host.lists => result.err = "core ids unavailable"
  BY DEF AttemptsAll
<1> DEFINE aff    == rt.affinity
           takes  == {i \in DOMAIN aff : host.lists /\ aff[i] \in th.cores \ host.refuse}
           missed == DOMAIN aff \ takes
           fifo   == rt.scheduler \in FifoRange /\ host.nice
           result == apply(rt, th, host)
<1>1. PICK N \in Nat : aff \in [1..N -> Cores]
  BY CoreAssumption DEF Config, BoundedSeq, SeqOf
<1>2. Len(aff) = N /\ DOMAIN aff = 1..N /\ \A i \in 1..N : aff[i] \in Cores
  BY <1>1
<1>3. th = [cores |-> th.cores, fifo |-> th.fifo]
  BY DEF Thread
<1>4. CASE aff # <<>> /\ ~host.lists
  <2> DEFINE err == "core ids unavailable"
  <2>1. Pinning(rt, th, host) = Attempt(th.cores, th.fifo, err)
    BY <1>3, <1>4 DEF Attempt, Pinning
  <2>2. err # Unset
    BY CoreAssumption DEF Errors
  <2>3. takes = {} /\ missed = 1..N
    BY <1>2, <1>4
  <2>4. missed # {}
    BY <1>1, <1>4, <2>3
  <2> HIDE DEF err
  <2>5. /\ result.thread.cores = th.cores
        /\ result.thread.fifo = IF fifo THEN rt.scheduler ELSE th.fifo
        /\ result.err # Unset /\ result.err = err
    BY <2>1, <2>2, ApplyIs DEF Allowed
  <2>6. err = "core ids unavailable"
    BY DEF err
  <2> HIDE DEF takes, missed, result
  <2> QED BY <1>4, <2>3, <2>4, <2>5, <2>6 DEF takes, missed, result
<1>5. CASE ~(aff # <<>> /\ ~host.lists)
  <2>1. takes = TakesIn(aff, th, host, N) /\ missed = MissedIn(aff, th, host, N)
    <3>1. host.lists \/ N = 0
      BY <1>1, <1>2, <1>5
    <3> QED BY <1>2, <3>1 DEF TakesIn, MissedIn
  <2> DEFINE cores == IF takes = {} THEN th.cores ELSE {aff[Max(takes)]}
             err   == IF missed = {} THEN Unset ELSE Refusal(aff[Min(missed)], th.cores)
  <2>2. Pinning(rt, th, host) = Attempt(cores, th.fifo, err)
    <3>1. PinAll(rt, th, host) = Pinned(aff, th, host, N)
      BY <1>2, PinAllIs
    <3>2. Pinning(rt, th, host) = PinAll(rt, th, host)
      BY <1>5 DEF Pinning
    <3> QED BY <2>1, <3>1, <3>2 DEF Pinned
  <2>3. missed # {} => err # Unset /\ err[2] = aff[Min(missed)]
    <3>1. SUFFICES ASSUME missed # {} PROVE err # Unset /\ err[2] = aff[Min(missed)]
      OBVIOUS
    <3>2. Min(missed) \in 1..N
      BY <1>2, <3>1, NextNumber
    <3> QED BY <1>2, <3>1, <3>2, RefusalIsErr
  <2>4. missed = {} => err = Unset
    OBVIOUS
  <2>5. takes # {} => cores \subseteq {aff[i] : i \in takes}
    <3>1. SUFFICES ASSUME takes # {} PROVE Max(takes) \in takes
      OBVIOUS
    <3>2. takes \in SUBSET (1..N)
      BY <1>2
    <3> HIDE DEF takes
    <3> QED BY <3>1, <3>2, GreatestIn
  <2>6. takes = {} => cores = th.cores
    OBVIOUS
  <2>7. /\ result.thread.cores = cores
        /\ result.thread.fifo = IF fifo THEN rt.scheduler ELSE th.fifo
        /\ result.err = Unset <=> err = Unset /\ (fifo \/ rt.scheduler = Unset)
        /\ err # Unset => result.err = err
    <3> HIDE DEF err, cores
    <3> QED BY <2>2, ApplyIs DEF Allowed
  <2>8. host.lists \/ missed = {}
    BY <1>2, <1>5
  <2> HIDE DEF err, cores
  <2> QED BY <2>3, <2>4, <2>5, <2>6, <2>7, <2>8
<1> QED BY <1>4, <1>5

\* Whatever a driver thread inherits from its builder, and whatever the host refuses, its
\* configuration is attempted to the end, a refused request changes nothing, and the first
\* one is reported (RtConfig::apply, TransportDriver).
THEOREM AppliesBestEffort == Spec => []BestEffort
<1>1. BestEffort
  BY AppliesAll DEF BestEffort
<1> QED BY <1>1, PTL
=============================================================================
