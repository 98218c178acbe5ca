------------------------ MODULE RegistryCache_proofs ------------------------
(***************************************************************************)
(* What MCRegistry's run checks of the snapshot, for every house, every    *)
(* way its registry may change, and every interval and maximal age.        *)
(***************************************************************************)
EXTENDS RegistryCache, TLAPS

\* A refresh under way remembers the registry it may see and the list it has.
EraInv ==
    /\ phase \in {"entities", "devices"} => home \in era
    /\ phase = "devices" => entities \in era

Inv == TypeOK /\ EraInv

\* What the three maps of a snapshot must be for PolicyRules.
Consistent(s) ==
    /\ s.known \in SUBSET Entities
    /\ s.area \in [Entities -> Areas \cup {NoArea}]
    /\ s.device \in [Entities -> Devices \cup {NoDevice}]
    /\ \A e \in Entities \ s.known : s.area[e] = NoArea /\ s.device[e] = NoDevice

LEMMA ConsistentIsSnapshot ==
    ASSUME NEW s, NEW fresh \in BOOLEAN, Consistent(s)
    PROVE  [fresh |-> fresh, known |-> s.known, area |-> s.area, device |-> s.device] \in Snapshot
BY DEF Consistent, Snapshot

\* A snapshot made of two answers is consistent.
LEMMA CombinedIsConsistent ==
    ASSUME NEW list \in Worlds, NEW devices \in Worlds
    PROVE  Consistent(Combine(list, devices))
<1>1. list \in World /\ devices \in World
  BY WorldsAssumption
<1>2. \A e \in Entities : AreaIn(list, devices, e) \in Areas \cup {NoArea}
  BY <1>1 DEF AreaIn, World
<1>3. Combine(list, devices).known \in SUBSET Entities
  BY <1>1 DEF Combine, World
<1>4. Combine(list, devices).area \in [Entities -> Areas \cup {NoArea}]
  BY <1>2 DEF Combine
<1>5. Combine(list, devices).device \in [Entities -> Devices \cup {NoDevice}]
  BY <1>1 DEF Combine, World
<1>6. \A e \in Entities \ Combine(list, devices).known :
         Combine(list, devices).area[e] = NoArea /\ Combine(list, devices).device[e] = NoDevice
  BY DEF Combine
<1> QED BY <1>3, <1>4, <1>5, <1>6, Zenon DEF Consistent

\* So is no snapshot at all.
LEMMA EmptyIsConsistent == Consistent(Empty)
BY DEF Empty, Consistent

\* What the evaluators see of a snapshot that a step installs, or leaves.
LEMMA RegNext ==
    ASSUME \/ Consistent(snap')
           \/ reg \in Snapshot /\ snap' = snap
    PROVE  reg' \in Snapshot
<1>1. _fresh' \in BOOLEAN
  BY DEF _fresh
<1>2. reg' = [fresh |-> _fresh', known |-> snap'.known, area |-> snap'.area,
              device |-> snap'.device]
  BY DEF reg
<1>3. CASE Consistent(snap')
  BY <1>1, <1>2, <1>3, ConsistentIsSnapshot
<1>4. CASE reg \in Snapshot /\ snap' = snap
  <2>1. reg' = [reg EXCEPT !.fresh = _fresh']
    BY <1>2, <1>4 DEF reg
  <2> QED BY <1>1, <1>4, <2>1 DEF Snapshot
<1> QED BY <1>3, <1>4

LEMMA InvInit == Init => Inv
<1> SUFFICES ASSUME Init PROVE Inv
  OBVIOUS
<1>1. reg \in Snapshot
  <2>1. snap = Empty /\ _fresh \in BOOLEAN
    BY DEF Init, _fresh
  <2> QED BY <2>1, EmptyIsConsistent, ConsistentIsSnapshot DEF reg
<1>2. age \in 0 .. StaleMax + 1 /\ slept \in 0 .. RefreshInterval
  BY IntervalAssumption DEF Init
<1> QED BY <1>1, <1>2 DEF Init, Inv, TypeOK, EraInv, Refreshing

LEMMA InvNext == Inv /\ [Next]_vars => Inv'
<1> SUFFICES ASSUME Inv, [Next]_vars PROVE Inv'
  OBVIOUS
<1> USE IntervalAssumption DEF Inv, TypeOK, EraInv, Refreshing
<1>1. CASE Boot \/ WakesUp
  BY <1>1, RegNext DEF Boot, WakesUp, Begins
<1>2. CASE EntitiesArrive
  BY <1>2, RegNext DEF EntitiesArrive
<1>3. CASE DevicesArrive
  <2>1. entities \in Worlds
    BY <1>3 DEF DevicesArrive
  <2>2. reg' \in Snapshot
    BY <1>3, <2>1, CombinedIsConsistent, RegNext DEF DevicesArrive
  <2> QED BY <1>3, <2>2 DEF DevicesArrive, Sleeps
<1>4. ASSUME ProcessEnds, UNCHANGED <<home, ha>>
      PROVE  Inv'
  <2>1. reg' \in Snapshot
    BY <1>4, EmptyIsConsistent, RegNext DEF ProcessEnds
  <2>2. age' \in 0 .. StaleMax + 1 /\ slept' \in 0 .. RefreshInterval
    BY <1>4 DEF ProcessEnds
  <2> QED BY <1>4, <2>1, <2>2 DEF ProcessEnds
<1>5. CASE RefreshFails
  <2>1. CASE serving
    BY <1>5, <2>1, RegNext DEF RefreshFails, Sleeps
  <2>2. CASE ~serving
    BY <1>4, <1>5, <2>2 DEF RefreshFails
  <2> QED BY <2>1, <2>2
<1>6. CASE Crash
  BY <1>4, <1>6 DEF Crash
<1>7. CASE HomeChanges
  BY <1>7, RegNext DEF HomeChanges
<1>8. CASE HaStops \/ HaStarts \/ HaHangs
  BY <1>8, RegNext DEF HaStops, HaStarts, HaHangs
<1>9. CASE Tick
  <2>1. age' \in 0 .. StaleMax + 1 /\ slept' \in 0 .. RefreshInterval
    BY <1>9 DEF Tick
  <2> QED BY <1>9, <2>1, RegNext DEF Tick
<1>10. CASE UNCHANGED vars
  BY <1>10, RegNext DEF vars
<1> QED BY <1>1, <1>2, <1>3, <1>5, <1>6, <1>7, <1>8, <1>9, <1>10 DEF Next

LEMMA Invariance == Spec => []Inv
BY InvInit, InvNext, PTL DEF Spec

\* Whatever Home Assistant does, the cache is well typed; in particular what the
\* evaluators see is always a snapshot as the proofs about them assume.
THEOREM TypeCorrect == Spec => []TypeOK
<1>1. Inv => TypeOK
  BY DEF Inv
<1> QED BY <1>1, Invariance, PTL

\* A new snapshot is made of entities and devices Home Assistant had while it was
\* fetched, whatever happened between the two questions (refresh).
THEOREM FetchedInItsTime == Spec => SnapshotOfItsTime
<1> DEFINE Fetched == phase' # "off" /\ snap' # snap =>
                        \E list, devices \in era : snap' = Combine(list, devices)
<1>1. Inv /\ [Next]_vars => [Fetched]_vars
  <2> SUFFICES ASSUME Inv, Next, phase' # "off", snap' # snap
               PROVE  \E list, devices \in era : snap' = Combine(list, devices)
    OBVIOUS
  <2>1. DevicesArrive
    BY DEF Next, Boot, WakesUp, EntitiesArrive, RefreshFails, Crash, ProcessEnds, HomeChanges,
           HaStops, HaStarts, HaHangs, Tick
  <2> QED BY <2>1 DEF DevicesArrive, Inv, EraInv
<1> QED BY <1>1, Invariance, PTL DEF Spec, SnapshotOfItsTime
=============================================================================
