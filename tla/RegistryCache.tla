---------------------------- MODULE RegistryCache ----------------------------
(***************************************************************************)
(* The registry snapshot against Home Assistant's own registry: the first  *)
(* fetch, without which the gateway does not start, and the background     *)
(* refresh (registry.py).  A refresh asks for the entities, waits, asks    *)
(* for the devices, waits, and installs both at once; the registry may     *)
(* change in between.  It has no timeout of its own.                       *)
(*                                                                         *)
(* Home Assistant is up, down, or mute: it holds its connections and       *)
(* answers nothing.  Ages stop at the first value that counts as stale.    *)
(***************************************************************************)
EXTENDS PolicyRules, Naturals

CONSTANTS
    Worlds,             \* states Home Assistant's registry may be in
    RefreshInterval,    \* refresh_interval
    StaleMax            \* stale_max

\* Home Assistant's entities, with the area set on each, its device, and the
\* area of each device.
World == [known : SUBSET Entities, own : [Entities -> Areas \cup {NoArea}],
          device : [Entities -> Devices \cup {NoDevice}],
          device_area : [Devices -> Areas \cup {NoArea}]]

ASSUME WorldsAssumption == Worlds \subseteq World
ASSUME IntervalAssumption == RefreshInterval \in Nat /\ StaleMax \in Nat

VARIABLES
    home,       \* Home Assistant's registry
    ha,         \* whether Home Assistant is up
    phase,      \* where _refresh_loop is, or start before it
    serving,    \* start has returned
    slept,      \* how long the loop has slept
    entities,   \* the entity list of the refresh under way
    snap,       \* _entity_area and _entity_device
    age,        \* since _fetched_at
    era         \* history: the registry's states since the refresh began

vars == <<home, ha, phase, serving, slept, entities, snap, age, era>>

Empty == [known |-> {}, area |-> [e \in Entities |-> NoArea],
          device |-> [e \in Entities |-> NoDevice]]

NoList == [known |-> {}]

Refreshing == {"entities", "devices", "broken"}

\* What the evaluators see of the cache.
_fresh == age <= StaleMax
reg == [fresh |-> _fresh, known |-> snap.known, area |-> snap.area, device |-> snap.device]

\* An entity's own area goes before that of its device.
AreaIn(list, devices, e) ==
    IF list.own[e] # NoArea THEN list.own[e]
    ELSE IF list.device[e] # NoDevice THEN devices.device_area[list.device[e]]
    ELSE NoArea

\* The snapshot made of an entity list and a device list.
Combine(list, devices) ==
    [known |-> list.known,
     area |-> [e \in Entities |-> IF e \in list.known THEN AreaIn(list, devices, e) ELSE NoArea],
     device |-> [e \in Entities |-> IF e \in list.known THEN list.device[e] ELSE NoDevice]]

-----------------------------------------------------------------------------
\* refresh.

Begins ==
    /\ phase' = "entities"
    /\ era' = {home}

Boot ==
    /\ phase = "off"
    /\ Begins
    /\ UNCHANGED <<home, ha, serving, slept, entities, snap, age>>

WakesUp ==
    /\ phase = "sleeping" /\ slept = RefreshInterval
    /\ Begins
    /\ UNCHANGED <<home, ha, serving, slept, entities, snap, age>>

EntitiesArrive ==
    /\ phase = "entities" /\ ha = "up"
    /\ phase' = "devices" /\ entities' = home
    /\ UNCHANGED <<home, ha, serving, slept, snap, age, era>>

Sleeps == phase' = "sleeping" /\ slept' = 0 /\ entities' = NoList /\ era' = {}

\* Mutant: the maps are updated in place, and what Home Assistant no longer has stays.
UpdateInPlace ==
    /\ phase = "devices" /\ ha = "up"
    /\ LET new == Combine(entities, home)
       IN snap' = [new EXCEPT
              !.area = [e \in Entities |-> IF e \in new.known THEN @[e] ELSE snap.area[e]],
              !.device = [e \in Entities |-> IF e \in new.known THEN @[e] ELSE snap.device[e]]]
    /\ age' = 0 /\ serving' = TRUE /\ Sleeps
    /\ UNCHANGED <<home, ha>>

\* The first snapshot lets the gateway start.
DevicesArrive ==
    /\ phase = "devices" /\ ha = "up"
    /\ snap' = Combine(entities, home) /\ age' = 0
    /\ serving' = TRUE
    /\ Sleeps
    /\ UNCHANGED <<home, ha>>

ProcessEnds ==
    /\ phase' = "off" /\ serving' = FALSE
    /\ snap' = Empty /\ age' = StaleMax + 1
    /\ slept' = 0 /\ entities' = NoList /\ era' = {}

\* Mutant: the task ends with the exception.
FailsForGood ==
    /\ phase \in Refreshing
    /\ phase' = "dead" /\ entities' = NoList /\ era' = {}
    /\ UNCHANGED <<home, ha, serving, slept, snap, age>>

\* Mutant: the snapshot counts as fetched, whatever came of it.
FailsButStamps ==
    /\ phase \in Refreshing
    /\ Sleeps /\ age' = 0
    /\ UNCHANGED <<home, ha, serving, snap>>

\* Refused, cut off, or answered with an error: the loop goes on with the old
\* snapshot, but the first fetch must succeed.
RefreshFails ==
    /\ phase \in Refreshing
    /\ IF serving THEN Sleeps /\ UNCHANGED <<serving, snap, age>> ELSE ProcessEnds
    /\ UNCHANGED <<home, ha>>

Broken == phase = "broken" \/ (phase \in Refreshing /\ ha = "down")

Crash == phase # "off" /\ ProcessEnds /\ UNCHANGED <<home, ha>>

-----------------------------------------------------------------------------
\* Around it.

HomeChanges ==
    /\ home' \in Worlds \ {home}
    /\ era' = IF phase \in Refreshing THEN era \cup {home'} ELSE era
    /\ UNCHANGED <<ha, phase, serving, slept, entities, snap, age>>

HaStops ==
    /\ ha # "down" /\ ha' = "down"
    /\ phase' = IF phase \in Refreshing THEN "broken" ELSE phase
    /\ UNCHANGED <<home, serving, slept, entities, snap, age, era>>

HaStarts == ha # "up" /\ ha' = "up" /\ UNCHANGED <<home, phase, serving, slept, entities, snap, age, era>>

HaHangs == ha = "up" /\ ha' = "mute" /\ UNCHANGED <<home, phase, serving, slept, entities, snap, age, era>>

Tick ==
    /\ age' = IF age > StaleMax THEN age ELSE age + 1
    /\ slept' = IF phase = "sleeping" /\ slept < RefreshInterval THEN slept + 1 ELSE slept
    /\ UNCHANGED <<home, ha, phase, serving, entities, snap, era>>

Init ==
    /\ home \in Worlds
    /\ ha = "up"
    /\ phase = "off" /\ serving = FALSE /\ slept = 0 /\ entities = NoList
    /\ snap = Empty /\ age = StaleMax + 1
    /\ era = {}

Next ==
    \/ Boot \/ WakesUp \/ EntitiesArrive \/ DevicesArrive \/ RefreshFails \/ Crash
    \/ HomeChanges \/ HaStops \/ HaStarts \/ HaHangs \/ Tick

Spec == Init /\ [][Next]_vars

(***************************************************************************)
(* Fairness: time passes, the loop wakes up, a broken connection is        *)
(* noticed (heartbeat), and a Home Assistant that stays up does not fail   *)
(* every refresh.                                                          *)
(***************************************************************************)
Fairness ==
    /\ WF_vars(Tick) /\ WF_vars(WakesUp) /\ WF_vars(Broken /\ RefreshFails)
    /\ SF_vars(EntitiesArrive) /\ SF_vars(DevicesArrive)

FairSpec == Spec /\ Fairness

-----------------------------------------------------------------------------
\* Properties.

\* Every variable has its type; in particular what the evaluators see is a
\* snapshot as PolicyRules takes it: an unknown entity has no area and no device.
TypeOK ==
    /\ home \in Worlds /\ ha \in {"up", "down", "mute"}
    /\ phase \in Refreshing \cup {"off", "sleeping"}
    /\ serving \in BOOLEAN
    /\ slept \in 0 .. RefreshInterval /\ age \in 0 .. StaleMax + 1
    /\ entities \in Worlds \cup {NoList}
    /\ reg \in Snapshot
    /\ era \subseteq Worlds

\* A snapshot is the entities and the devices Home Assistant had while it was
\* fetched, whole and with nothing left over from before.  (The two may be of
\* different moments: refresh asks for them one after the other.)
SnapshotOfItsTime ==
    [][phase' # "off" /\ snap' # snap =>
         \E list, devices \in era : snap' = Combine(list, devices)]_vars

\* Once Home Assistant stays up with its registry at rest, the snapshot becomes
\* what it has and is kept fresh, whatever failed before: areas moved and
\* entities removed do take effect.
Converges ==
    \A w \in Worlds :
        <>[](home = w /\ ha = "up" /\ serving) => <>[](snap = Combine(w, w)) /\ []<>_fresh

\* While Home Assistant stays away, also one that holds its connections and says
\* nothing, the snapshot goes stale and stays so: area rules stop matching.
OutageNarrows == <>[](ha # "up") => <>[]~_fresh
=============================================================================
