---------------------------- MODULE PolicyRules ----------------------------
(***************************************************************************)
(* The pure decisions of the gateway: which entities, areas, devices and   *)
(* dashboards one user's policy lets that user read or control, given the  *)
(* registry snapshot the gateway holds (policy.py, registry.py queries,    *)
(* filters.py).  The operators keep the names of the functions they        *)
(* translate.  An entity id, an area id, a device id, a dashboard's        *)
(* url_path and the home's GPS position are opaque values; a payload is    *)
(* the set of those values it is about.                                    *)
(***************************************************************************)
CONSTANTS
    Entities,       \* entity ids
    Domains,        \* the part of an entity id before the dot
    DomainOf,       \* the domain of each entity
    Areas,          \* area ids
    Devices,        \* device ids
    Dashboards,     \* dashboards, by url_path
    Lovelace,       \* DEFAULT_PANEL_KEY, the built-in dashboard
    HomeLocation,   \* latitude, longitude and elevation of the home
    NoArea,         \* None as an area
    NoDevice,       \* None as a device
    NoDashboard     \* None as a dashboard

ASSUME DomainAssumption == DomainOf \in [Entities -> Domains]
ASSUME DashboardAssumption == Lovelace \in Dashboards /\ NoDashboard \notin Dashboards
ASSUME NoneAssumption == NoArea \notin Areas /\ NoDevice \notin Devices
ASSUME DisjointAssumption ==
    /\ Entities \cap (Areas \cup Devices) = {}
    /\ Areas \cap Devices = {}
    /\ Dashboards \cap (Entities \cup Areas \cup Devices) = {}
    /\ HomeLocation \notin Entities \cup Areas \cup Devices \cup Dashboards

\* Everything a frame of Home Assistant can be about.
Item == Entities \cup Areas \cup Devices \cup Dashboards \cup {HomeLocation}

\* One read or control block of a policy file.
RuleSet == [entities : SUBSET Entities, domains : SUBSET Domains, areas : SUBSET Areas]

UserPolicy ==
    [read : RuleSet, control : RuleSet, token_creation : BOOLEAN,
     default_dashboard : Dashboards \cup {NoDashboard},
     allowed_dashboards : SUBSET Dashboards]

(***************************************************************************)
(* What a query of RegistryCache sees: the entities of the last snapshot   *)
(* with their area and device, and whether the snapshot is still young     *)
(* enough to be used.  An entity outside `known` has neither.              *)
(***************************************************************************)
Snapshot ==
    {s \in [fresh : BOOLEAN, known : SUBSET Entities,
            area : [Entities -> Areas \cup {NoArea}],
            device : [Entities -> Devices \cup {NoDevice}]] :
        \A e \in Entities \ s.known : s.area[e] = NoArea /\ s.device[e] = NoDevice}

-----------------------------------------------------------------------------
\* RegistryCache: queries, none of which answers from a stale snapshot.

area_of(reg, e) == IF reg.fresh THEN reg.area[e] ELSE NoArea

device_of(reg, e) == IF reg.fresh THEN reg.device[e] ELSE NoDevice

\* Mutant: a stale snapshot is still expanded.
stale_entities_matching(reg, domains, areas) ==
    {e \in reg.known : DomainOf[e] \in domains \/ reg.area[e] \in areas}

entities_matching(reg, domains, areas) ==
    {e \in reg.known : reg.fresh /\ (DomainOf[e] \in domains \/ reg.area[e] \in areas)}

entities_in_area(reg, a) == {e \in reg.known : reg.area[e] = a}

entities_of_device(reg, d) == {e \in reg.known : reg.device[e] = d}

-----------------------------------------------------------------------------
\* PolicyEvaluator: domain rules match whatever the age of the snapshot,
\* area rules only while area_of answers.

_match(reg, rules, e) ==
    \/ e \in rules.entities
    \/ DomainOf[e] \in rules.domains
    \/ area_of(reg, e) \in rules.areas

allowed_control(p, reg, e) == _match(reg, p.control, e)

allowed_read(p, reg, e) == allowed_control(p, reg, e) \/ _match(reg, p.read, e)

enumerable_read_entities(p, reg) ==
    p.read.entities \cup p.control.entities
      \cup entities_matching(reg, p.read.domains \cup p.control.domains,
                                  p.read.areas \cup p.control.areas)

allowed_area_ids(p, reg) ==
    {area_of(reg, e) : e \in enumerable_read_entities(p, reg)} \ {NoArea}

allowed_device_ids(p, reg) ==
    {device_of(reg, e) : e \in enumerable_read_entities(p, reg)} \ {NoDevice}

filter_states(p, reg, items) == {e \in items \cap Entities : allowed_read(p, reg, e)}

dashboards(p) == p.allowed_dashboards \cup ({p.default_dashboard} \ {NoDashboard})

\* The whole of what a user holding policy p may be told, by this snapshot: the
\* entities it may read, their areas and devices, its dashboards, and the name of
\* the built-in dashboard, which every frontend knows and falls back to.
Readable(p, reg) == {e \in Entities : allowed_read(p, reg, e)}

Visible(p, reg) ==
    Readable(p, reg)
      \cup ({area_of(reg, e) : e \in Readable(p, reg)} \ {NoArea})
      \cup ({device_of(reg, e) : e \in Readable(p, reg)} \ {NoDevice})
      \cup dashboards(p) \cup {Lovelace}

-----------------------------------------------------------------------------
(***************************************************************************)
(* Service calls.  A call names entities, areas and devices; `opaque`      *)
(* stands for any target the gateway cannot expand: a wildcard, a label or *)
(* a floor.  A call that names nothing is a domain-wide call.              *)
(***************************************************************************)
Call == [about : SUBSET (Entities \cup Areas \cup Devices), opaque : BOOLEAN]

\* The entities a call acts on, by this snapshot.
CallTargets(reg, about) ==
    (about \cap Entities)
      \cup UNION {entities_in_area(reg, a) : a \in about \cap Areas}
      \cup UNION {entities_of_device(reg, d) : d \in about \cap Devices}

\* Mutant: one controllable target is enough.
any_target_call_allowed(p, reg, call) ==
    /\ ~call.opaque
    /\ call.about \subseteq Entities \/ reg.fresh
    /\ \E e \in CallTargets(reg, call.about) : allowed_control(p, reg, e)

service_call_allowed(p, reg, call) ==
    /\ ~call.opaque
    /\ call.about \subseteq Entities \/ reg.fresh
    /\ CallTargets(reg, call.about) # {}
    /\ \A e \in CallTargets(reg, call.about) : allowed_control(p, reg, e)
=============================================================================
