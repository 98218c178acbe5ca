------------------------- MODULE PolicyRules_proofs -------------------------
(***************************************************************************)
(* Facts about the decisions of PolicyRules, for every policy and every    *)
(* registry snapshot.                                                      *)
(***************************************************************************)
EXTENDS PolicyRules, TLAPS

LEMMA DashboardsVisible ==
    ASSUME NEW p, NEW reg
    PROVE  dashboards(p) \cup {Lovelace} \subseteq Visible(p, reg)
BY DEF Visible

\* What the gateway enumerates for a user, to rewrite a subscription or to filter
\* a registry list, never goes beyond what it would let that user read one by
\* one: the two evaluations of a policy (enumerable_read_entities over the
\* snapshot, allowed_read per entity) cannot drift apart in the open direction.
THEOREM EnumerationIsReadable ==
    ASSUME NEW p \in UserPolicy, NEW reg \in Snapshot
    PROVE  enumerable_read_entities(p, reg) \subseteq Readable(p, reg)
<1> SUFFICES ASSUME NEW e \in enumerable_read_entities(p, reg)
             PROVE  e \in Entities /\ allowed_read(p, reg, e)
  BY DEF Readable
<1>1. /\ p.read \in RuleSet /\ p.control \in RuleSet
  BY DEF UserPolicy
<1>2. reg.known \subseteq Entities
  BY DEF Snapshot
<1>3. CASE e \in p.read.entities \cup p.control.entities
  BY <1>1, <1>3 DEF RuleSet, allowed_read, allowed_control, _match
<1>4. CASE e \in entities_matching(reg, p.read.domains \cup p.control.domains,
                                        p.read.areas \cup p.control.areas)
  <2>1. /\ e \in reg.known /\ reg.fresh
        /\ \/ DomainOf[e] \in p.read.domains \cup p.control.domains
           \/ reg.area[e] \in p.read.areas \cup p.control.areas
    BY <1>4 DEF entities_matching
  <2>2. area_of(reg, e) = reg.area[e]
    BY <2>1 DEF area_of
  <2>3. QED BY <1>2, <2>1, <2>2 DEF allowed_read, allowed_control, _match
<1>5. QED BY <1>3, <1>4 DEF enumerable_read_entities

LEMMA AllowedAreasVisible ==
    ASSUME NEW p \in UserPolicy, NEW reg \in Snapshot
    PROVE  allowed_area_ids(p, reg) \subseteq Visible(p, reg)
BY EnumerationIsReadable DEF allowed_area_ids, Visible

LEMMA AllowedDevicesVisible ==
    ASSUME NEW p \in UserPolicy, NEW reg \in Snapshot
    PROVE  allowed_device_ids(p, reg) \subseteq Visible(p, reg)
BY EnumerationIsReadable DEF allowed_device_ids, Visible

-----------------------------------------------------------------------------
\* Staleness.

Stale(reg) == [reg EXCEPT !.fresh = FALSE]

LEMMA StaleMatch ==
    ASSUME NEW reg \in Snapshot, NEW rules \in RuleSet, NEW e,
           _match(Stale(reg), rules, e)
    PROVE  _match(reg, rules, e)
<1>1. area_of(Stale(reg), e) = NoArea
  BY DEF Stale, area_of, Snapshot
<1>2. NoArea \notin rules.areas
  BY NoneAssumption DEF RuleSet
<1>3. QED BY <1>1, <1>2 DEF _match

LEMMA StaleControl ==
    ASSUME NEW p \in UserPolicy, NEW reg \in Snapshot, NEW e,
           allowed_control(p, Stale(reg), e)
    PROVE  allowed_control(p, reg, e)
BY StaleMatch DEF UserPolicy, allowed_control

\* A snapshot that ages takes something away and adds nothing: not one entity,
\* area, device or dashboard becomes visible (area_of, device_of and
\* entities_matching fail closed on staleness).
THEOREM StalenessNarrowsRead ==
    ASSUME NEW p \in UserPolicy, NEW reg \in Snapshot
    PROVE  Visible(p, Stale(reg)) \subseteq Visible(p, reg)
<1>1. \A e : area_of(Stale(reg), e) = NoArea /\ device_of(Stale(reg), e) = NoDevice
  BY DEF Stale, area_of, device_of, Snapshot
<1>2. Readable(p, Stale(reg)) \subseteq Readable(p, reg)
  <2>1. \A e : allowed_read(p, Stale(reg), e) => allowed_read(p, reg, e)
    BY StaleMatch, StaleControl DEF UserPolicy, allowed_read
  <2>2. QED BY <2>1 DEF Readable
<1>3. QED BY <1>1, <1>2 DEF Visible

\* Nor does it let through a service call that was denied before: calls on areas
\* and devices are denied, calls on entities keep or lose their permission
\* (service_call_allowed).
THEOREM StalenessNarrowsCalls ==
    ASSUME NEW p \in UserPolicy, NEW reg \in Snapshot, NEW call \in Call,
           service_call_allowed(p, Stale(reg), call)
    PROVE  service_call_allowed(p, reg, call)
<1>1. ~Stale(reg).fresh
  BY DEF Stale, Snapshot
<1>2. call.about \subseteq Entities /\ ~call.opaque
  BY <1>1 DEF service_call_allowed
<1>3. call.about \cap Areas = {} /\ call.about \cap Devices = {}
  BY <1>2, DisjointAssumption
<1>4. CallTargets(reg, call.about) = call.about /\ CallTargets(Stale(reg), call.about) = call.about
  BY <1>2, <1>3 DEF CallTargets
<1>5. QED BY <1>2, <1>4, StaleControl DEF service_call_allowed

\* What is left to a user once the snapshot is stale, exactly: the entities named by
\* an entity or a domain rule, and the dashboards.  No area rule matches, and no area
\* and no device is told (PolicyEvaluator._match, area_of, device_of).
THEOREM StaleLeavesEntitiesAndDomains ==
    ASSUME NEW p \in UserPolicy, NEW reg \in Snapshot, ~reg.fresh
    PROVE  Visible(p, reg) = dashboards(p) \cup {Lovelace} \cup
             {e \in Entities : \/ e \in p.read.entities \cup p.control.entities
                               \/ DomainOf[e] \in p.read.domains \cup p.control.domains}
<1>1. \A e : area_of(reg, e) = NoArea /\ device_of(reg, e) = NoDevice
  BY DEF area_of, device_of
<1>2. NoArea \notin p.read.areas /\ NoArea \notin p.control.areas
  BY NoneAssumption DEF UserPolicy, RuleSet
<1>3. \A e : allowed_read(p, reg, e) <=>
          \/ e \in p.read.entities \cup p.control.entities
          \/ DomainOf[e] \in p.read.domains \cup p.control.domains
  BY <1>1, <1>2 DEF allowed_read, allowed_control, _match
<1>4. QED BY <1>1, <1>3 DEF Visible, Readable
=============================================================================
