------------------------- MODULE PolicyFiles_proofs -------------------------
(***************************************************************************)
(* A policy that an admin opens in the editor and saves as it is keeps     *)
(* every right it gives, whatever the policy and whatever the registry.    *)
(***************************************************************************)
EXTENDS PolicyFiles, TLAPS

\* What is parsed from the editor's list of rules: control as it was, read
\* without what control has already.
LEMMA MergedIds ==
    ASSUME NEW R, NEW C
    PROVE  /\ Ids(merged(R, C), "control") = C
           /\ Ids(merged(R, C), "read") = R \ C
           /\ \A rule \in merged(R, C) : rule.access \in Access
<1>1. \A rule \in merged(R, C) :
         \/ rule.id \in C /\ rule.access = "control"
         \/ rule.id \in R \ C /\ rule.access = "read"
  BY DEF merged
<1>2. \A i \in C : [id |-> i, access |-> "control"] \in merged(R, C)
  BY DEF merged
<1>3. \A i \in R \ C : [id |-> i, access |-> "read"] \in merged(R, C)
  BY DEF merged
<1>4. Ids(merged(R, C), "control") = C
  <2>1. Ids(merged(R, C), "control") \subseteq C
    BY <1>1 DEF Ids
  <2>2. ASSUME NEW i \in C PROVE i \in Ids(merged(R, C), "control")
    <3> DEFINE rule == [id |-> i, access |-> "control"]
    <3>1. rule \in {r \in merged(R, C) : r.access = "control"} /\ rule.id = i
      BY <1>2
    <3> QED BY <3>1 DEF Ids
  <2> QED BY <2>1, <2>2
<1>5. Ids(merged(R, C), "read") = R \ C
  <2>1. Ids(merged(R, C), "read") \subseteq R \ C
    BY <1>1 DEF Ids
  <2>2. ASSUME NEW i \in R \ C PROVE i \in Ids(merged(R, C), "read")
    <3> DEFINE rule == [id |-> i, access |-> "read"]
    <3>1. rule \in {r \in merged(R, C) : r.access = "read"} /\ rule.id = i
      BY <1>3
    <3> QED BY <3>1 DEF Ids
  <2> QED BY <2>1, <2>2
<1> QED BY <1>1, <1>4, <1>5 DEF Access

\* Opening a policy in the editor and saving it again is never refused, names the
\* same user and gives the same rights: to_editor_dict, editor_to_mapping and
\* parse_policy forget nothing, however many fields a policy has.
THEOREM ResavedKeepsRights ==
    ASSUME NEW p \in Parsed
    PROVE  /\ Resaved(p) # PolicyError
           /\ Resaved(p).user = p.user
           /\ Resaved(p).policy \in UserPolicy
           /\ SameRights(p.policy, Resaved(p).policy)
<1> DEFINE e == to_editor_dict(p)
           mapping == editor_to_mapping(e)
           q == p.policy
<1>1. q \in UserPolicy /\ p.user \in Match /\ (p.user.id = Nobody) # (p.user.name = Nobody)
  BY DEF Parsed
<1>2. /\ \A rule \in Rules(e) : rule.access \in Access
      /\ Unusual \notin Access
  <2>1. /\ \A rule \in merged(q.read.entities, q.control.entities) : rule.access \in Access
        /\ \A rule \in merged(q.read.domains, q.control.domains) : rule.access \in Access
        /\ \A rule \in merged(q.read.areas, q.control.areas) : rule.access \in Access
    BY MergedIds
  <2> QED BY <2>1, FormAssumption DEF Rules, to_editor_dict
<1>3. mapping = e
  <2>1. mapping = [e EXCEPT !.user.name = IF e.user.id # Nobody THEN Nobody ELSE @,
                            !.token_creation = IF @ = Falsy THEN FALSE ELSE @]
    BY <1>2 DEF editor_to_mapping
  <2>2. p.user.name = IF p.user.id # Nobody THEN Nobody ELSE p.user.name
    BY <1>1
  <2>3. e.user = p.user
    BY DEF to_editor_dict
  <2>4. [p.user EXCEPT !.name = IF p.user.id # Nobody THEN Nobody ELSE @] = p.user
    BY <1>1, <2>2 DEF Match
  <2>5. e.token_creation # Falsy
    BY <1>1, FormAssumption DEF to_editor_dict, UserPolicy
  <2> QED BY <2>1, <2>3, <2>4, <2>5 DEF to_editor_dict
<1>4. mapping # PolicyError
  <2>1. e \in Payload
    <3>1. /\ merged(q.read.entities, q.control.entities) \subseteq Rule(Entities)
          /\ merged(q.read.domains, q.control.domains) \subseteq Rule(Domains)
          /\ merged(q.read.areas, q.control.areas) \subseteq Rule(Areas)
      BY <1>1 DEF merged, Rule, Access, UserPolicy, RuleSet
    <3> QED BY <1>1, <3>1 DEF to_editor_dict, Payload, UserPolicy
  <2> QED BY <1>3, <2>1, ErrorAssumption
<1>5. /\ e.user = p.user
      /\ e.token_creation = q.token_creation
      /\ e.default = q.default_dashboard
      /\ e.allowed = q.allowed_dashboards
      /\ e.entities = merged(q.read.entities, q.control.entities)
      /\ e.domains = merged(q.read.domains, q.control.domains)
      /\ e.areas = merged(q.read.areas, q.control.areas)
  BY DEF to_editor_dict
<1>6. q.token_creation \in BOOLEAN
  BY <1>1 DEF UserPolicy
<1>7. parse_policy(e) =
        [user |-> p.user,
         policy |-> [read |-> RuleSetOf(e, "read"), control |-> RuleSetOf(e, "control"),
                     token_creation |-> q.token_creation,
                     default_dashboard |-> q.default_dashboard,
                     allowed_dashboards |-> q.allowed_dashboards]]
  BY <1>1, <1>2, <1>5, <1>6 DEF parse_policy
<1>8. Resaved(p) = parse_policy(e)
  BY <1>3, <1>4 DEF Resaved, Validated
<1>9. /\ RuleSetOf(e, "control") =
           [entities |-> q.control.entities, domains |-> q.control.domains,
            areas |-> q.control.areas]
      /\ RuleSetOf(e, "read") =
           [entities |-> q.read.entities \ q.control.entities,
            domains |-> q.read.domains \ q.control.domains,
            areas |-> q.read.areas \ q.control.areas]
  <2>1. /\ Ids(e.entities, "control") = q.control.entities
        /\ Ids(e.entities, "read") = q.read.entities \ q.control.entities
    BY <1>5, MergedIds
  <2>2. /\ Ids(e.domains, "control") = q.control.domains
        /\ Ids(e.domains, "read") = q.read.domains \ q.control.domains
    BY <1>5, MergedIds
  <2>3. /\ Ids(e.areas, "control") = q.control.areas
        /\ Ids(e.areas, "read") = q.read.areas \ q.control.areas
    BY <1>5, MergedIds
  <2> HIDE DEF e
  <2> QED BY <2>1, <2>2, <2>3 DEF RuleSetOf
<1>10. q.control = [entities |-> q.control.entities, domains |-> q.control.domains,
                    areas |-> q.control.areas]
  BY <1>1 DEF UserPolicy, RuleSet
<1>11. Resaved(p).policy \in UserPolicy
  <2>1. RuleSetOf(e, "control") \in RuleSet /\ RuleSetOf(e, "read") \in RuleSet
    BY <1>1, <1>9 DEF UserPolicy, RuleSet
  <2> QED BY <1>1, <1>7, <1>8, <2>1 DEF UserPolicy
<1>12. SameRights(q, Resaved(p).policy)
  BY <1>7, <1>8, <1>9, <1>10 DEF SameRights
<1>13. Resaved(p) \in Parsed
  BY <1>1, <1>7, <1>8, <1>11 DEF Parsed
<1> QED BY <1>7, <1>8, <1>11, <1>12, <1>13, ErrorAssumption

\* Policies that give the same rights are told apart by no decision of the
\* gateway: what may be read, controlled and called, and the dashboards.
THEOREM SameRightsSameDecisions ==
    ASSUME NEW p \in UserPolicy, NEW q \in UserPolicy, NEW reg, SameRights(p, q)
    PROVE  /\ \A e : allowed_control(p, reg, e) <=> allowed_control(q, reg, e)
           /\ \A e : allowed_read(p, reg, e) <=> allowed_read(q, reg, e)
           /\ enumerable_read_entities(p, reg) = enumerable_read_entities(q, reg)
           /\ dashboards(p) = dashboards(q)
           /\ \A call : service_call_allowed(p, reg, call) <=> service_call_allowed(q, reg, call)
<1>1. \A e : allowed_control(p, reg, e) <=> allowed_control(q, reg, e)
  BY DEF SameRights, allowed_control
<1>2. \A e : allowed_read(p, reg, e) <=> allowed_read(q, reg, e)
  <2> TAKE e
  <2>1. /\ (e \in p.read.entities \/ e \in p.control.entities)
             <=> (e \in q.read.entities \/ e \in q.control.entities)
        /\ (DomainOf[e] \in p.read.domains \/ DomainOf[e] \in p.control.domains)
             <=> (DomainOf[e] \in q.read.domains \/ DomainOf[e] \in q.control.domains)
        /\ (area_of(reg, e) \in p.read.areas \/ area_of(reg, e) \in p.control.areas)
             <=> (area_of(reg, e) \in q.read.areas \/ area_of(reg, e) \in q.control.areas)
    BY DEF SameRights
  <2> QED BY <2>1 DEF allowed_read, allowed_control, _match
<1>3. enumerable_read_entities(p, reg) = enumerable_read_entities(q, reg)
  <2>1. /\ p.read.domains \cup p.control.domains = q.read.domains \cup q.control.domains
        /\ p.read.areas \cup p.control.areas = q.read.areas \cup q.control.areas
        /\ p.read.entities \cup p.control.entities = q.read.entities \cup q.control.entities
    BY DEF SameRights
  <2> QED BY <2>1 DEF enumerable_read_entities
<1>4. dashboards(p) = dashboards(q)
  BY DEF SameRights, dashboards
<1>5. \A call : service_call_allowed(p, reg, call) <=> service_call_allowed(q, reg, call)
  BY <1>1 DEF service_call_allowed
<1> QED BY <1>1, <1>2, <1>3, <1>4, <1>5
=============================================================================
