---------------------------- MODULE PolicyFiles ----------------------------
(***************************************************************************)
(* The forms a policy takes on its way through the admin API: the editor's *)
(* payload, the mapping that is written to the file, and the parsed policy *)
(* (admin_api.py, policy.py).  Lists are sets: neither their order nor a   *)
(* repeated rule makes a difference to the parser.                         *)
(***************************************************************************)
EXTENDS PolicyRules

CONSTANTS
    Keys,           \* user ids and display names
    Nobody,         \* an absent id or name
    Unusual,        \* an access level, or a token_creation, that is none
    Falsy,          \* a token_creation that is none either, but counts as false
    PolicyError     \* the exception

Access == {"read", "control"}

ASSUME FormAssumption ==
    Nobody \notin Keys /\ Unusual \notin Access /\ {Unusual, Falsy} \cap BOOLEAN = {} /\ Falsy # Unusual

\* What names the user: an id, a display name, both or neither.
Match == [id : Keys \cup {Nobody}, name : Keys \cup {Nobody}]

\* A policy file's worth: for whom, and what.
Parsed == [user : {m \in Match : (m.id = Nobody) # (m.name = Nobody)}, policy : UserPolicy]
Rule(S) == [id : S, access : Access \cup {Unusual}]

\* What the panel or a script may send, and what a file may hold.
Payload ==
    [user : Match,
     entities : SUBSET Rule(Entities), domains : SUBSET Rule(Domains), areas : SUBSET Rule(Areas),
     token_creation : BOOLEAN \cup {Unusual, Falsy},
     default : Dashboards \cup {NoDashboard}, allowed : SUBSET Dashboards]

ASSUME ErrorAssumption == PolicyError \notin Parsed /\ PolicyError \notin Payload

-----------------------------------------------------------------------------
\* to_editor_dict.

\* A rule that is in both sets is shown as control.
merged(read, control) ==
    {[id |-> i, access |-> "control"] : i \in control}
      \cup {[id |-> i, access |-> "read"] : i \in read \ control}

\* Mutant: the token grant is not shown.
grantless_editor_dict(p) ==
    [user |-> p.user,
     entities |-> merged(p.policy.read.entities, p.policy.control.entities),
     domains |-> merged(p.policy.read.domains, p.policy.control.domains),
     areas |-> merged(p.policy.read.areas, p.policy.control.areas),
     token_creation |-> FALSE,
     default |-> p.policy.default_dashboard, allowed |-> p.policy.allowed_dashboards]

to_editor_dict(p) ==
    [user |-> p.user,
     entities |-> merged(p.policy.read.entities, p.policy.control.entities),
     domains |-> merged(p.policy.read.domains, p.policy.control.domains),
     areas |-> merged(p.policy.read.areas, p.policy.control.areas),
     token_creation |-> p.policy.token_creation,
     default |-> p.policy.default_dashboard, allowed |-> p.policy.allowed_dashboards]

-----------------------------------------------------------------------------
\* editor_to_mapping, with the access levels checked; an id goes before a name, and a
\* token_creation that counts as false is left out, as false is.

Rules(payload) == payload.entities \cup payload.domains \cup payload.areas

editor_to_mapping(payload) ==
    IF \E rule \in Rules(payload) : rule.access = Unusual THEN PolicyError
    ELSE [payload EXCEPT !.user.name = IF payload.user.id # Nobody THEN Nobody ELSE @,
                         !.token_creation = IF @ = Falsy THEN FALSE ELSE @]

-----------------------------------------------------------------------------
\* parse_policy.

Ids(rules, access) == {rule.id : rule \in {r \in rules : r.access = access}}

RuleSetOf(mapping, access) ==
    [entities |-> Ids(mapping.entities, access), domains |-> Ids(mapping.domains, access),
     areas |-> Ids(mapping.areas, access)]

parse_policy(mapping) ==
    IF \/ (mapping.user.id = Nobody) = (mapping.user.name = Nobody)
       \/ mapping.token_creation \notin BOOLEAN
       \/ \E rule \in Rules(mapping) : rule.access \notin Access
    THEN PolicyError
    ELSE [user |-> mapping.user,
          policy |-> [read |-> RuleSetOf(mapping, "read"),
                      control |-> RuleSetOf(mapping, "control"),
                      token_creation |-> mapping.token_creation,
                      default_dashboard |-> mapping.default,
                      allowed_dashboards |-> mapping.allowed]]

\* What put_policy makes of a payload before it writes anything.
Validated(payload) ==
    LET mapping == editor_to_mapping(payload)
    IN IF mapping = PolicyError THEN PolicyError ELSE parse_policy(mapping)

\* What a policy becomes when an admin opens it in the editor and saves it again.
Resaved(p) == Validated(to_editor_dict(p))

-----------------------------------------------------------------------------
\* Two policies that let a user do the same, whatever the registry.
SameRights(p, q) ==
    /\ p.token_creation = q.token_creation
    /\ p.default_dashboard = q.default_dashboard
    /\ p.allowed_dashboards = q.allowed_dashboards
    /\ p.control = q.control
    /\ p.control.entities \cup p.read.entities = q.control.entities \cup q.read.entities
    /\ p.control.domains \cup p.read.domains = q.control.domains \cup q.read.domains
    /\ p.control.areas \cup p.read.areas = q.control.areas \cup q.read.areas
=============================================================================
