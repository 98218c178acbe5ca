----------------------------- MODULE RestProxy -----------------------------
(***************************************************************************)
(* REST requests through the gateway (rest_proxy.py): the checks in their  *)
(* order, the awaits between them (identity, the body of the request, Home *)
(* Assistant's reply) and the filter on what comes back, while policies    *)
(* are edited, the registry snapshot is replaced, the gateway is tripped   *)
(* and Home Assistant goes away.                                           *)
(*                                                                         *)
(* As in WsSession a payload is the set of items it is about, and `odd`    *)
(* stands for a body of an unexpected shape.                               *)
(***************************************************************************)
EXTENDS PolicyFiles, TripSwitch

CONSTANTS
    Slots,          \* requests handled at the same time
    Users,          \* users with a valid token
    Admins,         \* those Home Assistant calls admin or owner
    Stranger,       \* whoever comes without one
    Deployments,    \* how the gateway may be used: see Deployment
    Snapshots,      \* registry snapshots, fresh and stale (RegistryCache)
    Payloads,       \* policies an admin may send, per user
    FirstPolicies,  \* the policies at start
    None            \* no policy, no identity

\* What a path and a method stand for: the login pages, the frontend, a write
\* outside the API, paths open to everyone, denied and unlisted paths, and the
\* endpoints handled one by one.  An unfilterable call asks for a response, or
\* its path is malformed.
ShellKinds == {"auth", "frontend"}
ApiKinds == {"public", "denied", "plain", "config", "states", "state", "service", "unfilterable"}

Request ==
    [kind : (ShellKinds \cup ApiKinds \cup {"write"}) \ {"state", "service"}]
      \cup [kind : {"state"}, entity : Entities]
      \cup [kind : {"service"}, call : Call]

\* Whether a canary_token is set, the requests clients make (whose token, and for
\* what), and the users whose policies are edited.
Deployment == [canary : BOOLEAN, traffic : SUBSET ((Users \cup {Stranger}) \X Request),
               edited : SUBSET (Users \ Admins)]

ASSUME RestAssumption ==
    /\ Users \subseteq Keys /\ Admins \subseteq Users /\ Stranger \notin Users
    /\ \A d \in Deployments : d.canary \in BOOLEAN /\ d.edited \subseteq Users \ Admins
    /\ \A d \in Deployments : d.traffic \subseteq (Users \cup {Stranger}) \X Request
    /\ Snapshots \subseteq Snapshot
    /\ Payloads \in [Users \ Admins -> SUBSET Payload]
    /\ None \notin UserPolicy \cup Users
    /\ FirstPolicies \in [Users \ Admins -> UserPolicy \cup {None}]

VARIABLES
    deployment,     \* one of Deployments
    policies,       \* the policy evaluator_for finds for each user
    reg,            \* the registry snapshot
    ha,             \* Home Assistant is up, down, or mute: it answers nothing
    up,             \* the gateway process runs
    req,            \* the request in each slot
    readable        \* history: what its policy could read since it was looked up

restVars == <<deployment, policies, reg, ha, up, req, readable>>

Idle == [pc |-> "idle"]

Restricted == Users \ Admins

Set(s, r) == req' = [req EXCEPT ![s] = r]

\* The answer given: its status and the items it is about.
Done(status, items) == [pc |-> "done", status |-> status, told |-> items]
Refuse(s, status) == Set(s, Done(status, {}))

Waits(s, pc, who, r, ev) == Set(s, [pc |-> pc, who |-> who, request |-> r, ev |-> ev])

\* Waiting for Home Assistant's reply; without an evaluator it is passed through.
Forward(s, who, r, ev) == Waits(s, "upstream", who, r, ev)

Fixed == UNCHANGED <<deployment, policies, reg, ha, up>>

-----------------------------------------------------------------------------
\* handle, up to the first await.

PassShell(s, who, r) ==
    /\ r.kind \in ShellKinds
    /\ Forward(s, who, r, None)
    /\ UNCHANGED tripVars

RefuseWrite(s, r) ==
    /\ r.kind = "write"
    /\ Refuse(s, 403)
    /\ UNCHANGED tripVars

RefuseTripped(s, r) ==
    /\ r.kind \in ApiKinds /\ is_tripped
    /\ Refuse(s, 503)
    /\ Looks

PassPublic(s, who, r) ==
    /\ r.kind = "public" /\ ~is_tripped
    /\ Forward(s, who, r, None)
    /\ Looks

AskIdentity(s, who, r) ==
    /\ r.kind \in ApiKinds \ {"public"} /\ ~is_tripped
    /\ Waits(s, "resolving", who, r, None)
    /\ Looks

handle(s, who, r) ==
    /\ up /\ req[s] = Idle
    /\ \/ PassShell(s, who, r) \/ RefuseWrite(s, r) \/ RefuseTripped(s, r)
       \/ PassPublic(s, who, r) \/ AskIdentity(s, who, r)
    /\ Fixed

-----------------------------------------------------------------------------
\* _handle_api, once the identity is known.

Resolving(s) == up /\ req[s].pc = "resolving"

\* No token, a token Home Assistant rejects, or a question that fails: nobody to ask,
\* or no connection within ten seconds.  (Once asked, it may wait for an answer for ever.)
Unauthorized(s) ==
    /\ Resolving(s)
    /\ req[s].who = Stranger \/ ha # "up"
    /\ Refuse(s, 401)

Identified(s) == Resolving(s) /\ req[s].who # Stranger

PassAdmin(s) ==
    /\ Identified(s) /\ req[s].who \in Admins
    /\ Forward(s, req[s].who, req[s].request, None)

\* The policy is looked up here and kept to the end of the request.
Assigned(s) == Identified(s) /\ req[s].who \in Restricted /\ policies[req[s].who] # None

RefuseUnassigned(s) ==
    /\ Identified(s) /\ req[s].who \in Restricted /\ policies[req[s].who] = None
    /\ Refuse(s, 403)

RefuseEndpoint(s) ==
    /\ Assigned(s)
    /\ LET r == req[s].request
       IN \/ r.kind \in {"denied", "unfilterable"}
          \/ r.kind = "state" /\ ~allowed_read(policies[req[s].who], reg, r.entity)
    /\ Refuse(s, 403)

Serve(s) ==
    /\ Assigned(s)
    /\ LET r == req[s].request
       IN \/ r.kind \in {"plain", "config", "states"}
          \/ r.kind = "state" /\ allowed_read(policies[req[s].who], reg, r.entity)
    /\ Forward(s, req[s].who, req[s].request, policies[req[s].who])

\* Mutant: the evaluator does not survive the await.
ReadBodyUnjudged(s) ==
    /\ Assigned(s) /\ req[s].request.kind = "service"
    /\ Waits(s, "reading", req[s].who, req[s].request, None)

\* _call_service waits for the body of the request before it decides.
ReadBody(s) ==
    /\ Assigned(s) /\ req[s].request.kind = "service"
    /\ Waits(s, "reading", req[s].who, req[s].request, policies[req[s].who])

\* Mutant: the targets were expanded before the body had arrived.
DecideByOldRegistry(s) ==
    /\ up /\ req[s].pc = "reading"
    /\ LET q == req[s]
       IN IF \E old \in Snapshots : service_call_allowed(q.ev, old, q.request.call)
          THEN Forward(s, q.who, q.request, q.ev)
          ELSE Refuse(s, 403)

DecideCall(s) ==
    /\ up /\ req[s].pc = "reading"
    /\ LET q == req[s]
       IN IF service_call_allowed(q.ev, reg, q.request.call)
          THEN Forward(s, q.who, q.request, q.ev)
          ELSE Refuse(s, 403)

-----------------------------------------------------------------------------
\* Home Assistant's reply.  What it sends is unfiltered; its error replies, the
\* shell and the service catalogue are about no item.

HaContent(r) ==
    CASE r.kind = "state" -> {r.entity}
      [] r.kind \in {"states", "service"} -> Entities
      [] r.kind = "config" -> {HomeLocation}
      [] OTHER -> {}

\* Mutant: what a call changed is passed on as it is.
told_but_calls(q, odd) ==
    IF odd THEN {}
    ELSE CASE q.request.kind = "config" -> HaContent(q.request) \ {HomeLocation}
           [] q.request.kind = "states" -> filter_states(q.ev, reg, HaContent(q.request))
           [] OTHER -> HaContent(q.request)

\* A body of an unexpected shape becomes an empty one.  The single state was
\* checked before and is passed through.
told(q, odd) ==
    IF odd THEN {}
    ELSE CASE q.request.kind = "config" -> HaContent(q.request) \ {HomeLocation}
           [] q.request.kind \in {"states", "service"} ->
                filter_states(q.ev, reg, HaContent(q.request))
           [] OTHER -> HaContent(q.request)

Upstream(s) == up /\ req[s].pc = "upstream"

\* What is passed through without an evaluator is no restricted user's.
Reply(s) ==
    /\ Upstream(s) /\ ha = "up"
    /\ LET q == req[s]
       IN IF q.ev = None THEN Set(s, Done(200, {}))
          ELSE \E odd \in BOOLEAN : Set(s, Done(200, told(q, odd)))

\* Home Assistant answers with an error, which is passed on.
ReplyError(s) ==
    /\ Upstream(s) /\ ha = "up"
    /\ Set(s, Done(400, {}))

\* The connection is refused, breaks, or nothing comes for five minutes.
UpstreamFails(s) ==
    /\ Upstream(s) /\ ha # "up"
    /\ Refuse(s, 500)

Respond(s) ==
    /\ \/ Unauthorized(s) \/ PassAdmin(s) \/ RefuseUnassigned(s) \/ RefuseEndpoint(s)
       \/ Serve(s) \/ ReadBody(s) \/ DecideCall(s)
       \/ Reply(s) \/ ReplyError(s) \/ UpstreamFails(s)
    /\ Fixed /\ UNCHANGED tripVars

\* The client has read the answer.
Leave(s) ==
    /\ req[s].pc = "done" /\ Set(s, Idle)
    /\ Fixed /\ UNCHANGED tripVars

-----------------------------------------------------------------------------
\* Around it.

\* put_policy: an edit that does not parse changes nothing.
Put(u) ==
    /\ up
    /\ \E payload \in Payloads[u] :
         LET parsed == Validated(payload)
         IN parsed # PolicyError /\ policies' = [policies EXCEPT ![u] = parsed.policy]
    /\ UNCHANGED <<deployment, reg, ha, up, req>> /\ UNCHANGED tripVars

\* The policy is opened in the editor and saved as it is.
Resave(u) ==
    /\ up /\ policies[u] # None
    /\ LET user == [id |-> u, name |-> Nobody]
           resaved == Resaved([user |-> user, policy |-> policies[u]])
       IN resaved # PolicyError /\ policies' = [policies EXCEPT ![u] = resaved.policy]
    /\ UNCHANGED <<deployment, reg, ha, up, req>> /\ UNCHANGED tripVars

Delete(u) ==
    /\ up /\ policies[u] # None
    /\ policies' = [policies EXCEPT ![u] = None]
    /\ UNCHANGED <<deployment, reg, ha, up, req>> /\ UNCHANGED tripVars

EditPolicy(u) == Put(u) \/ Resave(u) \/ Delete(u)

RegistryChanges ==
    /\ reg' \in Snapshots \ {reg}
    /\ UNCHANGED <<deployment, policies, ha, up, req>> /\ UNCHANGED tripVars

HaChanges ==
    /\ ha' \in {"up", "down", "mute"} \ {ha}
    /\ UNCHANGED <<deployment, policies, reg, up, req>> /\ UNCHANGED tripVars

\* Sessions and health checks ask the trip switch as well.
OthersAsk == up /\ Looks /\ Fixed /\ UNCHANGED req

Operator == (OperatorTrips \/ OperatorClears) /\ Fixed /\ UNCHANGED req

Tick == TripTick /\ Fixed /\ UNCHANGED req

Crash ==
    /\ up /\ up' = FALSE
    /\ req' = [s \in Slots |-> Idle]
    /\ UNCHANGED <<deployment, policies, reg, ha>> /\ UNCHANGED tripVars

Boot == ~up /\ up' = TRUE /\ TripStarts /\ UNCHANGED <<deployment, policies, reg, ha, req>>

RestInit ==
    /\ deployment \in Deployments
    /\ policies = FirstPolicies
    /\ reg \in Snapshots
    /\ ha = "up" /\ up = TRUE
    /\ req = [s \in Slots |-> Idle]
    /\ readable = [s \in Slots |-> {}]
    /\ TripInit

Environment ==
    \/ RegistryChanges \/ HaChanges \/ OthersAsk \/ Operator \/ Tick \/ Crash \/ Boot

\* The history of a request with an evaluator.
Remembers ==
    readable' = [s \in Slots |->
        IF req'[s].pc \in {"reading", "upstream"} /\ req'[s].ev # None
        THEN readable[s] \cup Readable(req'[s].ev, reg') ELSE {}]
=============================================================================
