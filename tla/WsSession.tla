----------------------------- MODULE WsSession -----------------------------
(***************************************************************************)
(* One authenticated WebSocket session of a restricted user (_Connection   *)
(* of ws_proxy.py) between its two pumps: the one that reads the client    *)
(* and forwards, rewrites, answers or denies each command, and the one     *)
(* that reads Home Assistant and filters what it relays.  The two run as   *)
(* coroutines of one event loop, so everything between two awaits is one   *)
(* step here and the pumps interleave at the awaits.                       *)
(*                                                                         *)
(* Around the session, and not under its control: Home Assistant answers   *)
(* outstanding requests in any order, with an error, or with a payload of  *)
(* an unexpected shape; the registry snapshot is replaced or goes stale;   *)
(* the trip file comes and goes; either socket may close at any moment.    *)
(*                                                                         *)
(* A client chooses the id of each command, and may use one again while    *)
(* something of it is under way: Home Assistant's protocol forbids it, the *)
(* gateway does not check it.  Such an id is `crossed`.  A command or a    *)
(* frame is reduced to what it is about: a set of items of PolicyRules.    *)
(***************************************************************************)
EXTENDS PolicyRules, Naturals, Sequences

CONSTANTS
    Policies,       \* the policies a user of this instance may hold
    Snapshots,      \* the registry snapshots a refresh may install
    Commands,       \* the commands the client of this instance sends
    Requested,      \* the entity_ids arguments of its subscriptions
    Calls,          \* its service calls
    MaxCommands,    \* bound: the commands one session sends
    MaxQueue        \* bound: frames of HA in flight when it emits an event

ASSUME PoliciesAssumption == Policies \subseteq UserPolicy
ASSUME SnapshotsAssumption == Snapshots \subseteq Snapshot
ASSUME RequestedAssumption == Requested \subseteq SUBSET Entities
ASSUME CallsAssumption == Calls \subseteq Call
ASSUME BoundAssumption == MaxCommands \in Nat /\ MaxQueue \in Nat

\* The commands of a session, in the order they are sent, and their ids, named in
\* the order of their first use: an id is only ever compared with another one.
Numbers == 1..MaxCommands
Ids == Numbers
None == "none"

VARIABLES
    ev,             \* the policy of self.ev, fixed when the session was opened
    reg,            \* what the registry cache answers from
    tripped,        \* what trip.is_tripped() returns
    client,         \* self.client is open
    upstream,       \* self.upstream is open
    c2h, h2c,       \* the two pumps: "running" or "done"
    live,           \* the session is in gw.live_ws
    nextNo,         \* the number of the client's next command
    pending,        \* request id -> how its result is transformed, or None
    subs,           \* subscription id -> kind of _Sub, or None
    atHA,           \* the requests Home Assistant has still to answer
    haSubs,         \* the subscriptions Home Assistant serves
    fromHA,         \* the frames on their way from Home Assistant
    sent,           \* the frames this step writes to the client
    answered,       \* the commands a result or an error has been written for
    crossed         \* history: the ids used again while something of them was under way

session == <<ev, c2h, h2c, live, client, upstream>>
tables == <<pending, subs>>
ha == <<atHA, haSubs, fromHA>>
world == <<reg, tripped>>
asked == <<nextNo, crossed>>
vars == <<ev, reg, tripped, client, upstream, c2h, h2c, live, nextNo, pending,
          subs, atHA, haSubs, fromHA, sent, answered, crossed>>

-----------------------------------------------------------------------------
\* The command table: what a forwarded command's result is passed through.

ResultKind(cmd) ==
    CASE cmd = "get_states" -> "filter_states"
      [] cmd = "get_config" -> "redact_config"
      [] cmd = "get_panels" -> "filter_panels"
      [] cmd = "lovelace/dashboards/list" -> "filter_lovelace_dashboards"
      [] cmd = "entity_registry/list" -> "filter_entity_reg"
      [] cmd = "entity_registry/list_for_display" -> "filter_entity_display"
      [] cmd = "device_registry/list" -> "filter_device_reg"
      [] cmd = "area_registry/list" -> "filter_area_reg"
      [] cmd = "call_service" -> "passthrough"
      [] cmd = "lovelace/config" -> "passthrough"
      [] cmd = "auth/long_lived_access_token" -> "passthrough"
      [] cmd = "auth/refresh_tokens" -> "token_list_guard"
      [] OTHER -> None

FilteredCommands ==
    {"get_states", "get_config", "get_panels", "lovelace/dashboards/list",
     "entity_registry/list", "entity_registry/list_for_display",
     "device_registry/list", "area_registry/list"}

TokenCommands == {"auth/long_lived_access_token", "auth/refresh_tokens"}

SubscribeCommands ==
    {"subscribe_entities", "state_changed", "safe_event", "system_data_core", "system_data_other"}

\* Answered by the gateway itself: floor and label registry, WS_SOFT_EMPTY,
\* WS_SILENT_ACK, a synthetic event subscription, system_log.write.
LocalCommands == {"floor_registry/list", "silent_ack", "synthetic_event", "system_log.write"}

\* WS_FORWARD_PLAIN and lovelace/resources; "unknown" is everything that is
\* in no table, WS_EXPLICIT_DENY and malformed or response-returning calls.
AllCommands ==
    FilteredCommands \cup TokenCommands \cup LocalCommands
      \cup SubscribeCommands
      \cup {"plain", "unsubscribe_events", "call_service", "lovelace/config", "unknown"}

FilterKinds ==
    {"filter_states", "redact_config", "filter_panels", "filter_lovelace_dashboards",
     "filter_entity_reg", "filter_entity_display", "filter_device_reg", "filter_area_reg"}

SubKinds == {"entities", "state_changed", "system_data_core", "passthrough_event"}

\* A payload is of an "odd" shape where the code expects a list or a dict; it is
\* "bare" where only the value inside an event is not the dict it looks for.
Shapes == {"usual", "odd", "bare"}

\* The number of the command a request or a frame belongs to is on no wire.
Request == [no : Numbers, id : Ids, cmd : AllCommands, about : SUBSET Item]
Frame == [no : Numbers, id : Ids, type : {"result", "event"}, ok : BOOLEAN, shape : Shapes,
          items : SUBSET Item]
ClientFrame == [no : Numbers, id : Ids, type : {"result", "event"}, ok : BOOLEAN,
                bare : BOOLEAN, items : SUBSET Item]

\* The client's next command as a request, and the gateway's own answers to it.
Asked(id, cmd, about) == [no |-> nextNo, id |-> id, cmd |-> cmd, about |-> about]
Own(id, type, ok) ==
    [no |-> nextNo, id |-> id, type |-> type, ok |-> ok, bare |-> FALSE, items |-> {}]
Result(id) == Own(id, "result", TRUE)
Error(id) == Own(id, "result", FALSE)
Event(id) == Own(id, "event", TRUE)

Relay(f, items) == [no |-> f.no, id |-> f.id, type |-> f.type, ok |-> f.ok,
                    bare |-> f.shape = "bare", items |-> items]

\* What an unfiltered answer of Home Assistant to request r is about.
HaContent(r) ==
    CASE r.cmd \in {"get_states", "entity_registry/list", "entity_registry/list_for_display"}
           -> Entities
      [] r.cmd = "get_config" -> {HomeLocation}
      [] r.cmd \in {"get_panels", "lovelace/dashboards/list"} -> Dashboards
      [] r.cmd = "device_registry/list" -> Devices
      [] r.cmd = "area_registry/list" -> Areas
      [] r.cmd = "lovelace/config" -> r.about
      [] OTHER -> {}

\* What an event of subscription s may be about.
HaEvents(s) ==
    CASE s.cmd = "subscribe_entities" -> SUBSET s.about \ {{}}
      [] s.cmd = "state_changed" -> {{e} : e \in Entities}
      [] s.cmd = "system_data_core" -> {{}} \cup {{d} : d \in Dashboards}
      [] OTHER -> {{}}

-----------------------------------------------------------------------------
\* Sending.  A step writes to the client once, or twice for an empty
\* subscription; a write upstream fails when that socket is closed, which ends
\* the pump that wrote.

Reply(frames) ==
    /\ sent' = frames
    /\ answered' = answered \cup {f.no : f \in {g \in frames : g.type = "result"}}

Quiet == sent' = {} /\ UNCHANGED answered

_forward(r) ==
    /\ Quiet
    /\ IF upstream
       THEN atHA' = atHA \cup {r} /\ UNCHANGED <<c2h, haSubs, fromHA>>
       ELSE c2h' = "done" /\ UNCHANGED ha

_deny(id) == Reply({Error(id)})

-----------------------------------------------------------------------------
\* client -> HA: _route_client_msg, one action per branch.

\* Home Assistant has still to send something under this id, or has sent it.
UnderWay(id) ==
    \/ \E r \in atHA \cup haSubs : r.id = id
    \/ \E i \in 1..Len(fromHA) : fromHA[i].id = id

Receives(cmd, id) ==
    /\ c2h = "running" /\ client
    /\ cmd \in Commands
    /\ nextNo \in Numbers /\ nextNo' = nextNo + 1
    /\ id \in 1..nextNo
    /\ crossed' = crossed \cup {i \in {id} : UnderWay(i)}
    /\ UNCHANGED <<ev, client, upstream, h2c, live, world>>

Routes(cmd, id) == Receives(cmd, id) /\ ~tripped

Answers(frames) == Reply(frames) /\ UNCHANGED <<c2h, tables, ha>>

Denies(id) == _deny(id) /\ UNCHANGED <<c2h, tables, ha>>

\* While the trip file is there every command is denied.
RouteTripped(id) ==
    \E cmd \in AllCommands : Receives(cmd, id) /\ tripped /\ Denies(id)

\* Unsubscribing is plain too: the gateway keeps its own entry in subs.
RoutePlain(id) ==
    \E cmd \in {"plain", "unsubscribe_events"} :
        /\ Routes(cmd, id)
        /\ _forward(Asked(id, cmd, {}))
        /\ UNCHANGED tables

\* Mutant: the panels are forwarded as a plain command.
RouteFilteredButPanels(id) ==
    \E cmd \in FilteredCommands :
        /\ Routes(cmd, id)
        /\ pending' = IF cmd = "get_panels" THEN pending
                      ELSE [pending EXCEPT ![id] = ResultKind(cmd)]
        /\ _forward(Asked(id, cmd, {}))
        /\ UNCHANGED subs

\* Mutant: a transform has a name _transform_result does not know.
RouteFilteredMisnamed(id) ==
    \E cmd \in FilteredCommands :
        /\ Routes(cmd, id)
        /\ pending' = [pending EXCEPT ![id] =
                          IF cmd = "device_registry/list" THEN "filter_devices"
                          ELSE ResultKind(cmd)]
        /\ _forward(Asked(id, cmd, {}))
        /\ UNCHANGED subs

RouteFiltered(id) ==
    \E cmd \in FilteredCommands :
        /\ Routes(cmd, id)
        /\ pending' = [pending EXCEPT ![id] = ResultKind(cmd)]
        /\ _forward(Asked(id, cmd, {}))
        /\ UNCHANGED subs

\* Mutant: the branch falls through to forwarding what it acknowledged.
RouteLocalAndForward(id) ==
    \E cmd \in LocalCommands :
        /\ Routes(cmd, id)
        /\ Reply({Result(id)})
        /\ atHA' = atHA \cup {Asked(id, cmd, {})}
        /\ UNCHANGED <<c2h, haSubs, fromHA, tables>>

RouteLocal(id) ==
    \E cmd \in LocalCommands : Routes(cmd, id) /\ Answers({Result(id)})

RouteUnknown(id) == Routes("unknown", id) /\ Denies(id)

EmptySubscription(id) == {Result(id), Event(id)}

SubscribeTo(id, target) ==
    _forward(Asked(id, "subscribe_entities", target))

\* Mutant: the rewritten list is forwarded even when it is empty.
forward_any_subscribe_entities(id) ==
    /\ Routes("subscribe_entities", id)
    /\ subs' = [subs EXCEPT ![id] = "entities"]
    /\ UNCHANGED pending
    /\ \E requested \in Requested \cup {Entities} :
         SubscribeTo(id, enumerable_read_entities(ev, reg) \cap requested)

\* Mutant: the empty subscription gets its first event but no result.
unanswered_subscribe_entities(id) ==
    /\ Routes("subscribe_entities", id)
    /\ subs' = [subs EXCEPT ![id] = "entities"]
    /\ UNCHANGED pending
    /\ \E requested \in Requested \cup {Entities} :
         LET target == enumerable_read_entities(ev, reg) \cap requested IN
         IF target = {}
         THEN Reply({Event(id)}) /\ UNCHANGED <<c2h, ha>>
         ELSE SubscribeTo(id, target)

\* Mutant: no return after the empty subscription has been answered.
falling_through_subscribe_entities(id) ==
    /\ Routes("subscribe_entities", id)
    /\ subs' = [subs EXCEPT ![id] = "entities"]
    /\ UNCHANGED pending
    /\ \E requested \in Requested \cup {Entities} :
         LET target == enumerable_read_entities(ev, reg) \cap requested IN
         IF target = {}
         THEN /\ Reply(EmptySubscription(id))
              /\ atHA' = atHA \cup {Asked(id, "subscribe_entities", {})}
              /\ UNCHANGED <<c2h, haSubs, fromHA>>
         ELSE SubscribeTo(id, target)

\* Without entity_ids the client asks for everything it may read.  An empty
\* list is never forwarded: Home Assistant reads it as every entity.
_handle_subscribe_entities(id) ==
    /\ Routes("subscribe_entities", id)
    /\ subs' = [subs EXCEPT ![id] = "entities"]
    /\ UNCHANGED pending
    /\ \E requested \in Requested \cup {Entities} :
         LET target == enumerable_read_entities(ev, reg) \cap requested IN
         IF target = {}
         THEN Reply(EmptySubscription(id)) /\ UNCHANGED <<c2h, ha>>
         ELSE SubscribeTo(id, target)

\* Mutant: a kind _relay_event does not know.
MisnamedSubKind(cmd) ==
    CASE cmd = "state_changed" -> "state_changed"
      [] cmd = "system_data_core" -> "system_data"
      [] OTHER -> "passthrough_event"

SubKind(cmd) ==
    CASE cmd = "state_changed" -> "state_changed"
      [] cmd = "system_data_core" -> "system_data_core"
      [] OTHER -> "passthrough_event"

\* subscribe_events of state_changed or of a safe type, and system data.
_handle_subscribe_events(id) ==
    \E cmd \in SubscribeCommands \ {"subscribe_entities"} :
        /\ Routes(cmd, id)
        /\ subs' = [subs EXCEPT ![id] = SubKind(cmd)]
        /\ _forward(Asked(id, cmd, {}))
        /\ UNCHANGED pending

\* The call is forwarded as it came or denied as a whole.
_handle_call_service(id) ==
    /\ Routes("call_service", id)
    /\ \E call \in Calls :
         IF service_call_allowed(ev, reg, call)
         THEN /\ pending' = [pending EXCEPT ![id] = ResultKind("call_service")]
              /\ _forward(Asked(id, "call_service", call.about))
              /\ UNCHANGED subs
         ELSE Denies(id)

\* Mutant: the transform is noted before the grant is looked at.
early_pending_token_management(id) ==
    \E cmd \in TokenCommands :
        /\ Routes(cmd, id)
        /\ pending' = [pending EXCEPT ![id] = ResultKind(cmd)]
        /\ UNCHANGED subs
        /\ IF ev.token_creation
           THEN _forward(Asked(id, cmd, {}))
           ELSE _deny(id) /\ UNCHANGED <<c2h, ha>>

_handle_token_management(id) ==
    \E cmd \in TokenCommands :
        /\ Routes(cmd, id)
        /\ IF ev.token_creation
           THEN /\ pending' = [pending EXCEPT ![id] = ResultKind(cmd)]
                /\ _forward(Asked(id, cmd, {}))
                /\ UNCHANGED subs
           ELSE Denies(id)

\* The default route is served by the user's own default dashboard.
LovelaceTarget(p, path) ==
    IF path \in {NoDashboard, Lovelace} /\ Lovelace \notin dashboards(p)
    THEN p.default_dashboard
    ELSE path

_handle_lovelace_config(id) ==
    /\ Routes("lovelace/config", id)
    /\ \E path \in Dashboards \cup {NoDashboard} :
         LET target == LovelaceTarget(ev, path) IN
         IF target \in dashboards(ev)
         THEN /\ pending' = [pending EXCEPT ![id] = ResultKind("lovelace/config")]
              /\ _forward(Asked(id, "lovelace/config", {target}))
              /\ UNCHANGED subs
         ELSE Denies(id)

-----------------------------------------------------------------------------
\* HA -> client: _route_ha_msg, _transform_result and _relay_event.

\* What the client gets of the result f.  (Under a crossed id it may be another
\* command's; what the code might keep of that is kept here.)
_transform_result(kind, f) ==
    IF ~f.ok \/ kind = "passthrough" THEN f.items
    ELSE IF f.shape = "odd" THEN {}
    ELSE CASE kind = "filter_states" -> filter_states(ev, reg, f.items)
           [] kind = "redact_config" -> f.items \ {HomeLocation}
           [] kind = "filter_panels" -> f.items \cap dashboards(ev)
           [] kind = "filter_lovelace_dashboards" -> f.items \cap dashboards(ev)
           [] kind = "filter_entity_reg" -> f.items \cap enumerable_read_entities(ev, reg)
           [] kind = "filter_entity_display"
                -> f.items \ (Entities \ enumerable_read_entities(ev, reg))
           [] kind = "filter_device_reg" -> f.items \cap allowed_device_ids(ev, reg)
           [] kind = "filter_area_reg" -> f.items \cap allowed_area_ids(ev, reg)
           [] OTHER -> f.items              \* token_list_guard

\* The panel the frontend opens first: the user's own, or else the built-in one.
DefaultPanel(p) == IF p.default_dashboard = NoDashboard THEN Lovelace ELSE p.default_dashboard

\* Mutant: what Home Assistant was asked for needs no second look.
trusting_relay_event(kind, f) ==
    IF f.shape = "odd" \/ (kind = "state_changed" /\ filter_states(ev, reg, f.items) = {}) THEN {}
    ELSE {Relay(f, f.items)}

\* The frames one event becomes: none when nothing of it may be told.  A bare value
\* of the system data is relayed as it is.
_relay_event(kind, f) ==
    IF f.shape = "odd" THEN {}
    ELSE CASE kind \in {"entities", "state_changed"} ->
                LET kept == filter_states(ev, reg, f.items)
                IN  IF kept = {} THEN {} ELSE {Relay(f, kept)}
           [] kind = "system_data_core" /\ f.shape # "bare" -> {Relay(f, {DefaultPanel(ev)})}
           [] OTHER -> {Relay(f, f.items)}

\* What the client gets of frame f.
_route_ha_msg(f) ==
    IF f.type = "result" /\ pending[f.id] # None
    THEN {Relay(f, _transform_result(pending[f.id], f))}
    ELSE IF f.type = "event" /\ subs[f.id] # None
    THEN _relay_event(subs[f.id], f)
    ELSE {Relay(f, f.items)}

\* Mutant: an error result leaves its entry behind.
PopOnSuccess(f) ==
    IF f.type = "result" /\ f.ok THEN [pending EXCEPT ![f.id] = None] ELSE pending

\* The entry of a result is taken out, whatever the result.
Pop(f) == IF f.type = "result" THEN [pending EXCEPT ![f.id] = None] ELSE pending

\* The pump reads on until it meets the closing of its socket, so it may still
\* read frames that arrived before.
Deliver ==
    LET f == Head(fromHA) IN
    /\ h2c = "running"
    /\ fromHA # <<>>
    /\ client \/ _route_ha_msg(f) = {}
    /\ fromHA' = Tail(fromHA)
    /\ pending' = Pop(f)
    /\ Reply(_route_ha_msg(f))
    /\ UNCHANGED <<session, world, asked, atHA, haSubs, subs>>

-----------------------------------------------------------------------------
\* The end of a session.  A pump ends when its socket closes or a write to the
\* other one fails, and closes the other side; frames not yet read are lost.
\* The handler then unregisters the session.

Closing == UNCHANGED <<ev, world, asked, tables, ha>> /\ Quiet

\* The client goes away, misses a heartbeat, or close_now closes it.
ClientCloses ==
    /\ client /\ client' = FALSE
    /\ Closing /\ UNCHANGED <<upstream, c2h, h2c, live>>

\* Home Assistant goes away, misses a heartbeat, or close_now closes it.
UpstreamCloses ==
    /\ upstream /\ upstream' = FALSE
    /\ Closing /\ UNCHANGED <<client, c2h, h2c, live>>

\* Mutant: without the finally, the other side stays open.
PumpClientEndsAlone ==
    /\ c2h = "running" /\ ~client
    /\ c2h' = "done"
    /\ Closing /\ UNCHANGED <<client, upstream, h2c, live>>

PumpClientEnds ==
    /\ c2h = "running" /\ ~client
    /\ c2h' = "done" /\ upstream' = FALSE
    /\ Closing /\ UNCHANGED <<client, h2c, live>>

PumpHaEnds ==
    /\ h2c = "running"
    /\ \/ ~upstream
       \/ ~client /\ fromHA # <<>> /\ _route_ha_msg(Head(fromHA)) # {}
    /\ h2c' = "done" /\ client' = FALSE
    /\ Closing /\ UNCHANGED <<upstream, c2h, live>>

Unregister ==
    /\ live /\ c2h = "done" /\ h2c = "done"
    /\ live' = FALSE /\ client' = FALSE /\ upstream' = FALSE
    /\ Closing /\ UNCHANGED <<c2h, h2c>>

-----------------------------------------------------------------------------
\* Home Assistant and the rest of the gateway.

Arrives(frame) ==
    /\ fromHA' = Append(fromHA, frame)
    /\ Quiet
    /\ UNCHANGED <<session, world, asked, tables>>

\* A frame that belongs to request r.
Sends(r, type, ok, shape, items) ==
    [no |-> r.no, id |-> r.id, type |-> type, ok |-> ok, shape |-> shape, items |-> items]

\* The successful answers to request r, and the events of subscription s.  An odd
\* payload may be about all of what is asked for.
HaResults(r) ==
    {Sends(r, "result", TRUE, "usual", HaContent(r))}
      \cup {Sends(r, "result", TRUE, "odd", c) : c \in {HaContent(r)} \ {{}}}

HaStream(s) ==
    {Sends(s, "event", TRUE, "usual", items) : items \in HaEvents(s)}
      \cup {Sends(s, "event", TRUE, "odd", UNION news) : news \in {HaEvents(s)} \ {{}}}
      \cup {Sends(s, "event", TRUE, "bare", items) :
               items \in IF s.cmd = "system_data_core" THEN HaEvents(s) ELSE {}}

\* The subscriptions served once request r succeeded.
HaServes(r) ==
    CASE r.cmd \in SubscribeCommands -> {haSubs \cup {r}}
      [] r.cmd = "unsubscribe_events" -> {haSubs} \cup {haSubs \ {s} : s \in haSubs}
      [] OTHER -> {haSubs}

\* Any outstanding request is answered next; a reused id may well be an error there.
HaAnswers(no) ==
    /\ upstream
    /\ \E r \in atHA :
         /\ r.no = no
         /\ atHA' = atHA \ {r}
         /\ \/ /\ \E f \in HaResults(r) : Arrives(f)
               /\ haSubs' \in HaServes(r)
            \/ /\ Arrives(Sends(r, "result", FALSE, "usual", {}))
               /\ UNCHANGED haSubs

HaEmits ==
    /\ upstream
    /\ Len(fromHA) < MaxQueue
    /\ \E s \in haSubs : \E f \in HaStream(s) : Arrives(f)
    /\ UNCHANGED <<atHA, haSubs>>

\* The background refresh installs a snapshot, or the last one gets too old.
RegistryChanges ==
    /\ \E s \in Snapshots : reg' \in {s, [reg EXCEPT !.fresh = FALSE]}
    /\ reg' # reg
    /\ Quiet
    /\ UNCHANGED <<session, tripped, asked, tables, ha>>

\* The operator or the canary trips the gateway; the operator resets it.
TripChanges ==
    /\ tripped' = ~tripped
    /\ Quiet
    /\ UNCHANGED <<session, reg, asked, tables, ha>>

Init ==
    /\ ev \in Policies
    /\ reg \in Snapshots
    /\ tripped = FALSE
    /\ client = TRUE /\ upstream = TRUE
    /\ c2h = "running" /\ h2c = "running"
    /\ live = TRUE
    /\ nextNo = 1
    /\ pending = [i \in Ids |-> None]
    /\ subs = [i \in Ids |-> None]
    /\ atHA = {} /\ haSubs = {} /\ fromHA = <<>>
    /\ sent = {} /\ answered = {} /\ crossed = {}

_route_client_msg(id) ==
    \/ RouteTripped(id) \/ RoutePlain(id) \/ RouteFiltered(id)
    \/ RouteLocal(id) \/ RouteUnknown(id)
    \/ _handle_subscribe_entities(id) \/ _handle_subscribe_events(id)
    \/ _handle_call_service(id) \/ _handle_token_management(id) \/ _handle_lovelace_config(id)

Route == \E id \in Ids : _route_client_msg(id)

PumpsEnd == PumpClientEnds \/ PumpHaEnds \/ Unregister

HomeAssistant == HaEmits \/ \E no \in Numbers : HaAnswers(no)

Next ==
    \/ Route \/ Deliver \/ PumpsEnd \/ ClientCloses \/ UpstreamCloses
    \/ HomeAssistant \/ RegistryChanges \/ TripChanges

Spec == Init /\ [][Next]_vars

(***************************************************************************)
(* Fairness: the event loop runs a pump that can go on and the handler     *)
(* whose pumps have ended; Home Assistant answers each outstanding request *)
(* while the connection stands.  Neither the client, nor a closing socket, *)
(* nor the registry, nor the trip file is owed a step.                     *)
(***************************************************************************)
Fairness ==
    /\ WF_vars(Deliver)
    /\ WF_vars(PumpClientEnds)
    /\ WF_vars(PumpHaEnds)
    /\ WF_vars(Unregister)
    /\ \A no \in Numbers : WF_vars(HaAnswers(no))

FairSpec == Spec /\ Fairness

-----------------------------------------------------------------------------
\* Properties.

Outstanding == {r.id : r \in atHA}

\* The results on their way from Home Assistant.
InFlight == {fromHA[i].id : i \in {j \in 1..Len(fromHA) : fromHA[j].type = "result"}}

\* Every variable has its type: the pending and subscription tables hold kinds
\* _transform_result and _relay_event know, the sockets and pumps their states.
TypeOK ==
    /\ ev \in Policies
    /\ reg \in Snapshot
    /\ tripped \in BOOLEAN
    /\ client \in BOOLEAN /\ upstream \in BOOLEAN /\ live \in BOOLEAN
    /\ c2h \in {"running", "done"} /\ h2c \in {"running", "done"}
    /\ nextNo \in 1..(MaxCommands + 1)
    /\ pending \in [Ids -> FilterKinds \cup {"passthrough", "token_list_guard", None}]
    /\ subs \in [Ids -> SubKinds \cup {None}]
    /\ atHA \subseteq Request /\ haSubs \subseteq Request
    /\ fromHA \in Seq(Frame)
    /\ sent \subseteq ClientFrame
    /\ answered \subseteq Numbers
    /\ crossed \subseteq Ids

\* The tables are kept by id, so nothing is promised under an id the client has used
\* again while something of it was under way; and a bare value of the system data is
\* relayed as it is.
Vouched(f) == f.id \notin crossed /\ ~f.bare

\* Nothing written to the client is about an entity, area, device or dashboard
\* outside its policy, nor about the home's position, whatever order Home
\* Assistant answers in, whatever the registry did since the command was forwarded
\* and whatever the client does under other ids (_route_ha_msg with
\* _transform_result and _relay_event); bare system data excepted, and ids in use.
NothingHiddenDelivered == \A f \in sent : Vouched(f) => f.items \subseteq Visible(ev, reg)

\* A transform of `kind` leaves nothing of `items` that the policy hides.
Suits(kind, items) ==
    \/ items \subseteq dashboards(ev)
    \/ kind \in FilterKinds \ {"redact_config", "filter_entity_display"}
    \/ kind = "redact_config" /\ items \subseteq {HomeLocation}
    \/ kind = "filter_entity_display" /\ items \subseteq Entities

Guarded(id, items) == id \notin crossed => Suits(pending[id], items)

\* A request whose answer would show something outside the policy has a
\* transform that suits it waiting in `pending`, until the answer is delivered;
\* only the reuse of its own id while it is under way can take it away.
FilteredWhileOutstanding ==
    /\ \A r \in atHA : Guarded(r.id, HaContent(r))
    /\ \A i \in 1..Len(fromHA) :
          fromHA[i].type = "result" => Guarded(fromHA[i].id, fromHA[i].items)

\* Every frame of a subscription finds its entry in `subs`, and an entry that
\* relays without looking is one whose events are about nothing.
Sorted(id, items) ==
    id \notin crossed => subs[id] # None /\ (subs[id] = "passthrough_event" => items = {})

EventsAreSorted ==
    /\ \A s \in haSubs \cup {r \in atHA : r.cmd \in SubscribeCommands} :
          \A items \in HaEvents(s) : Sorted(s.id, items)
    /\ \A i \in 1..Len(fromHA) :
          fromHA[i].type = "event" => Sorted(fromHA[i].id, fromHA[i].items)

\* At most one result is owed or on its way for a command, and only for one that was
\* sent; no two are under an id that is not crossed.
OneResultEach ==
    /\ \A r \in atHA \cup haSubs : r.no < nextNo
    /\ \A i \in 1..Len(fromHA) : fromHA[i].no < nextNo
    /\ \A r, s \in atHA : r.no = s.no \/ (r.id = s.id /\ r.id \notin crossed) => r = s
    /\ \A i \in 1..Len(fromHA) : \A r \in atHA :
          fromHA[i].type = "result" =>
            fromHA[i].no # r.no /\ (fromHA[i].id # r.id \/ r.id \in crossed)
    /\ \A i, j \in 1..Len(fromHA) :
          /\ fromHA[i].type = "result" /\ fromHA[j].type = "result"
          /\ \/ fromHA[i].no = fromHA[j].no
             \/ fromHA[i].id = fromHA[j].id /\ fromHA[i].id \notin crossed
          => i = j

ErrorsSayNothing == \A i \in 1..Len(fromHA) : ~fromHA[i].ok => fromHA[i].items = {}

\* The tables of the gateway and the traffic under way agree: the inductive
\* invariant behind NothingHiddenDelivered.
SessionInv ==
    /\ TypeOK
    /\ OneResultEach
    /\ ErrorsSayNothing
    /\ FilteredWhileOutstanding
    /\ EventsAreSorted

\* No entry of `pending` outlives its answer: each one waits for a result that
\* Home Assistant still owes, or that is on its way; the table cannot leak.
PendingAwaitsResult ==
    \A id \in Ids : pending[id] # None => id \in Outstanding \cup InFlight \/ ~upstream

\* What may be forwarded under the user's own token: a non-empty list of
\* readable entities, calls all of whose targets the user controls, the user's
\* dashboards, token management where it was granted.
InScope(r) ==
    /\ r.cmd = "subscribe_entities" =>
          r.about # {} /\ \A e \in r.about : e \in Entities /\ allowed_read(ev, reg, e)
    /\ r.cmd = "call_service" =>
          /\ CallTargets(reg, r.about) # {}
          /\ \A e \in CallTargets(reg, r.about) : allowed_control(ev, reg, e)
    /\ r.cmd = "lovelace/config" => r.about \subseteq dashboards(ev)
    /\ r.cmd \in TokenCommands => ev.token_creation

\* Whatever reaches Home Assistant was in scope of the policy when it was
\* forwarded, and nothing is forwarded while the gateway is tripped.
ForwardedInScope == [][\A r \in atHA' \ atHA : InScope(r) /\ ~tripped]_vars

\* A command is answered, by Home Assistant or by the gateway, unless the
\* session ends: no branch of the router swallows one.
EveryCommandAnswered == \A no \in Numbers : no < nextNo ~> no \in answered \/ ~live

\* When one side is gone, both pumps end, both sockets are closed and the
\* session leaves gw.live_ws: no half-open session survives.
SessionTearsDown == (~client \/ ~upstream) ~> (~live /\ ~client /\ ~upstream)

\* Where each command stands, for the contract of SessionContract.
Status(no) == IF no >= nextNo THEN "unsent" ELSE IF no \in answered THEN "answered" ELSE "open"

Contract == INSTANCE SessionContract WITH
    Commands <- Numbers,
    Items <- Item,
    scope <- Visible(ev, reg),
    status <- [no \in Numbers |-> Status(no)],
    told <- UNION {f.items : f \in {g \in sent : Vouched(g)}},
    results <- {f.no : f \in {g \in sent : g.type = "result"}},
    over <- ~live

\* The session keeps its contract: every step tells the user only what the
\* policy allows at that moment (under an id the client has not crossed), gives each
\* command at most one result, whatever its id, and none to a command that was never
\* sent or after the session was left.
KeepsContract == Contract!Spec

\* Nothing outside the policy is delivered, whatever ids the client uses: the frames
\* from Home Assistant are filtered by what the client was allowed to subscribe to.
NothingHiddenEver == \A f \in sent : ~f.bare => f.items \subseteq Visible(ev, reg)

\* While the gateway is tripped the client is told nothing any more.
TrippedTellsNothing == tripped => \A f \in sent : f.items = {}
=============================================================================
