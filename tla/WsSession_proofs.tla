-------------------------- MODULE WsSession_proofs --------------------------
(***************************************************************************)
(* Proofs about WsSession, for every house, policy, snapshot and bound.    *)
(***************************************************************************)
EXTENDS WsSession, PolicyRules_proofs, TLAPS

LEMMA ResultKindType ==
    ASSUME NEW cmd
    PROVE  ResultKind(cmd) \in FilterKinds \cup {"passthrough", "token_list_guard", None}
BY DEF ResultKind, FilterKinds

LEMMA SubKindType ==
    ASSUME NEW cmd
    PROVE  SubKind(cmd) \in SubKinds
BY DEF SubKind, SubKinds

LEMMA ContentType ==
    ASSUME NEW r \in Request
    PROVE  HaContent(r) \subseteq Item
BY DEF HaContent, Item, Request

LEMMA EventsType ==
    ASSUME NEW r \in Request, NEW items \in HaEvents(r)
    PROVE  items \subseteq Item
<1>1. CASE r.cmd = "subscribe_entities"
  BY <1>1 DEF HaEvents, Request
<1>2. CASE r.cmd = "state_changed"
  BY <1>2 DEF HaEvents, Item
<1>3. CASE r.cmd = "system_data_core"
  BY <1>3 DEF HaEvents, Item
<1>4. CASE r.cmd \notin {"subscribe_entities", "state_changed", "system_data_core"}
  BY <1>4 DEF HaEvents
<1>5. QED BY <1>1, <1>2, <1>3, <1>4

LEMMA TailType ==
    ASSUME NEW S, NEW s \in Seq(S), s # <<>>
    PROVE  /\ Head(s) \in S
           /\ Head(s) = s[1] /\ 1 \in 1..Len(s)
           /\ Tail(s) \in Seq(S)
           /\ Len(Tail(s)) = Len(s) - 1
           /\ \A i \in 1..Len(Tail(s)) : Tail(s)[i] = s[i + 1] /\ i + 1 \in 1..Len(s)
OBVIOUS

LEMMA AppendType ==
    ASSUME NEW S, NEW s \in Seq(S), NEW x \in S
    PROVE  /\ Append(s, x) \in Seq(S)
           /\ Len(Append(s, x)) = Len(s) + 1
           /\ \A i \in 1..(Len(s) + 1) :
                Append(s, x)[i] = IF i = Len(s) + 1 THEN x ELSE s[i]
OBVIOUS

LEMMA DashboardsType ==
    ASSUME TypeOK
    PROVE  dashboards(ev) \subseteq Dashboards
BY PoliciesAssumption DEF TypeOK, UserPolicy, dashboards

LEMMA ReplyType ==
    ASSUME TypeOK, NEW frames, frames \subseteq ClientFrame, Reply(frames)
    PROVE  sent' \subseteq ClientFrame /\ answered' \subseteq Numbers
BY DEF TypeOK, Reply, ClientFrame

LEMMA QuietType ==
    ASSUME TypeOK, Quiet
    PROVE  sent' \subseteq ClientFrame /\ answered' \subseteq Numbers
BY DEF TypeOK, Quiet

LEMMA ForwardType ==
    ASSUME TypeOK, NEW r \in Request, _forward(r)
    PROVE  /\ c2h' \in {"running", "done"}
           /\ atHA' \subseteq Request /\ haSubs' \subseteq Request
           /\ fromHA' \in Seq(Frame)
           /\ sent' \subseteq ClientFrame /\ answered' \subseteq Numbers
<1>1. sent' \subseteq ClientFrame /\ answered' \subseteq Numbers
  BY QuietType DEF _forward
<1>2. QED BY <1>1 DEF TypeOK, _forward, ha

LEMMA AnswersType ==
    ASSUME TypeOK, NEW frames, frames \subseteq ClientFrame, Reply(frames),
           UNCHANGED <<c2h, ha>>
    PROVE  /\ c2h' \in {"running", "done"}
           /\ atHA' \subseteq Request /\ haSubs' \subseteq Request
           /\ fromHA' \in Seq(Frame)
           /\ sent' \subseteq ClientFrame /\ answered' \subseteq Numbers
BY ReplyType DEF TypeOK, ha

LEMMA ReceivesType ==
    ASSUME TypeOK, NEW cmd, NEW id \in Ids, Receives(cmd, id)
    PROVE  /\ nextNo \in Numbers
           /\ ev' \in Policies /\ reg' \in Snapshot /\ tripped' \in BOOLEAN
           /\ client' \in BOOLEAN /\ upstream' \in BOOLEAN /\ live' \in BOOLEAN
           /\ h2c' \in {"running", "done"}
           /\ nextNo' \in 1..(MaxCommands + 1)
           /\ crossed' \subseteq Ids
<1>1. nextNo \in Numbers /\ nextNo' \in 1..(MaxCommands + 1)
  BY BoundAssumption DEF Receives, Numbers
<1>2. crossed' \subseteq Ids
  BY DEF TypeOK, Receives
<1>3. QED BY <1>1, <1>2 DEF TypeOK, Receives, world

LEMMA LocalFrames ==
    ASSUME nextNo \in Numbers, NEW id \in Ids
    PROVE  Error(id) \in ClientFrame /\ Result(id) \in ClientFrame /\ Event(id) \in ClientFrame
BY DEF Error, Result, Event, Own, ClientFrame

\* What the client gets of a frame is about no more than the frame was, or
\* about the user's own default dashboard.
LEMMA RouteHaMsgType ==
    ASSUME TypeOK, NEW f \in Frame
    PROVE  _route_ha_msg(f) \subseteq ClientFrame
<1>1. f.id \in Ids /\ f.items \subseteq Item
  BY DEF Frame
<1>2. \A items : items \subseteq Item => Relay(f, items) \in ClientFrame
  <2> SUFFICES ASSUME NEW items \in SUBSET Item PROVE Relay(f, items) \in ClientFrame
    OBVIOUS
  <2>1. /\ f.no \in Numbers /\ f.id \in Ids /\ f.type \in {"result", "event"}
        /\ f.ok \in BOOLEAN /\ (f.shape = "bare") \in BOOLEAN
    BY DEF Frame
  <2>2. QED BY <2>1 DEF ClientFrame, Relay
<1>3. ASSUME f.type = "result", pending[f.id] # None
      PROVE  _transform_result(pending[f.id], f) \subseteq Item
  <2>1. pending[f.id] \in FilterKinds \cup {"passthrough", "token_list_guard"}
    BY <1>1, <1>3 DEF TypeOK
  <2>2. QED BY <1>1, <2>1 DEF _transform_result, FilterKinds, filter_states
<1>4. ASSUME subs[f.id] # None
      PROVE  _relay_event(subs[f.id], f) \subseteq ClientFrame
  <2>1. subs[f.id] \in SubKinds
    BY <1>1, <1>4 DEF TypeOK
  <2>2. {DefaultPanel(ev)} \subseteq Item
    BY PoliciesAssumption, DashboardAssumption DEF TypeOK, UserPolicy, Item, DefaultPanel
  <2>3. filter_states(ev, reg, f.items) \subseteq Item
    BY <1>1 DEF filter_states
  <2>4. QED BY <1>1, <1>2, <2>1, <2>2, <2>3 DEF _relay_event, SubKinds
<1>5. QED BY <1>1, <1>2, <1>3, <1>4 DEF _route_ha_msg

-----------------------------------------------------------------------------
\* Type correctness.

LEMMA RequestType ==
    ASSUME nextNo \in Numbers, NEW id \in Ids, NEW cmd \in AllCommands, NEW about \in SUBSET Item
    PROVE  Asked(id, cmd, about) \in Request
BY DEF Request, Asked

\* A branch of the router preserves the types if what it writes to the tables
\* and what it sends has its type.
LEMMA RouteStepType ==
    ASSUME TypeOK, NEW cmd, NEW id \in Ids, Receives(cmd, id),
           pending' \in [Ids -> FilterKinds \cup {"passthrough", "token_list_guard", None}],
           subs' \in [Ids -> SubKinds \cup {None}],
           \/ \E r \in Request : _forward(r)
           \/ \E frames \in SUBSET ClientFrame : Reply(frames) /\ UNCHANGED <<c2h, ha>>
    PROVE  TypeOK'
<1>1. /\ c2h' \in {"running", "done"}
      /\ atHA' \subseteq Request /\ haSubs' \subseteq Request
      /\ fromHA' \in Seq(Frame)
      /\ sent' \subseteq ClientFrame /\ answered' \subseteq Numbers
  BY ForwardType, AnswersType
<1>2. QED BY <1>1, ReceivesType DEF TypeOK

LEMMA RouteType ==
    ASSUME TypeOK, NEW id \in Ids, _route_client_msg(id)
    PROVE  TypeOK'
<1> DEFINE Kinds == FilterKinds \cup {"passthrough", "token_list_guard", None}
<1>1. /\ pending \in [Ids -> Kinds]
      /\ subs \in [Ids -> SubKinds \cup {None}]
  BY DEF TypeOK
<1>2. ASSUME NEW cmd, Receives(cmd, id), NEW frames \in SUBSET ClientFrame, Reply(frames),
             UNCHANGED <<c2h, tables, ha>>
      PROVE  TypeOK'
  BY <1>1, <1>2, RouteStepType DEF tables
<1>3. ASSUME NEW cmd, Receives(cmd, id)
      PROVE  nextNo \in Numbers /\ {Error(id)} \in SUBSET ClientFrame
  BY <1>3, LocalFrames DEF Receives
<1>4. CASE RouteTripped(id)
  BY <1>2, <1>3, <1>4 DEF RouteTripped, Denies, _deny
<1>5. CASE RoutePlain(id)
  <2>1. PICK cmd \in {"plain", "unsubscribe_events"} :
          /\ Receives(cmd, id) /\ UNCHANGED tables
          /\ _forward(Asked(id, cmd, {}))
    BY <1>5 DEF RoutePlain, Routes
  <2>2. Asked(id, cmd, {}) \in Request
    BY <1>3, <2>1, RequestType DEF AllCommands
  <2>3. QED BY <1>1, <2>1, <2>2, RouteStepType DEF tables
<1>6. CASE RouteFiltered(id)
  <2>1. PICK cmd \in FilteredCommands :
          /\ Receives(cmd, id) /\ UNCHANGED subs
          /\ pending' = [pending EXCEPT ![id] = ResultKind(cmd)]
          /\ _forward(Asked(id, cmd, {}))
    BY <1>6 DEF RouteFiltered, Routes
  <2>2. Asked(id, cmd, {}) \in Request
    BY <1>3, <2>1, RequestType DEF AllCommands
  <2>3. pending' \in [Ids -> Kinds]
    BY <1>1, <2>1, ResultKindType
  <2>4. QED BY <1>1, <2>1, <2>2, <2>3, RouteStepType
<1>7. CASE RouteLocal(id)
  BY <1>2, <1>3, <1>7, LocalFrames DEF RouteLocal, Routes, Answers
<1>8. CASE RouteUnknown(id)
  BY <1>2, <1>3, <1>8 DEF RouteUnknown, Routes, Denies, _deny
<1>9. CASE _handle_subscribe_entities(id)
  <2>1. /\ Receives("subscribe_entities", id) /\ UNCHANGED pending
        /\ subs' = [subs EXCEPT ![id] = "entities"]
    BY <1>9 DEF _handle_subscribe_entities, Routes
  <2>2. PICK requested \in Requested \cup {Entities} :
          LET target == enumerable_read_entities(ev, reg) \cap requested IN
          IF target = {}
          THEN Reply(EmptySubscription(id)) /\ UNCHANGED <<c2h, ha>>
          ELSE SubscribeTo(id, target)
    BY <1>9 DEF _handle_subscribe_entities
  <2> DEFINE target == enumerable_read_entities(ev, reg) \cap requested
  <2>3. target \in SUBSET Item
    BY RequestedAssumption DEF Item
  <2>4. Asked(id, "subscribe_entities", target) \in Request
    BY <1>3, <2>1, <2>3, RequestType DEF AllCommands, SubscribeCommands
  <2>5. EmptySubscription(id) \in SUBSET ClientFrame
    BY <1>3, <2>1, LocalFrames DEF EmptySubscription
  <2>6. subs' \in [Ids -> SubKinds \cup {None}]
    BY <1>1, <2>1 DEF SubKinds
  <2>7. QED BY <1>1, <2>1, <2>2, <2>4, <2>5, <2>6, RouteStepType DEF SubscribeTo
<1>10. CASE _handle_subscribe_events(id)
  <2>1. PICK cmd \in SubscribeCommands \ {"subscribe_entities"} :
          /\ Receives(cmd, id) /\ UNCHANGED pending
          /\ subs' = [subs EXCEPT ![id] = SubKind(cmd)]
          /\ _forward(Asked(id, cmd, {}))
    BY <1>10 DEF _handle_subscribe_events, Routes
  <2>2. Asked(id, cmd, {}) \in Request
    BY <1>3, <2>1, RequestType DEF AllCommands
  <2>3. subs' \in [Ids -> SubKinds \cup {None}]
    BY <1>1, <2>1, SubKindType
  <2>4. QED BY <1>1, <2>1, <2>2, <2>3, RouteStepType
<1>11. CASE _handle_call_service(id)
  <2>1. PICK call \in Calls :
          IF service_call_allowed(ev, reg, call)
          THEN /\ pending' = [pending EXCEPT ![id] = ResultKind("call_service")]
               /\ _forward(Asked(id, "call_service", call.about))
               /\ UNCHANGED subs
          ELSE Denies(id)
    BY <1>11 DEF _handle_call_service
  <2>2. Receives("call_service", id)
    BY <1>11 DEF _handle_call_service, Routes
  <2>3. Asked(id, "call_service", call.about) \in Request
    <3>1. call.about \in SUBSET Item
      BY CallsAssumption DEF Call, Item
    <3>2. QED BY <1>3, <2>2, <3>1, RequestType DEF AllCommands
  <2>4. CASE ~service_call_allowed(ev, reg, call)
    BY <1>2, <1>3, <2>1, <2>2, <2>4 DEF Denies, _deny
  <2>5. CASE service_call_allowed(ev, reg, call)
    <3>1. pending' \in [Ids -> Kinds]
      BY <1>1, <2>1, <2>5, ResultKindType
    <3>2. QED BY <1>1, <2>1, <2>2, <2>3, <2>5, <3>1, RouteStepType
  <2>6. QED BY <2>4, <2>5
<1>12. CASE _handle_token_management(id)
  <2>1. PICK cmd \in TokenCommands :
          /\ Receives(cmd, id)
          /\ IF ev.token_creation
             THEN /\ pending' = [pending EXCEPT ![id] = ResultKind(cmd)]
                  /\ _forward(Asked(id, cmd, {}))
                  /\ UNCHANGED subs
             ELSE Denies(id)
    BY <1>12 DEF _handle_token_management, Routes
  <2>2. Asked(id, cmd, {}) \in Request
    BY <1>3, <2>1, RequestType DEF AllCommands
  <2>3. CASE ~ev.token_creation
    BY <1>2, <1>3, <2>1, <2>3 DEF Denies, _deny
  <2>4. CASE ev.token_creation
    <3>1. pending' \in [Ids -> Kinds]
      BY <1>1, <2>1, <2>4, ResultKindType
    <3>2. QED BY <1>1, <2>1, <2>2, <2>4, <3>1, RouteStepType
  <2>5. QED BY <2>3, <2>4
<1>13. CASE _handle_lovelace_config(id)
  <2>1. Receives("lovelace/config", id)
    BY <1>13 DEF _handle_lovelace_config, Routes
  <2>2. PICK path \in Dashboards \cup {NoDashboard} :
          LET target == LovelaceTarget(ev, path) IN
          IF target \in dashboards(ev)
          THEN /\ pending' = [pending EXCEPT ![id] = ResultKind("lovelace/config")]
               /\ _forward(Asked(id, "lovelace/config", {target}))
               /\ UNCHANGED subs
          ELSE Denies(id)
    BY <1>13 DEF _handle_lovelace_config
  <2> DEFINE target == LovelaceTarget(ev, path)
  <2>3. CASE target \notin dashboards(ev)
    BY <1>2, <1>3, <2>1, <2>2, <2>3 DEF Denies, _deny
  <2>4. CASE target \in dashboards(ev)
    <3>1. {target} \in SUBSET Item
      BY <2>4, DashboardsType DEF Item
    <3>2. Asked(id, "lovelace/config", {target}) \in Request
      BY <1>3, <2>1, <3>1, RequestType DEF AllCommands
    <3>3. pending' \in [Ids -> Kinds]
      BY <1>1, <2>2, <2>4, ResultKindType
    <3>4. QED BY <1>1, <2>1, <2>2, <2>4, <3>2, <3>3, RouteStepType
  <2>5. QED BY <2>3, <2>4
<1>14. QED
  BY <1>4, <1>5, <1>6, <1>7, <1>8, <1>9, <1>10, <1>11, <1>12, <1>13 DEF _route_client_msg

LEMMA DeliverType ==
    ASSUME TypeOK, Deliver
    PROVE  TypeOK'
<1> DEFINE f == Head(fromHA)
<1>1. f \in Frame /\ fromHA' \in Seq(Frame)
  BY TailType DEF TypeOK, Deliver
<1>2. sent' \subseteq ClientFrame /\ answered' \subseteq Numbers
  BY <1>1, RouteHaMsgType, ReplyType DEF Deliver
<1>3. pending' \in [Ids -> FilterKinds \cup {"passthrough", "token_list_guard", None}]
  BY <1>1 DEF TypeOK, Deliver, Pop, Frame
<1>4. QED BY <1>1, <1>2, <1>3 DEF TypeOK, Deliver, session, world, asked

LEMMA HaFrames ==
    ASSUME NEW r \in Request
    PROVE  /\ HaResults(r) \subseteq Frame /\ HaStream(r) \subseteq Frame
           /\ Sends(r, "result", FALSE, "usual", {}) \in Frame
           /\ \A f \in HaResults(r) : /\ f.no = r.no /\ f.id = r.id /\ f.type = "result"
                                      /\ f.ok /\ f.items = HaContent(r)
           /\ \A f \in HaStream(r) :
                /\ f.no = r.no /\ f.id = r.id /\ f.type = "event" /\ f.ok
                /\ f.items \in HaEvents(r) \/ f.items = UNION HaEvents(r)
                /\ HaEvents(r) # {}
<1>2. HaContent(r) \in SUBSET Item
  BY ContentType
<1>3. HaEvents(r) \subseteq SUBSET Item /\ UNION HaEvents(r) \in SUBSET Item
  BY EventsType
<1>4. Shapes = {"usual", "odd", "bare"}
  BY DEF Shapes
<1>5. \A f \in HaResults(r) : \E shape \in Shapes :
        f = Sends(r, "result", TRUE, shape, HaContent(r))
  BY <1>4 DEF HaResults
<1>6. \A f \in HaStream(r) : \E shape \in Shapes : \E items \in HaEvents(r) \cup {UNION HaEvents(r)} :
        f = Sends(r, "event", TRUE, shape, items) /\ HaEvents(r) # {}
  BY <1>4 DEF HaStream
<1>7. ASSUME NEW f \in HaResults(r)
      PROVE  /\ f \in Frame /\ f.no = r.no /\ f.id = r.id /\ f.type = "result"
             /\ f.ok /\ f.items = HaContent(r)
  <2>1. PICK shape \in Shapes : f = Sends(r, "result", TRUE, shape, HaContent(r))
    BY <1>5, <1>7
  <2>2. /\ f \in Frame /\ f.no = r.no /\ f.id = r.id /\ f.type = "result"
        /\ f.items = HaContent(r)
    BY <1>2, <2>1 DEF Sends, Frame, Request
  <2>3. f.ok
    BY <2>1 DEF Sends
  <2>4. QED BY <2>2, <2>3
<1>8. ASSUME NEW f \in HaStream(r)
      PROVE  /\ f \in Frame /\ f.no = r.no /\ f.id = r.id /\ f.type = "event" /\ f.ok
             /\ f.items \in HaEvents(r) \/ f.items = UNION HaEvents(r)
             /\ HaEvents(r) # {}
  <2>1. PICK shape \in Shapes, items \in HaEvents(r) \cup {UNION HaEvents(r)} :
          f = Sends(r, "event", TRUE, shape, items) /\ HaEvents(r) # {}
    BY <1>6, <1>8
  <2>2. items \in SUBSET Item
    BY <1>3
  <2>3. /\ f \in Frame /\ f.no = r.no /\ f.id = r.id /\ f.type = "event"
        /\ f.items = items
    BY <2>1, <2>2 DEF Sends, Frame, Request
  <2>4. f.ok
    BY <2>1 DEF Sends
  <2>5. QED BY <2>1, <2>3, <2>4
<1>9. Sends(r, "result", FALSE, "usual", {}) \in Frame
  BY DEF Sends, Frame, Request, Shapes
<1>10. QED BY <1>7, <1>8, <1>9

LEMMA ArrivesType ==
    ASSUME TypeOK, NEW frame \in Frame, Arrives(frame),
           atHA' \subseteq Request, haSubs' \subseteq Request
    PROVE  TypeOK'
<1>1. fromHA' \in Seq(Frame)
  BY AppendType DEF Arrives, TypeOK
<1>2. sent' \subseteq ClientFrame /\ answered' \subseteq Numbers
  BY QuietType DEF Arrives
<1>3. QED BY <1>1, <1>2 DEF TypeOK, Arrives, session, world, tables, asked

\* Home Assistant answers one request.
LEMMA AnswerOf ==
    ASSUME NEW no, HaAnswers(no)
    PROVE  \E r \in atHA : \E f :
             /\ r.no = no /\ atHA' = atHA \ {r} /\ Arrives(f)
             /\ haSubs' \in HaServes(r) \cup {haSubs}
             /\ f \in HaResults(r) \/ f = Sends(r, "result", FALSE, "usual", {})
BY DEF HaAnswers

LEMMA HaAnswersType ==
    ASSUME TypeOK, NEW no \in Numbers, HaAnswers(no)
    PROVE  TypeOK'
<1>1. PICK r \in atHA : \E f :
             /\ r.no = no /\ atHA' = atHA \ {r} /\ Arrives(f)
             /\ haSubs' \in HaServes(r) \cup {haSubs}
             /\ f \in HaResults(r) \/ f = Sends(r, "result", FALSE, "usual", {})
  BY AnswerOf
<1>2. r \in Request /\ haSubs \subseteq Request
  BY DEF TypeOK
<1>3. PICK f \in Frame : Arrives(f)
  BY <1>1, <1>2, HaFrames
<1>4. haSubs' \subseteq Request
  BY <1>1, <1>2 DEF HaServes
<1>5. atHA' \subseteq Request
  BY <1>1 DEF TypeOK
<1>6. QED BY <1>3, <1>4, <1>5, ArrivesType

LEMMA HaEmitsType ==
    ASSUME TypeOK, HaEmits
    PROVE  TypeOK'
<1>1. PICK s \in haSubs : \E f \in HaStream(s) : Arrives(f)
  BY DEF HaEmits
<1>2. PICK f \in Frame : Arrives(f)
  BY <1>1, HaFrames DEF TypeOK
<1>3. atHA' \subseteq Request /\ haSubs' \subseteq Request
  BY DEF HaEmits, TypeOK
<1>4. QED BY <1>2, <1>3, ArrivesType

LEMMA RestType ==
    ASSUME TypeOK,
           PumpsEnd \/ ClientCloses \/ UpstreamCloses \/ RegistryChanges \/ TripChanges
    PROVE  TypeOK'
<1>1. sent' \subseteq ClientFrame /\ answered' \subseteq Numbers
  BY QuietType DEF PumpsEnd, PumpClientEnds, PumpHaEnds, Unregister, ClientCloses,
     UpstreamCloses, RegistryChanges, TripChanges, Closing
<1>2. CASE PumpsEnd \/ ClientCloses \/ UpstreamCloses
  BY <1>1, <1>2 DEF PumpsEnd, PumpClientEnds, PumpHaEnds, Unregister, ClientCloses,
     UpstreamCloses, Closing, world, tables, ha, asked, TypeOK
<1>3. CASE RegistryChanges
  <2>1. reg' \in Snapshot
    BY <1>3, SnapshotsAssumption DEF RegistryChanges, TypeOK, Snapshot
  <2>2. QED BY <1>1, <1>3, <2>1 DEF RegistryChanges, session, tables, ha, asked, TypeOK
<1>4. CASE TripChanges
  BY <1>1, <1>4 DEF TripChanges, session, tables, ha, asked, TypeOK
<1>5. QED BY <1>2, <1>3, <1>4

LEMMA InitType == Init => TypeOK
<1> SUFFICES ASSUME Init PROVE TypeOK
  OBVIOUS
<1>1. ev \in Policies /\ reg \in Snapshot
  BY SnapshotsAssumption DEF Init
<1>2. nextNo \in 1..(MaxCommands + 1)
  BY BoundAssumption DEF Init
<1>3. /\ pending \in [Ids -> FilterKinds \cup {"passthrough", "token_list_guard", None}]
      /\ subs \in [Ids -> SubKinds \cup {None}]
  BY DEF Init
<1>4. fromHA \in Seq(Frame)
  BY DEF Init
<1>5. QED BY <1>1, <1>2, <1>3, <1>4 DEF Init, TypeOK

\* Every reachable state of a session is well typed.
THEOREM TypeCorrect == Spec => []TypeOK
<1>1. Init => TypeOK
  BY InitType
<1>2. TypeOK /\ [Next]_vars => TypeOK'
  <2>1. CASE Next
    BY <2>1, RouteType, DeliverType, HaAnswersType, HaEmitsType, RestType
       DEF Next, Route, HomeAssistant
  <2>2. CASE UNCHANGED vars
    BY <2>2 DEF vars, TypeOK
  <2>3. QED BY <2>1, <2>2
<1>3. QED BY <1>1, <1>2, PTL DEF Spec

-----------------------------------------------------------------------------
\* Nothing hidden is delivered: SessionInv is inductive.

\* Frames that say nothing are no disclosure.
Silent(frames) == \A f \in frames : f.items = {}

\* What a branch of the router may add to the requests at Home Assistant: the
\* current command, its answer guarded and its events sorted.
Covered(r, id) ==
    /\ r.no = nextNo /\ r.id = id
    /\ Suits(pending'[id], HaContent(r))
    /\ r.cmd \in SubscribeCommands =>
         \A items \in HaEvents(r) :
            subs'[id] # None /\ (subs'[id] = "passthrough_event" => items = {})

LEMMA NumbersUsed ==
    ASSUME SessionInv
    PROVE  /\ nextNo \in Nat
           /\ \A r \in atHA \cup haSubs : r.id \in Ids /\ r.no < nextNo /\ r.no \in Nat
           /\ \A i \in 1..Len(fromHA) : /\ fromHA[i].id \in Ids /\ fromHA[i].no < nextNo
                                        /\ fromHA[i].no \in Nat
<1>1. \A no \in Numbers : no \in Nat
  BY DEF Numbers
<1>2. \A r \in atHA \cup haSubs : r.id \in Ids /\ r.no \in Numbers
  BY DEF SessionInv, TypeOK, Request
<1>3. \A i \in 1..Len(fromHA) : fromHA[i].id \in Ids /\ fromHA[i].no \in Numbers
  <2>1. \A i \in 1..Len(fromHA) : fromHA[i] \in Frame
    BY DEF SessionInv, TypeOK
  <2>2. QED BY <2>1 DEF Frame
<1>4. nextNo \in Nat
  BY BoundAssumption DEF SessionInv, TypeOK
<1>5. QED BY <1>1, <1>2, <1>3, <1>4 DEF SessionInv, OneResultEach

\* What is under way under an id that is not crossed is not of the command just received.
LEMMA Uncrossed ==
    ASSUME NEW cmd, NEW id, Receives(cmd, id)
    PROVE  /\ crossed \subseteq crossed'
           /\ \A r \in atHA \cup haSubs : r.id \notin crossed' => r.id # id
           /\ \A i \in 1..Len(fromHA) : fromHA[i].id \notin crossed' => fromHA[i].id # id
BY DEF Receives, UnderWay

LEMMA RouteStep ==
    ASSUME SessionInv, TypeOK', NEW cmd, NEW id \in Ids, Receives(cmd, id),
           \A i \in Ids : i # id => pending'[i] = pending[i] /\ subs'[i] = subs[i],
           UNCHANGED <<haSubs, fromHA>>,
           Silent(sent'),
           atHA' = atHA \/ \E r : Covered(r, id) /\ atHA' = atHA \cup {r}
    PROVE  SessionInv' /\ NothingHiddenDelivered'
<1>1. ev' = ev /\ nextNo' = nextNo + 1 /\ nextNo \in Nat
  BY NumbersUsed DEF Receives
<1>2. /\ \A r \in atHA \cup haSubs : r.id \in Ids /\ r.no < nextNo /\ r.no \in Nat
      /\ \A i \in 1..Len(fromHA) : /\ fromHA[i].id \in Ids /\ fromHA[i].no < nextNo
                                   /\ fromHA[i].no \in Nat
  BY NumbersUsed
<1>3. \A r \in atHA' : r \in atHA \/ Covered(r, id)
  BY DEF Covered
<1>c. /\ \A x : x \notin crossed' => x \notin crossed
      /\ \A r \in atHA \cup haSubs : r.id \notin crossed' => r.id # id
      /\ \A i \in 1..Len(fromHA) : fromHA[i].id \notin crossed' => fromHA[i].id # id
  BY Uncrossed
<1>4. OneResultEach'
  <2>1. \A r \in atHA' : r \in atHA \/ (r.no = nextNo /\ r.id = id)
    BY <1>3 DEF Covered
  <2>2. \A r \in atHA' \cup haSubs' : r.no < nextNo'
    BY <1>1, <1>2, <2>1
  <2>3. \A r, s \in atHA' : r.no = s.no \/ (r.id = s.id /\ r.id \notin crossed') => r = s
    <3>1. \A r, s \in atHA : r.no = s.no \/ (r.id = s.id /\ r.id \notin crossed') => r = s
      BY <1>c DEF SessionInv, OneResultEach
    <3>2. CASE atHA' = atHA
      BY <3>1, <3>2
    <3>3. ASSUME NEW new, Covered(new, id), atHA' = atHA \cup {new}
          PROVE  \A r, s \in atHA' : r.no = s.no \/ (r.id = s.id /\ r.id \notin crossed') => r = s
      <4>1. \A r \in atHA : r.no # new.no /\ (r.id \notin crossed' => r.id # new.id)
        BY <1>1, <1>2, <1>c, <3>3 DEF Covered
      <4>2. QED BY <3>1, <3>3, <4>1
    <3>4. QED BY <3>2, <3>3
  <2>4. \A i \in 1..Len(fromHA) : fromHA[i].no < nextNo'
    BY <1>1, <1>2
  <2>5. \A i \in 1..Len(fromHA) : \A r \in atHA' :
          fromHA[i].type = "result" =>
            fromHA[i].no # r.no /\ (fromHA[i].id # r.id \/ r.id \in crossed')
    <3> SUFFICES ASSUME NEW i \in 1..Len(fromHA), NEW r \in atHA', fromHA[i].type = "result"
                 PROVE  fromHA[i].no # r.no /\ (fromHA[i].id # r.id \/ r.id \in crossed')
      OBVIOUS
    <3>1. CASE r \in atHA
      BY <1>c, <3>1 DEF SessionInv, OneResultEach
    <3>2. CASE r.no = nextNo /\ r.id = id
      BY <1>1, <1>2, <1>c, <3>2
    <3>3. QED BY <2>1, <3>1, <3>2
  <2>6. \A i, j \in 1..Len(fromHA) :
          /\ fromHA[i].type = "result" /\ fromHA[j].type = "result"
          /\ \/ fromHA[i].no = fromHA[j].no
             \/ fromHA[i].id = fromHA[j].id /\ fromHA[i].id \notin crossed'
          => i = j
    BY <1>c DEF SessionInv, OneResultEach
  <2>7. QED BY <2>2, <2>3, <2>4, <2>5, <2>6 DEF OneResultEach
<1>5. ErrorsSayNothing'
  BY DEF SessionInv, ErrorsSayNothing
<1>6. FilteredWhileOutstanding'
  <2>1. \A r \in atHA' : Guarded(r.id, HaContent(r))'
    <3> SUFFICES ASSUME NEW r \in atHA', r.id \notin crossed'
                 PROVE  Suits(pending'[r.id], HaContent(r))
      BY <1>1 DEF Guarded, Suits, dashboards
    <3>1. CASE r \in atHA
      BY <1>2, <1>c, <3>1 DEF SessionInv, FilteredWhileOutstanding, Guarded
    <3>2. CASE Covered(r, id)
      BY <3>2 DEF Covered
    <3>3. QED BY <1>3, <3>1, <3>2
  <2>2. \A i \in 1..Len(fromHA) :
          fromHA[i].type = "result" => Guarded(fromHA[i].id, fromHA[i].items)'
    BY <1>1, <1>2, <1>c DEF SessionInv, FilteredWhileOutstanding, Guarded, Suits
  <2>3. QED BY <2>1, <2>2 DEF FilteredWhileOutstanding
<1>7. EventsAreSorted'
  <2>1. ASSUME NEW s \in haSubs' \cup {r \in atHA' : r.cmd \in SubscribeCommands},
               NEW items \in HaEvents(s)
        PROVE  Sorted(s.id, items)'
    <3>1. CASE s \in haSubs \cup {r \in atHA : r.cmd \in SubscribeCommands}
      BY <1>2, <1>c, <3>1 DEF SessionInv, EventsAreSorted, Sorted
    <3>2. CASE Covered(s, id) /\ s.cmd \in SubscribeCommands
      BY <3>2 DEF Covered, Sorted
    <3>3. QED BY <1>3, <3>1, <3>2
  <2>2. \A i \in 1..Len(fromHA) :
          fromHA[i].type = "event" => Sorted(fromHA[i].id, fromHA[i].items)'
    BY <1>2, <1>c DEF SessionInv, EventsAreSorted, Sorted
  <2>3. QED BY <2>1, <2>2 DEF EventsAreSorted
<1>8. NothingHiddenDelivered'
  BY DEF Silent, NothingHiddenDelivered
<1>9. QED BY <1>4, <1>5, <1>6, <1>7, <1>8 DEF SessionInv

\* The command table gives every filtered command a transform that suits it.
LEMMA FilteredSuits ==
    ASSUME NEW id, NEW cmd \in FilteredCommands
    PROVE  Suits(ResultKind(cmd), HaContent(Asked(id, cmd, {})))
<1>0. Asked(id, cmd, {}).cmd = cmd
  BY DEF Asked
<1>1. CASE cmd = "get_config"
  BY <1>0, <1>1 DEF Suits, ResultKind, HaContent
<1>2. CASE cmd = "entity_registry/list_for_display"
  BY <1>0, <1>2 DEF Suits, ResultKind, HaContent
<1>3. CASE cmd \notin {"get_config", "entity_registry/list_for_display"}
  <2>1. ResultKind(cmd) \in FilterKinds \ {"redact_config", "filter_entity_display"}
    BY <1>3 DEF FilteredCommands, ResultKind, FilterKinds
  <2>2. QED BY <2>1 DEF Suits
<1>4. QED BY <1>1, <1>2, <1>3

LEMMA ForwardEffect ==
    ASSUME NEW r, _forward(r)
    PROVE  /\ UNCHANGED <<haSubs, fromHA>>
           /\ Silent(sent')
           /\ atHA' = atHA \/ atHA' = atHA \cup {r}
BY DEF _forward, ha, Quiet, Silent

LEMMA LocalEffect ==
    ASSUME NEW frames, Reply(frames), Silent(frames), UNCHANGED <<c2h, ha>>
    PROVE  /\ UNCHANGED <<haSubs, fromHA>>
           /\ Silent(sent')
           /\ atHA' = atHA
BY DEF Reply, ha, Silent

LEMMA SilentFrames ==
    ASSUME NEW id
    PROVE  /\ Silent({Error(id)}) /\ Silent({Result(id)})
           /\ Silent(EmptySubscription(id))
BY DEF Silent, Error, Result, Event, Own, EmptySubscription

LEMMA RouteKeeps ==
    ASSUME SessionInv, NEW id \in Ids, _route_client_msg(id)
    PROVE  SessionInv' /\ NothingHiddenDelivered'
<1>1. TypeOK /\ TypeOK'
  BY RouteType DEF SessionInv
<1>2. pending \in [Ids -> FilterKinds \cup {"passthrough", "token_list_guard", None}]
      /\ subs \in [Ids -> SubKinds \cup {None}]
  BY <1>1 DEF TypeOK
<1>3. ASSUME NEW cmd, Receives(cmd, id), NEW frames, Reply(frames), Silent(frames),
             UNCHANGED <<c2h, tables, ha>>
      PROVE  SessionInv' /\ NothingHiddenDelivered'
  <2>1. UNCHANGED <<haSubs, fromHA>> /\ Silent(sent') /\ atHA' = atHA
    BY <1>3, LocalEffect
  <2>2. \A i \in Ids : i # id => pending'[i] = pending[i] /\ subs'[i] = subs[i]
    BY <1>3 DEF tables
  <2>3. QED BY <1>1, <1>3, <2>1, <2>2, RouteStep
<1>4. ASSUME NEW cmd, Receives(cmd, id), NEW r, _forward(r), Covered(r, id),
             \A i \in Ids : i # id => pending'[i] = pending[i] /\ subs'[i] = subs[i]
      PROVE  SessionInv' /\ NothingHiddenDelivered'
  <2>1. /\ UNCHANGED <<haSubs, fromHA>> /\ Silent(sent')
        /\ atHA' = atHA \/ atHA' = atHA \cup {r}
    BY <1>4, ForwardEffect
  <2>2. atHA' = atHA \/ \E x : Covered(x, id) /\ atHA' = atHA \cup {x}
    BY <1>4, <2>1
  <2>3. QED BY <1>1, <1>4, <2>1, <2>2, RouteStep
<1>5. ASSUME NEW cmd, Receives(cmd, id), Denies(id)
      PROVE  SessionInv' /\ NothingHiddenDelivered'
  BY <1>3, <1>5, SilentFrames DEF Denies, _deny
<1>6. CASE RouteTripped(id)
  BY <1>5, <1>6 DEF RouteTripped, Answers, Denies, _deny
<1>7. CASE RoutePlain(id)
  <2>1. PICK cmd \in {"plain", "unsubscribe_events"} :
          /\ Receives(cmd, id) /\ UNCHANGED tables
          /\ _forward(Asked(id, cmd, {}))
    BY <1>7 DEF RoutePlain, Routes
  <2>2. Covered(Asked(id, cmd, {}), id)
    BY <2>1 DEF Covered, Asked, Suits, HaContent, SubscribeCommands
  <2>3. QED BY <1>4, <2>1, <2>2 DEF tables
<1>8. CASE RouteFiltered(id)
  <2>1. PICK cmd \in FilteredCommands :
          /\ Receives(cmd, id) /\ UNCHANGED subs
          /\ pending' = [pending EXCEPT ![id] = ResultKind(cmd)]
          /\ _forward(Asked(id, cmd, {}))
    BY <1>8 DEF RouteFiltered, Routes
  <2>2. pending'[id] = ResultKind(cmd)
    BY <1>2, <2>1 DEF Receives
  <2>3. Covered(Asked(id, cmd, {}), id)
    BY <2>2, FilteredSuits DEF Covered, Asked, SubscribeCommands, FilteredCommands
  <2>4. QED BY <1>2, <1>4, <2>1, <2>3
<1>9. CASE RouteLocal(id)
  BY <1>3, <1>9, SilentFrames DEF RouteLocal, Routes, Answers
<1>10. CASE RouteUnknown(id)
  BY <1>5, <1>10 DEF RouteUnknown, Routes
<1>11. CASE _handle_subscribe_entities(id)
  <2>1. /\ Receives("subscribe_entities", id) /\ UNCHANGED pending
        /\ subs' = [subs EXCEPT ![id] = "entities"]
    BY <1>11 DEF _handle_subscribe_entities, Routes
  <2>2. /\ \A i \in Ids : i # id => pending'[i] = pending[i] /\ subs'[i] = subs[i]
        /\ subs'[id] = "entities"
    BY <1>2, <2>1 DEF Receives
  <2>3. PICK target :
          \/ Reply(EmptySubscription(id)) /\ UNCHANGED <<c2h, ha>>
          \/ _forward(Asked(id, "subscribe_entities", target))
    BY <1>11 DEF _handle_subscribe_entities, SubscribeTo
  <2>4. CASE Reply(EmptySubscription(id)) /\ UNCHANGED <<c2h, ha>>
    <3>1. UNCHANGED <<haSubs, fromHA>> /\ Silent(sent') /\ atHA' = atHA
      BY <2>4, LocalEffect, SilentFrames
    <3>2. QED BY <1>1, <2>1, <2>2, <3>1, RouteStep
  <2>5. CASE _forward(Asked(id, "subscribe_entities", target))
    <3>1. Covered(Asked(id, "subscribe_entities", target), id)
      BY <2>2 DEF Covered, Asked, Suits, HaContent, None
    <3>2. QED BY <1>4, <2>1, <2>2, <2>5, <3>1
  <2>6. QED BY <2>3, <2>4, <2>5
<1>12. CASE _handle_subscribe_events(id)
  <2>1. PICK cmd \in SubscribeCommands \ {"subscribe_entities"} :
          /\ Receives(cmd, id) /\ UNCHANGED pending
          /\ subs' = [subs EXCEPT ![id] = SubKind(cmd)]
          /\ _forward(Asked(id, cmd, {}))
    BY <1>12 DEF _handle_subscribe_events, Routes
  <2>2. /\ \A i \in Ids : i # id => pending'[i] = pending[i] /\ subs'[i] = subs[i]
        /\ subs'[id] = SubKind(cmd)
    BY <1>2, <2>1 DEF Receives
  <2> DEFINE r == Asked(id, cmd, {})
  <2>3. HaContent(r) = {}
    BY DEF HaContent, Asked, SubscribeCommands
  <2>4. ASSUME NEW items \in HaEvents(r)
        PROVE  SubKind(cmd) # None /\ (SubKind(cmd) = "passthrough_event" => items = {})
    BY <2>4 DEF HaEvents, Asked, SubKind, SubscribeCommands, None
  <2>5. Covered(r, id)
    BY <2>2, <2>3, <2>4 DEF Covered, Asked, Suits
  <2>6. QED BY <1>4, <2>1, <2>2, <2>5
<1>13. CASE _handle_call_service(id)
  <2>1. PICK call \in Calls :
          \/ /\ pending' = [pending EXCEPT ![id] = ResultKind("call_service")]
             /\ _forward(Asked(id, "call_service", call.about))
             /\ UNCHANGED subs
          \/ Denies(id)
    BY <1>13 DEF _handle_call_service
  <2>2. Receives("call_service", id)
    BY <1>13 DEF _handle_call_service, Routes
  <2>3. Covered(Asked(id, "call_service", call.about), id)
    BY DEF Covered, Asked, Suits, HaContent, SubscribeCommands
  <2>4. QED BY <1>2, <1>4, <1>5, <2>1, <2>2, <2>3
<1>14. CASE _handle_token_management(id)
  <2>1. PICK cmd \in TokenCommands :
          /\ Receives(cmd, id)
          /\ \/ /\ pending' = [pending EXCEPT ![id] = ResultKind(cmd)]
                /\ _forward(Asked(id, cmd, {}))
                /\ UNCHANGED subs
             \/ Denies(id)
    BY <1>14 DEF _handle_token_management, Routes
  <2>2. Covered(Asked(id, cmd, {}), id)
    BY DEF Covered, Asked, Suits, HaContent, SubscribeCommands, TokenCommands
  <2>3. QED BY <1>2, <1>4, <1>5, <2>1, <2>2
<1>15. CASE _handle_lovelace_config(id)
  <2>1. Receives("lovelace/config", id)
    BY <1>15 DEF _handle_lovelace_config, Routes
  <2>2. PICK target :
          \/ /\ target \in dashboards(ev)
             /\ pending' = [pending EXCEPT ![id] = ResultKind("lovelace/config")]
             /\ _forward(Asked(id, "lovelace/config", {target}))
             /\ UNCHANGED subs
          \/ Denies(id)
    BY <1>15 DEF _handle_lovelace_config
  <2>3. target \in dashboards(ev)
          => Covered(Asked(id, "lovelace/config", {target}), id)
    BY DEF Covered, Asked, Suits, HaContent, SubscribeCommands
  <2>4. QED BY <1>2, <1>4, <1>5, <2>1, <2>2, <2>3
<1>16. QED
  BY <1>6, <1>7, <1>8, <1>9, <1>10, <1>11, <1>12, <1>13, <1>14, <1>15
     DEF _route_client_msg

\* A step that neither sends nor changes the tables, the policy or the counter,
\* and that only takes requests, subscriptions or frames away.
LEMMA QuietStep ==
    ASSUME SessionInv, TypeOK', Quiet, UNCHANGED <<ev, asked, pending, subs, atHA, haSubs, fromHA>>
    PROVE  SessionInv' /\ NothingHiddenDelivered'
<1>1. OneResultEach' /\ ErrorsSayNothing'
  BY DEF SessionInv, OneResultEach, ErrorsSayNothing, asked
<1>2. FilteredWhileOutstanding'
  BY DEF SessionInv, FilteredWhileOutstanding, Guarded, Suits, asked
<1>3. EventsAreSorted'
  BY DEF SessionInv, EventsAreSorted, Sorted, asked
<1>4. NothingHiddenDelivered'
  BY DEF Quiet, NothingHiddenDelivered
<1>5. QED BY <1>1, <1>2, <1>3, <1>4 DEF SessionInv

LEMMA RestKeeps ==
    ASSUME SessionInv,
           PumpsEnd \/ ClientCloses \/ UpstreamCloses \/ RegistryChanges \/ TripChanges
    PROVE  SessionInv' /\ NothingHiddenDelivered'
<1>1. TypeOK'
  BY RestType DEF SessionInv
<1>2. Quiet /\ UNCHANGED <<ev, asked, pending, subs, atHA, haSubs, fromHA>>
  BY DEF PumpsEnd, PumpClientEnds, PumpHaEnds, Unregister, ClientCloses, UpstreamCloses,
     RegistryChanges, TripChanges, Closing, session, tables, ha
<1>3. QED BY <1>1, <1>2, QuietStep

\* Home Assistant puts a frame on its way.
LEMMA ArrivalKeeps ==
    ASSUME SessionInv, TypeOK', NEW frame \in Frame, Arrives(frame),
           frame.no < nextNo,
           atHA' \subseteq atHA,
           \A s \in haSubs' : s \in haSubs \/ (s \in atHA /\ s.cmd \in SubscribeCommands),
           ~frame.ok => frame.items = {},
           frame.type = "result" =>
             /\ Guarded(frame.id, frame.items)
             /\ \E r \in atHA : r.no = frame.no /\ r.id = frame.id /\ r \notin atHA',
           frame.type = "event" => Sorted(frame.id, frame.items)
    PROVE  SessionInv' /\ NothingHiddenDelivered'
<1>1. /\ Len(fromHA') = Len(fromHA) + 1 /\ Len(fromHA) \in Nat
      /\ \A i \in 1..(Len(fromHA) + 1) :
            fromHA'[i] = IF i = Len(fromHA) + 1 THEN frame ELSE fromHA[i]
  BY AppendType DEF SessionInv, TypeOK, Arrives
<1>2. \A i \in 1..Len(fromHA') : i \in 1..Len(fromHA) \/ i = Len(fromHA) + 1
  BY <1>1
<1>3. UNCHANGED <<ev, nextNo, crossed, pending, subs>> /\ Quiet
  BY DEF Arrives, session, tables, asked
<1>4. OneResultEach'
  <2>1. \A r \in atHA' \cup haSubs' : r.no < nextNo'
    BY <1>3 DEF SessionInv, OneResultEach
  <2>2. \A r, s \in atHA' : r.no = s.no \/ (r.id = s.id /\ r.id \notin crossed') => r = s
    BY <1>3 DEF SessionInv, OneResultEach
  <2>3. \A i \in 1..Len(fromHA') : fromHA'[i].no < nextNo'
    BY <1>1, <1>2, <1>3 DEF SessionInv, OneResultEach
  <2>4. frame.type = "result" => \A r \in atHA' :
          frame.no # r.no /\ (frame.id # r.id \/ r.id \in crossed)
    BY DEF SessionInv, OneResultEach
  <2>5. \A i \in 1..Len(fromHA') : \A r \in atHA' :
          fromHA'[i].type = "result" =>
            fromHA'[i].no # r.no /\ (fromHA'[i].id # r.id \/ r.id \in crossed')
    BY <1>1, <1>2, <1>3, <2>4 DEF SessionInv, OneResultEach
  <2>6. \A i \in 1..Len(fromHA) :
          fromHA[i].type = "result" /\ frame.type = "result" =>
            fromHA[i].no # frame.no /\ (fromHA[i].id # frame.id \/ frame.id \in crossed)
    BY DEF SessionInv, OneResultEach
  <2>7. ASSUME NEW i \in 1..Len(fromHA'), NEW j \in 1..Len(fromHA'),
               fromHA'[i].type = "result", fromHA'[j].type = "result",
               \/ fromHA'[i].no = fromHA'[j].no
               \/ fromHA'[i].id = fromHA'[j].id /\ fromHA'[i].id \notin crossed'
        PROVE  i = j
    <3>1. CASE i \in 1..Len(fromHA) /\ j \in 1..Len(fromHA)
      BY <1>1, <1>3, <2>7, <3>1 DEF SessionInv, OneResultEach
    <3>2. CASE i \in 1..Len(fromHA) /\ j = Len(fromHA) + 1
      BY <1>1, <1>3, <2>6, <2>7, <3>2
    <3>3. CASE i = Len(fromHA) + 1 /\ j \in 1..Len(fromHA)
      BY <1>1, <1>3, <2>6, <2>7, <3>3
    <3>4. QED BY <1>2, <3>1, <3>2, <3>3
  <2>8. QED BY <2>1, <2>2, <2>3, <2>5, <2>7 DEF OneResultEach
<1>5. ErrorsSayNothing'
  BY <1>1, <1>2 DEF SessionInv, ErrorsSayNothing
<1>6. FilteredWhileOutstanding'
  BY <1>1, <1>2, <1>3 DEF SessionInv, FilteredWhileOutstanding, Guarded, Suits
<1>7. EventsAreSorted'
  BY <1>1, <1>2, <1>3 DEF SessionInv, EventsAreSorted, Sorted
<1>8. NothingHiddenDelivered'
  BY <1>3 DEF Quiet, NothingHiddenDelivered
<1>9. QED BY <1>4, <1>5, <1>6, <1>7, <1>8 DEF SessionInv

LEMMA HaAnswersKeeps ==
    ASSUME SessionInv, NEW no \in Numbers, HaAnswers(no)
    PROVE  SessionInv' /\ NothingHiddenDelivered'
<1>1. TypeOK'
  BY HaAnswersType DEF SessionInv
<1>2. PICK r \in atHA : \E f :
             /\ r.no = no /\ atHA' = atHA \ {r} /\ Arrives(f)
             /\ haSubs' \in HaServes(r) \cup {haSubs}
             /\ f \in HaResults(r) \/ f = Sends(r, "result", FALSE, "usual", {})
  BY AnswerOf
<1> PICK frame :
             /\ atHA' = atHA \ {r} /\ Arrives(frame)
             /\ haSubs' \in HaServes(r) \cup {haSubs}
             /\ frame \in HaResults(r) \/ frame = Sends(r, "result", FALSE, "usual", {})
  BY <1>2
<1>3. r \in Request
  BY DEF SessionInv, TypeOK
<1>4. /\ frame \in Frame
      /\ frame.no = r.no /\ frame.id = r.id /\ frame.type = "result"
      /\ ~frame.ok => frame.items = {}
      /\ frame.items = HaContent(r) \/ frame.items = {}
  <2>1. CASE frame \in HaResults(r)
    BY <1>3, <2>1, HaFrames
  <2>2. CASE frame = Sends(r, "result", FALSE, "usual", {})
    <3>1. frame \in Frame
      BY <1>3, <2>2, HaFrames
    <3>2. QED BY <2>2, <3>1 DEF Sends
  <2>3. QED BY <2>1, <2>2
<1>5. \A s \in haSubs' : s \in haSubs \/ (s \in atHA /\ s.cmd \in SubscribeCommands)
  BY DEF HaServes
<1>6. Guarded(frame.id, frame.items)
  <2>1. Guarded(r.id, HaContent(r))
    BY DEF SessionInv, FilteredWhileOutstanding
  <2>2. QED BY <1>4, <2>1 DEF Guarded, Suits
<1>7. frame.no < nextNo
  BY <1>4 DEF SessionInv, OneResultEach
<1>8. QED BY <1>1, <1>4, <1>5, <1>6, <1>7, ArrivalKeeps

LEMMA HaEmitsKeeps ==
    ASSUME SessionInv, HaEmits
    PROVE  SessionInv' /\ NothingHiddenDelivered'
<1>1. TypeOK' /\ UNCHANGED <<atHA, haSubs>>
  BY HaEmitsType DEF SessionInv, HaEmits
<1>2. PICK s \in haSubs : \E f \in HaStream(s) : Arrives(f)
  BY DEF HaEmits
<1>3. s \in Request
  BY DEF SessionInv, TypeOK
<1>4. PICK frame \in Frame : Arrives(frame) /\ frame \in HaStream(s)
  BY <1>2, <1>3, HaFrames
<1>5. /\ frame.no = s.no /\ frame.id = s.id /\ frame.type = "event" /\ frame.ok
      /\ frame.items \in HaEvents(s) \/ frame.items = UNION HaEvents(s)
      /\ HaEvents(s) # {}
  BY <1>3, <1>4, HaFrames
<1>6. Sorted(frame.id, frame.items)
  <2>1. \A items \in HaEvents(s) : Sorted(s.id, items)
    BY DEF SessionInv, EventsAreSorted
  <2>2. Sorted(s.id, UNION HaEvents(s))
    BY <1>5, <2>1 DEF Sorted
  <2>3. QED BY <1>5, <2>1, <2>2
<1>7. frame.no < nextNo
  BY <1>5 DEF SessionInv, OneResultEach
<1>8. QED BY <1>1, <1>4, <1>5, <1>6, <1>7, ArrivalKeeps

\* A guarded result shows nothing hidden once its transform has been applied.
LEMMA TransformVisible ==
    ASSUME TypeOK, NEW f \in Frame, ~f.ok => f.items = {},
           Suits(pending[f.id], f.items), pending[f.id] # None
    PROVE  _transform_result(pending[f.id], f) \subseteq Visible(ev, reg)
<1> DEFINE kind == pending[f.id]
<1>1. kind \in FilterKinds \cup {"passthrough", "token_list_guard"}
  BY DEF TypeOK, Frame
<1>2. ev \in UserPolicy /\ reg \in Snapshot
  BY PoliciesAssumption DEF TypeOK
<1>3. dashboards(ev) \subseteq Visible(ev, reg) /\ Readable(ev, reg) \subseteq Visible(ev, reg)
  BY DashboardsVisible DEF Visible
<1>e. enumerable_read_entities(ev, reg) \subseteq Visible(ev, reg)
  BY <1>2, <1>3, EnumerationIsReadable
<1>4. CASE f.items \subseteq dashboards(ev)
  <2>1. _transform_result(kind, f) \subseteq f.items \cup Readable(ev, reg)
    BY <1>1 DEF _transform_result, filter_states, Readable, FilterKinds
  <2>2. QED BY <1>3, <1>4, <2>1
<1>5. CASE kind = "redact_config" /\ f.items \subseteq {HomeLocation}
  BY <1>5 DEF _transform_result
<1>6. CASE kind = "filter_entity_display" /\ f.items \subseteq Entities
  BY <1>e, <1>6 DEF _transform_result
<1>7. CASE kind \in FilterKinds \ {"redact_config", "filter_entity_display"}
  <2>1. filter_states(ev, reg, f.items) \subseteq Visible(ev, reg)
    BY <1>3 DEF filter_states, Readable
  <2>2. /\ allowed_device_ids(ev, reg) \subseteq Visible(ev, reg)
        /\ allowed_area_ids(ev, reg) \subseteq Visible(ev, reg)
    BY <1>2, AllowedDevicesVisible, AllowedAreasVisible
  <2>3. QED BY <1>3, <1>e, <1>7, <2>1, <2>2 DEF _transform_result, FilterKinds
<1>8. QED BY <1>4, <1>5, <1>6, <1>7 DEF Suits

\* A sorted event shows nothing hidden once it has been relayed.
LEMMA RelayVisible ==
    ASSUME TypeOK, NEW f \in Frame, f.shape # "bare", Sorted(f.id, f.items), f.id \notin crossed,
           NEW g \in _relay_event(subs[f.id], f)
    PROVE  g.items \subseteq Visible(ev, reg)
<1> DEFINE kind == subs[f.id]
<1>1. kind \in SubKinds /\ (kind = "passthrough_event" => f.items = {})
  BY DEF TypeOK, Frame, Sorted
<1>2. /\ dashboards(ev) \cup {Lovelace} \subseteq Visible(ev, reg)
      /\ filter_states(ev, reg, f.items) \subseteq Visible(ev, reg)
  BY DashboardsVisible DEF Visible, filter_states, Readable
<1>3. DefaultPanel(ev) \in Visible(ev, reg)
  BY <1>2 DEF DefaultPanel, dashboards
<1>4. CASE kind \in {"entities", "state_changed"}
  BY <1>2, <1>4 DEF _relay_event, Relay
<1>5. CASE kind = "system_data_core"
  BY <1>3, <1>5 DEF _relay_event, Relay
<1>6. CASE kind = "passthrough_event"
  BY <1>1, <1>6 DEF _relay_event, Relay
<1>7. QED BY <1>1, <1>4, <1>5, <1>6 DEF SubKinds

LEMMA DeliverKeeps ==
    ASSUME SessionInv, Deliver
    PROVE  SessionInv' /\ NothingHiddenDelivered'
<1> DEFINE f == Head(fromHA)
<1>1. TypeOK /\ TypeOK'
  BY DeliverType DEF SessionInv
<1>2. /\ f \in Frame
      /\ f = fromHA[1] /\ 1 \in 1..Len(fromHA)
      /\ Len(fromHA') = Len(fromHA) - 1
      /\ \A i \in 1..Len(fromHA') : fromHA'[i] = fromHA[i + 1] /\ i + 1 \in 1..Len(fromHA)
  BY <1>1, TailType DEF TypeOK, Deliver
<1>3. /\ UNCHANGED <<ev, reg, nextNo, crossed, subs, atHA, haSubs>>
      /\ sent' = _route_ha_msg(f)
      /\ pending' = Pop(f)
  BY DEF Deliver, session, world, asked, Reply
<1>4. \A i \in 1..Len(fromHA') : i \in Nat /\ i + 1 # 1
  BY <1>2
<1>5. ~f.ok => f.items = {}
  BY <1>2 DEF SessionInv, ErrorsSayNothing
<1>6. f.type = "result" => Guarded(f.id, f.items)
  BY <1>2 DEF SessionInv, FilteredWhileOutstanding
<1>7. f.type = "event" => Sorted(f.id, f.items)
  BY <1>2 DEF SessionInv, EventsAreSorted
<1>8. OneResultEach'
  <2>1. /\ \A r \in atHA' \cup haSubs' : r.no < nextNo'
        /\ \A r, s \in atHA' : r.no = s.no \/ (r.id = s.id /\ r.id \notin crossed') => r = s
    BY <1>3 DEF SessionInv, OneResultEach
  <2>2. \A i \in 1..Len(fromHA') : fromHA'[i].no < nextNo'
    BY <1>2, <1>3 DEF SessionInv, OneResultEach
  <2>3. ASSUME NEW i \in 1..Len(fromHA'), NEW r \in atHA', fromHA'[i].type = "result"
        PROVE  fromHA'[i].no # r.no /\ (fromHA'[i].id # r.id \/ r.id \in crossed')
    <3>1. fromHA'[i] = fromHA[i + 1] /\ i + 1 \in 1..Len(fromHA) /\ r \in atHA
      BY <1>2, <1>3
    <3>2. QED BY <1>3, <2>3, <3>1 DEF SessionInv, OneResultEach
  <2>4. ASSUME NEW i \in 1..Len(fromHA'), NEW j \in 1..Len(fromHA'),
               fromHA'[i].type = "result", fromHA'[j].type = "result",
               \/ fromHA'[i].no = fromHA'[j].no
               \/ fromHA'[i].id = fromHA'[j].id /\ fromHA'[i].id \notin crossed'
        PROVE  i = j
    <3>1. /\ fromHA'[i] = fromHA[i + 1] /\ i + 1 \in 1..Len(fromHA)
          /\ fromHA'[j] = fromHA[j + 1] /\ j + 1 \in 1..Len(fromHA)
      BY <1>2
    <3>2. i + 1 = j + 1
      BY <1>3, <2>4, <3>1 DEF SessionInv, OneResultEach
    <3>3. QED BY <3>2
  <2>5. QED BY <2>1, <2>2, <2>3, <2>4 DEF OneResultEach
<1>9. ErrorsSayNothing'
  BY <1>2 DEF SessionInv, ErrorsSayNothing
<1>10. FilteredWhileOutstanding'
  <2>1. \A id \in Ids : f.type # "result" \/ id # f.id => pending'[id] = pending[id]
    BY <1>1, <1>3 DEF TypeOK, Pop
  <2>2. ASSUME NEW r \in atHA PROVE Guarded(r.id, HaContent(r))'
    <3>1. f.type = "result" => r.id # f.id \/ r.id \in crossed
      BY <1>2 DEF SessionInv, OneResultEach
    <3>2. r.id \notin crossed => pending'[r.id] = pending[r.id]
      BY <1>1, <2>1, <3>1 DEF TypeOK, Request
    <3>3. Guarded(r.id, HaContent(r))
      BY DEF SessionInv, FilteredWhileOutstanding
    <3>4. QED BY <1>3, <3>2, <3>3 DEF Guarded, Suits
  <2>3. ASSUME NEW i \in 1..Len(fromHA'), fromHA'[i].type = "result"
        PROVE  Guarded(fromHA[i].id, fromHA[i].items)'
    <3> DEFINE x == fromHA[i + 1]
    <3>1. fromHA'[i] = x /\ i + 1 \in 1..Len(fromHA) /\ x.type = "result"
      BY <1>2, <2>3
    <3>2. f.type = "result" => x.id # f.id \/ x.id \in crossed
      BY <1>2, <1>4, <3>1 DEF SessionInv, OneResultEach
    <3>3. x \in Frame
      BY <1>1, <3>1 DEF TypeOK
    <3>4. x.id \notin crossed => pending'[x.id] = pending[x.id]
      BY <2>1, <3>2, <3>3 DEF Frame
    <3>5. Guarded(x.id, x.items)
      BY <3>1 DEF SessionInv, FilteredWhileOutstanding
    <3>6. QED BY <1>3, <3>1, <3>4, <3>5 DEF Guarded, Suits
  <2>4. QED BY <1>3, <2>2, <2>3 DEF FilteredWhileOutstanding
<1>11. EventsAreSorted'
  BY <1>2, <1>3 DEF SessionInv, EventsAreSorted, Sorted
<1>12. NothingHiddenDelivered'
  <2> SUFFICES ASSUME NEW g \in _route_ha_msg(f), g.id \notin crossed, ~g.bare
               PROVE  g.items \subseteq Visible(ev, reg)
    BY <1>3 DEF NothingHiddenDelivered, Vouched
  <2>0. f.id \notin crossed /\ f.shape # "bare"
    <3>1. PICK items : g = Relay(f, items)
      BY DEF _route_ha_msg, _relay_event
    <3>2. g.id = f.id
      BY <3>1 DEF Relay
    <3>3. g.bare = (f.shape = "bare")
      BY <3>1, Zenon DEF Relay
    <3>4. QED BY <3>2, <3>3
  <2>1. CASE f.type = "result" /\ pending[f.id] # None
    BY <1>1, <1>2, <1>5, <1>6, <2>0, <2>1, TransformVisible DEF _route_ha_msg, Relay, Guarded
  <2>2. CASE f.type = "result" /\ pending[f.id] = None
    <3>1. f.items \subseteq dashboards(ev)
      BY <1>6, <2>0, <2>2 DEF Guarded, Suits, FilterKinds, None
    <3>2. QED BY <2>2, <3>1, DashboardsVisible DEF _route_ha_msg, Relay
  <2>3. CASE f.type = "event"
    <3>1. g \in _relay_event(subs[f.id], f)
      BY <1>7, <2>0, <2>3 DEF _route_ha_msg, Sorted
    <3>2. QED BY <1>1, <1>2, <1>7, <2>0, <2>3, <3>1, RelayVisible
  <2>4. QED BY <1>2, <2>1, <2>2, <2>3 DEF Frame
<1>13. QED BY <1>1, <1>8, <1>9, <1>10, <1>11, <1>12 DEF SessionInv

LEMMA NextKeeps ==
    ASSUME SessionInv, NothingHiddenDelivered, [Next]_vars
    PROVE  SessionInv' /\ NothingHiddenDelivered'
<1>1. CASE Next
  BY <1>1, RouteKeeps, DeliverKeeps, RestKeeps, HaAnswersKeeps, HaEmitsKeeps
     DEF Next, Route, HomeAssistant
<1>2. CASE UNCHANGED vars
  <2>1. TypeOK' /\ OneResultEach' /\ ErrorsSayNothing'
    BY <1>2 DEF vars, SessionInv, TypeOK, OneResultEach, ErrorsSayNothing
  <2>2. FilteredWhileOutstanding' /\ EventsAreSorted'
    BY <1>2 DEF vars, SessionInv, FilteredWhileOutstanding, EventsAreSorted, Guarded, Suits, Sorted
  <2>3. NothingHiddenDelivered'
    BY <1>2 DEF vars, NothingHiddenDelivered, Vouched
  <2>4. QED BY <2>1, <2>2, <2>3 DEF SessionInv
<1>3. QED BY <1>1, <1>2

LEMMA InitKeeps == Init => SessionInv /\ NothingHiddenDelivered
<1> SUFFICES ASSUME Init PROVE SessionInv /\ NothingHiddenDelivered
  OBVIOUS
<1>1. Len(fromHA) = 0 /\ atHA = {} /\ haSubs = {} /\ sent = {}
  BY DEF Init
<1>2. OneResultEach /\ ErrorsSayNothing /\ FilteredWhileOutstanding /\ EventsAreSorted
  BY <1>1 DEF OneResultEach, ErrorsSayNothing, FilteredWhileOutstanding, EventsAreSorted
<1>3. QED BY <1>1, <1>2, InitType DEF SessionInv, NothingHiddenDelivered

\* The tables of the gateway agree with the traffic under way in every reachable
\* state, whatever the house, the policy and the length of the session.
THEOREM SessionInvariant == Spec => []SessionInv
<1>1. SessionInv /\ NothingHiddenDelivered /\ [Next]_vars
        => (SessionInv /\ NothingHiddenDelivered)'
  BY NextKeeps
<1>2. QED BY <1>1, InitKeeps, PTL DEF Spec

\* Nothing the policy hides is written to the client under an id that it has not used
\* again while something of it was under way (_route_ha_msg), for every policy, every
\* registry snapshot and every interleaving of a session, whatever it does under
\* other ids.
THEOREM NothingHidden == Spec => []NothingHiddenDelivered
<1>1. SessionInv /\ NothingHiddenDelivered /\ [Next]_vars
        => (SessionInv /\ NothingHiddenDelivered)'
  BY NextKeeps
<1>2. QED BY <1>1, InitKeeps, PTL DEF Spec
=============================================================================
