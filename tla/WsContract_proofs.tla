------------------------- MODULE WsContract_proofs -------------------------
(***************************************************************************)
(* A session of WsSession keeps the contract of SessionContract, forwards  *)
(* only what the policy allows, and drops no entry of its tables too late: *)
(* for every house, policy, snapshot, traffic and bound.                   *)
(*                                                                         *)
(* All of it rests on one fact about the router, RouteShape: a command is  *)
(* either answered at once, with nothing in it, or forwarded as one        *)
(* request in scope.                                                       *)
(***************************************************************************)
EXTENDS WsSession_proofs

\* What a branch of the router does if it answers the command itself.
AnswersNow(id) ==
    /\ \E frames \in {{Error(id)}, {Result(id)}, EmptySubscription(id)} : Reply(frames)
    /\ UNCHANGED <<c2h, pending, ha>>

\* What it does if it forwards the command: it may note a transform for it.
ForwardsOne(id) ==
    \E r :
      /\ r.no = nextNo /\ r.id = id
      /\ InScope(r) /\ ~tripped
      /\ _forward(r)
      /\ \A i \in Ids : i # id => pending'[i] = pending[i]

\* A request of a branch of the router, once its scope is known, is what it forwards.
LEMMA BranchForwards ==
    ASSUME TypeOK, NEW id \in Ids, NEW cmd, NEW about, ~tripped,
           InScope(Asked(id, cmd, about)), _forward(Asked(id, cmd, about)),
           UNCHANGED pending \/ \E kind : pending' = [pending EXCEPT ![id] = kind]
    PROVE  ForwardsOne(id)
<1>1. pending \in [Ids -> FilterKinds \cup {"passthrough", "token_list_guard", None}]
  BY DEF TypeOK
<1>2. \A i \in Ids : i # id => pending'[i] = pending[i]
  BY <1>1
<1>3. Asked(id, cmd, about).no = nextNo /\ Asked(id, cmd, about).id = id
  BY DEF Asked
<1>4. QED BY <1>2, <1>3 DEF ForwardsOne

LEMMA DeniesNow ==
    ASSUME NEW id, Denies(id)
    PROVE  AnswersNow(id)
BY DEF Denies, _deny, AnswersNow, tables

\* The rewritten list of a subscription is in scope.
LEMMA SubscriptionInScope ==
    ASSUME TypeOK, NEW id, NEW requested \in Requested \cup {Entities},
           enumerable_read_entities(ev, reg) \cap requested # {}
    PROVE  InScope(Asked(id, "subscribe_entities",
                         enumerable_read_entities(ev, reg) \cap requested))
<1>1. ev \in UserPolicy /\ reg \in Snapshot
  BY PoliciesAssumption DEF TypeOK
<1>2. enumerable_read_entities(ev, reg) \subseteq Readable(ev, reg)
  BY <1>1, EnumerationIsReadable
<1>3. QED BY <1>2 DEF InScope, Readable, TokenCommands, Asked

\* Each branch of _route_client_msg answers the command or forwards it.
LEMMA RouteShape ==
    ASSUME TypeOK, NEW id \in Ids, _route_client_msg(id)
    PROVE  (\E cmd : Receives(cmd, id)) /\ (AnswersNow(id) \/ ForwardsOne(id))
<1>1. CASE RouteTripped(id)
  BY <1>1, DeniesNow DEF RouteTripped
<1>2. CASE RoutePlain(id)
  <2>1. PICK cmd \in {"plain", "unsubscribe_events"} :
          Routes(cmd, id) /\ UNCHANGED tables /\ _forward(Asked(id, cmd, {}))
    BY <1>2 DEF RoutePlain
  <2>2. InScope(Asked(id, cmd, {}))
    BY DEF InScope, TokenCommands, Asked
  <2>3. QED BY <2>1, <2>2, BranchForwards DEF Routes, tables
<1>3. CASE RouteFiltered(id)
  <2>1. PICK cmd \in FilteredCommands :
          /\ Routes(cmd, id)
          /\ pending' = [pending EXCEPT ![id] = ResultKind(cmd)]
          /\ _forward(Asked(id, cmd, {}))
    BY <1>3 DEF RouteFiltered
  <2>2. InScope(Asked(id, cmd, {}))
    BY DEF InScope, TokenCommands, FilteredCommands, Asked
  <2>3. QED BY <2>1, <2>2, BranchForwards DEF Routes
<1>4. CASE RouteLocal(id)
  BY <1>4 DEF RouteLocal, Routes, Answers, AnswersNow, tables
<1>5. CASE RouteUnknown(id)
  BY <1>5, DeniesNow DEF RouteUnknown, Routes
<1>6. CASE _handle_subscribe_entities(id)
  <2>1. Routes("subscribe_entities", id) /\ UNCHANGED pending
    BY <1>6 DEF _handle_subscribe_entities
  <2>2. PICK requested \in Requested \cup {Entities} :
          LET target == enumerable_read_entities(ev, reg) \cap requested IN
          IF target = {}
          THEN Reply(EmptySubscription(id)) /\ UNCHANGED <<c2h, ha>>
          ELSE SubscribeTo(id, target)
    BY <1>6 DEF _handle_subscribe_entities
  <2> DEFINE target == enumerable_read_entities(ev, reg) \cap requested
  <2>3. CASE target = {}
    BY <2>1, <2>2, <2>3 DEF Routes, AnswersNow
  <2>4. CASE target # {}
    <3>1. InScope(Asked(id, "subscribe_entities", target))
      BY <2>4, SubscriptionInScope
    <3>2. _forward(Asked(id, "subscribe_entities", target))
      BY <2>2, <2>4 DEF SubscribeTo
    <3>3. QED BY <2>1, <3>1, <3>2, BranchForwards DEF Routes
  <2>5. QED BY <2>3, <2>4
<1>7. CASE _handle_subscribe_events(id)
  <2>1. PICK cmd \in SubscribeCommands \ {"subscribe_entities"} :
          Routes(cmd, id) /\ UNCHANGED pending /\ _forward(Asked(id, cmd, {}))
    BY <1>7 DEF _handle_subscribe_events
  <2>2. InScope(Asked(id, cmd, {}))
    BY DEF InScope, TokenCommands, SubscribeCommands, Asked
  <2>3. QED BY <2>1, <2>2, BranchForwards DEF Routes
<1>8. CASE _handle_call_service(id)
  <2>1. PICK call \in Calls :
          IF service_call_allowed(ev, reg, call)
          THEN /\ pending' = [pending EXCEPT ![id] = ResultKind("call_service")]
               /\ _forward(Asked(id, "call_service", call.about))
               /\ UNCHANGED subs
          ELSE Denies(id)
    BY <1>8 DEF _handle_call_service
  <2>2. Routes("call_service", id)
    BY <1>8 DEF _handle_call_service
  <2>3. CASE ~service_call_allowed(ev, reg, call)
    BY <2>1, <2>2, <2>3, DeniesNow DEF Routes
  <2>4. CASE service_call_allowed(ev, reg, call)
    <3>1. InScope(Asked(id, "call_service", call.about))
      BY <2>4 DEF InScope, service_call_allowed, TokenCommands, Asked
    <3>2. QED BY <2>1, <2>2, <2>4, <3>1, BranchForwards DEF Routes
  <2>5. QED BY <2>3, <2>4
<1>9. CASE _handle_token_management(id)
  <2>1. PICK cmd \in TokenCommands :
          /\ Routes(cmd, id)
          /\ IF ev.token_creation
             THEN /\ pending' = [pending EXCEPT ![id] = ResultKind(cmd)]
                  /\ _forward(Asked(id, cmd, {}))
                  /\ UNCHANGED subs
             ELSE Denies(id)
    BY <1>9 DEF _handle_token_management
  <2>2. CASE ~ev.token_creation
    BY <2>1, <2>2, DeniesNow DEF Routes
  <2>3. CASE ev.token_creation
    <3>1. InScope(Asked(id, cmd, {}))
      BY <2>3 DEF InScope, TokenCommands, Asked
    <3>2. QED BY <2>1, <2>3, <3>1, BranchForwards DEF Routes
  <2>4. QED BY <2>2, <2>3
<1>10. CASE _handle_lovelace_config(id)
  <2>1. Routes("lovelace/config", id)
    BY <1>10 DEF _handle_lovelace_config
  <2>2. PICK target :
          IF target \in dashboards(ev)
          THEN /\ pending' = [pending EXCEPT ![id] = ResultKind("lovelace/config")]
               /\ _forward(Asked(id, "lovelace/config", {target}))
               /\ UNCHANGED subs
          ELSE Denies(id)
    BY <1>10 DEF _handle_lovelace_config
  <2>3. CASE target \notin dashboards(ev)
    BY <2>1, <2>2, <2>3, DeniesNow DEF Routes
  <2>4. CASE target \in dashboards(ev)
    <3>1. InScope(Asked(id, "lovelace/config", {target}))
      BY <2>4 DEF InScope, TokenCommands, Asked
    <3>2. QED BY <2>1, <2>2, <2>4, <3>1, BranchForwards DEF Routes
  <2>5. QED BY <2>3, <2>4
<1>11. QED
  BY <1>1, <1>2, <1>3, <1>4, <1>5, <1>6, <1>7, <1>8, <1>9, <1>10 DEF _route_client_msg

\* What a step other than the router's does to the requests and to the tables.
Settles ==
    /\ Quiet
    /\ upstream' => upstream
    /\ UNCHANGED <<ev, nextNo, pending, atHA, fromHA>>

\* The end of a pump or of a session, the registry and the trip file leave the
\* traffic alone.
LEMMA StepShape ==
    ASSUME Next
    PROVE  Route \/ Deliver \/ (\E no \in Numbers : HaAnswers(no)) \/ HaEmits \/ Settles
<1>1. CASE PumpsEnd \/ ClientCloses \/ UpstreamCloses
  BY <1>1 DEF PumpsEnd, PumpClientEnds, PumpHaEnds, Unregister, ClientCloses,
     UpstreamCloses, Closing, tables, asked, ha, Settles
<1>2. CASE RegistryChanges \/ TripChanges
  BY <1>2 DEF RegistryChanges, TripChanges, session, tables, asked, ha, Settles
<1>3. QED BY <1>1, <1>2 DEF Next, HomeAssistant

\* Home Assistant's answer takes one request out and puts its result on the way.
LEMMA AnswerShape ==
    ASSUME TypeOK, NEW no, HaAnswers(no)
    PROVE  \E r \in atHA : \E frame :
             /\ r.no = no /\ atHA' = atHA \ {r} /\ Arrives(frame)
             /\ frame.no = no /\ frame.id = r.id /\ frame.type = "result"
<1>1. PICK r \in atHA : \E f :
             /\ r.no = no /\ atHA' = atHA \ {r} /\ Arrives(f)
             /\ haSubs' \in HaServes(r) \cup {haSubs}
             /\ f \in HaResults(r) \/ f = Sends(r, "result", FALSE, "usual", {})
  BY AnswerOf
<1>2. PICK f :
             /\ r.no = no /\ atHA' = atHA \ {r} /\ Arrives(f)
             /\ f \in HaResults(r) \/ f = Sends(r, "result", FALSE, "usual", {})
  BY <1>1
<1>3. r \in Request
  BY DEF TypeOK
<1>4. f.no = r.no /\ f.id = r.id /\ f.type = "result"
  <2>1. CASE f \in HaResults(r)
    BY <1>3, <2>1, HaFrames
  <2>2. CASE f = Sends(r, "result", FALSE, "usual", {})
    BY <2>2 DEF Sends
  <2>3. QED BY <1>2, <2>1, <2>2
<1>5. QED BY <1>2, <1>4

\* Home Assistant's event adds a frame and takes nothing away.
LEMMA EmitShape ==
    ASSUME TypeOK, HaEmits
    PROVE  UNCHANGED atHA /\ \E frame : frame.type = "event" /\ Arrives(frame)
<1>1. PICK s \in haSubs : \E f \in HaStream(s) : Arrives(f)
  BY DEF HaEmits
<1>2. PICK f \in HaStream(s) : Arrives(f)
  BY <1>1
<1>3. s \in Request
  BY DEF TypeOK
<1>4. f.type = "event"
  BY <1>3, HaFrames
<1>5. QED BY <1>2, <1>4 DEF HaEmits

-----------------------------------------------------------------------------
\* What is forwarded.

\* Every list of entities, call, dashboard and token request that reaches Home
\* Assistant under the user's own token was in scope of the policy by the registry
\* of that moment, and none left while the gateway was tripped (_route_client_msg).
THEOREM ForwardsInScope == Spec => ForwardedInScope
<1>1. ASSUME TypeOK, Next, NEW r \in atHA' \ atHA
      PROVE  InScope(r) /\ ~tripped
  <2>1. CASE Route
    <3>0. PICK id \in Ids : _route_client_msg(id)
      BY <2>1 DEF Route
    <3>1. ASSUME AnswersNow(id) PROVE FALSE
      BY <1>1, <3>1 DEF AnswersNow, ha
    <3>2. PICK x : InScope(x) /\ ~tripped /\ _forward(x)
      BY <1>1, <3>0, <3>1, RouteShape DEF ForwardsOne
    <3>3. r = x
      BY <1>1, <3>2 DEF _forward, ha
    <3>4. QED BY <3>2, <3>3
  <2>2. CASE \E no \in Numbers : HaAnswers(no)
    BY <1>1, <2>2, AnswerShape
  <2>3. CASE Deliver \/ HaEmits \/ Settles
    BY <1>1, <2>3 DEF Deliver, HaEmits, Settles
  <2>4. QED BY <1>1, <2>1, <2>2, <2>3, StepShape
<1>2. TypeOK /\ [Next]_vars => [\A r \in atHA' \ atHA : InScope(r) /\ ~tripped]_vars
  BY <1>1
<1>3. QED BY <1>2, TypeCorrect, PTL DEF Spec, ForwardedInScope

-----------------------------------------------------------------------------
\* The table of transforms.

\* A result is under way if it stands somewhere in the queue of frames.
LEMMA OnItsWay ==
    ASSUME NEW id
    PROVE  id \in InFlight <=>
             \E i \in 1..Len(fromHA) : fromHA[i].type = "result" /\ fromHA[i].id = id
BY DEF InFlight

\* The same for the queue after the step.
LEMMA OnItsWayNext ==
    ASSUME NEW id
    PROVE  id \in InFlight' <=>
             \E i \in 1..Len(fromHA') : fromHA'[i].type = "result" /\ fromHA'[i].id = id
BY DEF InFlight

\* A frame that arrives is behind all the others.
LEMMA ArrivalAddsOne ==
    ASSUME TypeOK, NEW frame, TypeOK', Arrives(frame)
    PROVE  /\ \A i \in 1..Len(fromHA) : i \in 1..Len(fromHA') /\ fromHA'[i] = fromHA[i]
           /\ \A i \in 1..Len(fromHA') : fromHA'[i] = frame \/
                (i \in 1..Len(fromHA) /\ fromHA'[i] = fromHA[i])
           /\ \E i \in 1..Len(fromHA') : fromHA'[i] = frame
<1>1. fromHA \in Seq(Frame) /\ fromHA' \in Seq(Frame) /\ fromHA' = Append(fromHA, frame)
  BY DEF TypeOK, Arrives
<1>2. /\ Len(fromHA') = Len(fromHA) + 1 /\ Len(fromHA) \in Nat
      /\ \A i \in 1..(Len(fromHA) + 1) :
           fromHA'[i] = IF i = Len(fromHA) + 1 THEN frame ELSE fromHA[i]
  BY <1>1
<1>3. QED BY <1>2

\* The session's step: the frame at the head leaves, the others move up.
LEMMA DeliveryTakesFirst ==
    ASSUME TypeOK, Deliver
    PROVE  /\ fromHA[1] \in Frame /\ 1 \in 1..Len(fromHA)
           /\ Head(fromHA) = fromHA[1]
           /\ \A i \in 1..Len(fromHA') : i + 1 \in 1..Len(fromHA) /\ fromHA'[i] = fromHA[i + 1]
           /\ \A i \in 1..Len(fromHA) : i # 1 =>
                i - 1 \in 1..Len(fromHA') /\ fromHA'[i - 1] = fromHA[i]
<1>1. fromHA \in Seq(Frame) /\ fromHA # <<>> /\ fromHA' = Tail(fromHA)
  BY DEF TypeOK, Deliver
<1>2. /\ Head(fromHA) \in Frame
      /\ Head(fromHA) = fromHA[1] /\ 1 \in 1..Len(fromHA)
      /\ Len(fromHA') = Len(fromHA) - 1 /\ Len(fromHA) \in Nat
      /\ \A i \in 1..Len(fromHA') : fromHA'[i] = fromHA[i + 1] /\ i + 1 \in 1..Len(fromHA)
  BY <1>1, TailType
<1>3. ASSUME NEW i \in 1..Len(fromHA), i # 1
      PROVE  i - 1 \in 1..Len(fromHA') /\ fromHA'[i - 1] = fromHA[i]
  <2>1. i - 1 \in 1..Len(fromHA') /\ (i - 1) + 1 = i
    BY <1>2, <1>3
  <2>2. QED BY <1>2, <2>1
<1>4. QED BY <1>2, <1>3

\* An arrival keeps the table in line if the request it answers is the only one taken out.
LEMMA ArrivalKeepsPending ==
    ASSUME TypeOK, TypeOK', PendingAwaitsResult, NEW frame, Arrives(frame),
           \A id \in Outstanding :
              id \in Outstanding' \/ (frame.type = "result" /\ frame.id = id)
    PROVE  PendingAwaitsResult'
<1>1. UNCHANGED <<pending, upstream>>
  BY DEF Arrives, tables, session
<1>2. \A id : id \in InFlight => id \in InFlight'
  BY ArrivalAddsOne, OnItsWay, OnItsWayNext
<1>3. frame.type = "result" => frame.id \in InFlight'
  BY ArrivalAddsOne, OnItsWayNext
<1>4. QED BY <1>1, <1>2, <1>3 DEF PendingAwaitsResult

\* No transform outlives its result: each step keeps the table in line with what
\* Home Assistant still owes.
LEMMA PendingStays ==
    ASSUME TypeOK, TypeOK', PendingAwaitsResult, Next
    PROVE  PendingAwaitsResult'
<1>1. ASSUME NEW id \in Ids, _route_client_msg(id) PROVE PendingAwaitsResult'
  <2>1. UNCHANGED upstream
    BY <1>1, RouteShape DEF Receives
  <2>2. CASE AnswersNow(id)
    BY <2>1, <2>2 DEF AnswersNow, ha, PendingAwaitsResult, Outstanding, InFlight
  <2>3. CASE ForwardsOne(id)
    <3>1. PICK r :
            /\ r.id = id /\ _forward(r)
            /\ \A i \in Ids : i # id => pending'[i] = pending[i]
      BY <2>3 DEF ForwardsOne
    <3>2. Outstanding \subseteq Outstanding' /\ UNCHANGED InFlight
      BY <3>1 DEF _forward, ha, Outstanding, InFlight
    <3>3. id \in Outstanding' \/ ~upstream'
      BY <2>1, <3>1 DEF _forward, Outstanding
    <3>4. QED BY <2>1, <3>1, <3>2, <3>3 DEF PendingAwaitsResult
  <2>4. QED BY <1>1, <2>2, <2>3, RouteShape
<1>2. ASSUME Deliver PROVE PendingAwaitsResult'
  <2> DEFINE f == fromHA[1]
  <2>1. /\ UNCHANGED <<upstream, atHA>> /\ pending' = Pop(f) /\ f \in Frame
    BY <1>2, DeliveryTakesFirst DEF Deliver, session
  <2>2. ASSUME NEW id \in Ids, pending'[id] # None
        PROVE  pending[id] # None /\ (f.type = "result" => id # f.id)
    BY <2>1, <2>2 DEF Pop, TypeOK, Frame
  <2>3. ASSUME NEW id \in Ids, pending'[id] # None, id \in InFlight
        PROVE  id \in InFlight'
    <3>1. PICK i \in 1..Len(fromHA) : fromHA[i].type = "result" /\ fromHA[i].id = id
      BY <2>3, OnItsWay
    <3>2. i # 1
      BY <2>2, <2>3, <3>1
    <3>3. i - 1 \in 1..Len(fromHA') /\ fromHA'[i - 1] = fromHA[i]
      BY <1>2, <3>2, DeliveryTakesFirst
    <3>4. QED BY <3>1, <3>3, OnItsWayNext
  <2>4. QED BY <2>1, <2>2, <2>3 DEF PendingAwaitsResult, Outstanding
<1>3. ASSUME NEW no \in Numbers, HaAnswers(no) PROVE PendingAwaitsResult'
  <2>1. PICK r \in atHA : \E frame :
          /\ atHA' = atHA \ {r} /\ Arrives(frame)
          /\ frame.id = r.id /\ frame.type = "result"
    BY <1>3, AnswerShape
  <2>2. PICK frame : Arrives(frame) /\ frame.id = r.id /\ frame.type = "result"
    BY <2>1
  <2>3. \A x \in Outstanding : x \in Outstanding' \/ (frame.type = "result" /\ frame.id = x)
    BY <2>1, <2>2 DEF Outstanding
  <2>4. QED BY <2>2, <2>3, ArrivalKeepsPending
<1>4. ASSUME HaEmits PROVE PendingAwaitsResult'
  <2>1. UNCHANGED Outstanding
    BY <1>4, EmitShape DEF Outstanding
  <2>2. PICK frame : Arrives(frame)
    BY <1>4, EmitShape
  <2>3. QED BY <2>1, <2>2, ArrivalKeepsPending
<1>5. ASSUME Settles PROVE PendingAwaitsResult'
  BY <1>5 DEF Settles, PendingAwaitsResult, Outstanding, InFlight
<1>6. QED BY <1>1, <1>2, <1>3, <1>4, <1>5, StepShape DEF Route

\* The table of transforms cannot leak: every entry waits for a result that Home
\* Assistant still owes or that is under way (self.pending of _Connection).
THEOREM PendingIsAwaited == Spec => []PendingAwaitsResult
<1>1. Init => PendingAwaitsResult
  BY DEF Init, PendingAwaitsResult
<1>2. TypeOK /\ TypeOK' /\ PendingAwaitsResult /\ [Next]_vars => PendingAwaitsResult'
  <2>1. ASSUME UNCHANGED vars, PendingAwaitsResult PROVE PendingAwaitsResult'
    BY <2>1 DEF vars, PendingAwaitsResult, Outstanding, InFlight
  <2>2. QED BY <2>1, PendingStays
<1>3. QED BY <1>1, <1>2, TypeCorrect, PTL DEF Spec

\* Every request whose answer would show something hidden has a transform that
\* suits it waiting, until the answer is delivered (self.pending, _route_ha_msg), and
\* nothing but a second use of its own id while it is under way can take it away.
THEOREM OutstandingIsFiltered == Spec => []FilteredWhileOutstanding
<1>1. SessionInv => FilteredWhileOutstanding
  BY DEF SessionInv
<1>2. QED BY <1>1, SessionInvariant, PTL

-----------------------------------------------------------------------------
\* The contract.

\* A command whose result is owed or under way has not been answered yet, and
\* only a command that was sent is ever answered.
OpenUntilAnswered ==
    /\ \A no \in answered : no < nextNo
    /\ \A r \in atHA : r.no \notin answered
    /\ \A i \in 1..Len(fromHA) : fromHA[i].type = "result" => fromHA[i].no \notin answered

\* A pump that still runs belongs to a session that is registered.
LiveWhilePumping == c2h = "running" \/ h2c = "running" => live

\* The frames of a step are about one command: its result, or an event of it.
LEMMA RoutedFrames ==
    ASSUME NEW f
    PROVE  /\ \A g \in _route_ha_msg(f) : g.no = f.no /\ g.type = f.type
           /\ f.type = "result" => _route_ha_msg(f) # {}
<1>1. \A items : Relay(f, items).no = f.no /\ Relay(f, items).type = f.type
  BY DEF Relay
<1>2. \A kind : \A g \in _relay_event(kind, f) : \E items : g = Relay(f, items)
  BY DEF _relay_event
<1>3. \A g \in _route_ha_msg(f) : \E items : g = Relay(f, items)
  BY <1>2 DEF _route_ha_msg
<1>4. f.type = "result" => _route_ha_msg(f) # {}
  BY DEF _route_ha_msg
<1>5. QED BY <1>1, <1>3, <1>4

\* What the gateway answers by itself is empty and is one result.
LEMMA LocalAnswer ==
    ASSUME NEW id, AnswersNow(id)
    PROVE  /\ \A f \in sent' : f.items = {}
           /\ {f.no : f \in {g \in sent' : g.type = "result"}} = {nextNo}
           /\ answered' = answered \cup {nextNo}
<1>1. PICK frames \in {{Error(id)}, {Result(id)}, EmptySubscription(id)} : Reply(frames)
  BY DEF AnswersNow
<1>2. /\ \A f \in frames : f.items = {} /\ f.no = nextNo
      /\ \E f \in frames : f.type = "result"
  <2>1. CASE frames = {Error(id)}
    BY <2>1 DEF Error, Own
  <2>2. CASE frames = {Result(id)}
    BY <2>2 DEF Result, Own
  <2>3. CASE frames = EmptySubscription(id)
    BY <2>3 DEF Result, Event, EmptySubscription, Own
  <2>4. QED BY <1>1, <2>1, <2>2, <2>3
<1>3. sent' = frames
  BY <1>1 DEF Reply
<1>4. {f.no : f \in {g \in frames : g.type = "result"}} = {nextNo}
  BY <1>2
<1>5. QED BY <1>1, <1>2, <1>3, <1>4 DEF Reply

\* A delivery gives the frame's command its result, or no command one.
LEMMA DeliveredResult ==
    ASSUME TypeOK, Deliver
    PROVE  LET f == fromHA[1]
               results == {g.no : g \in {h \in sent' : h.type = "result"}}
           IN  /\ results = IF f.type = "result" THEN {f.no} ELSE {}
               /\ answered' = answered \cup results
<1> DEFINE f == fromHA[1]
           results == {g.no : g \in {h \in sent' : h.type = "result"}}
<1>1. sent' = _route_ha_msg(f) /\ answered' = answered \cup results
  BY DeliveryTakesFirst DEF Deliver, Reply
<1>2. \A g \in sent' : g.no = f.no /\ g.type = f.type
  BY <1>1, RoutedFrames
<1>3. f.type = "result" => sent' # {}
  BY <1>1, RoutedFrames
<1>4. results = IF f.type = "result" THEN {f.no} ELSE {}
  BY <1>2, <1>3
<1>5. QED BY <1>1, <1>4

\* What a step adds to the answered commands was open before.
LEMMA OpenStays ==
    ASSUME SessionInv, TypeOK', OpenUntilAnswered, Next
    PROVE  OpenUntilAnswered'
<1>1. /\ \A r \in atHA : r.no < nextNo /\ r.no \in Nat
      /\ \A i \in 1..Len(fromHA) : fromHA[i].no < nextNo /\ fromHA[i].no \in Nat
      /\ answered \subseteq Nat /\ nextNo \in Nat
  BY NumbersUsed, BoundAssumption DEF SessionInv, TypeOK, Numbers
<1>2. CASE Route
  <2>0. PICK id \in Ids : _route_client_msg(id)
    BY <1>2 DEF Route
  <2>1. nextNo' = nextNo + 1
    BY <2>0, RouteShape DEF SessionInv, Receives
  <2>2. CASE AnswersNow(id)
    <3>1. answered' = answered \cup {nextNo} /\ UNCHANGED <<atHA, fromHA>>
      BY <2>2, LocalAnswer DEF AnswersNow, ha
    <3>2. ASSUME NEW no \in answered' PROVE no < nextNo'
      <4>1. CASE no = nextNo
        BY <1>1, <2>1, <4>1
      <4>2. CASE no \in answered
        <5>1. no < nextNo
          BY <4>2 DEF OpenUntilAnswered
        <5>2. QED BY <1>1, <2>1, <4>2, <5>1
      <4>3. QED BY <3>1, <3>2, <4>1, <4>2
    <3>3. /\ \A r \in atHA : r.no # nextNo
          /\ \A i \in 1..Len(fromHA) : fromHA[i].no # nextNo
      BY <1>1
    <3>4. QED BY <3>1, <3>2, <3>3 DEF OpenUntilAnswered
  <2>3. CASE ForwardsOne(id)
    <3>1. PICK r : r.no = nextNo /\ _forward(r)
      BY <2>3 DEF ForwardsOne
    <3>2. UNCHANGED <<answered, fromHA>> /\ atHA' \subseteq atHA \cup {r}
      BY <3>1 DEF _forward, ha, Quiet
    <3>3. nextNo \notin answered
      BY <1>1 DEF OpenUntilAnswered
    <3>4. \A x \in atHA' : x.no \notin answered
      BY <3>1, <3>2, <3>3 DEF OpenUntilAnswered
    <3>5. \A no \in answered : no < nextNo'
      BY <1>1, <2>1 DEF OpenUntilAnswered
    <3>6. QED BY <3>2, <3>4, <3>5 DEF OpenUntilAnswered
  <2>4. QED BY <2>0, <2>2, <2>3, RouteShape DEF SessionInv
<1>3. CASE Deliver
  <2> DEFINE f == fromHA[1]
  <2>1. UNCHANGED <<nextNo, atHA>>
    BY <1>3 DEF Deliver, asked
  <2>2. /\ 1 \in 1..Len(fromHA)
        /\ \A i \in 1..Len(fromHA') : i + 1 \in 1..Len(fromHA) /\ fromHA'[i] = fromHA[i + 1]
    BY <1>3, DeliveryTakesFirst DEF SessionInv
  <2>3. answered' = answered \cup (IF f.type = "result" THEN {f.no} ELSE {})
    BY <1>3, DeliveredResult DEF SessionInv
  <2>4. CASE f.type # "result"
    BY <2>1, <2>2, <2>3, <2>4 DEF OpenUntilAnswered
  <2>5. CASE f.type = "result"
    <3>1. f.no < nextNo /\ \A r \in atHA : r.no # f.no
      BY <1>1, <2>2, <2>5 DEF SessionInv, OneResultEach
    <3>2. ASSUME NEW i \in 1..Len(fromHA'), fromHA'[i].type = "result"
          PROVE  fromHA'[i].no # f.no
      <4>1. i + 1 # 1
        BY <3>2
      <4>2. QED BY <2>2, <2>5, <3>2, <4>1 DEF SessionInv, OneResultEach
    <3>3. QED BY <2>1, <2>2, <2>3, <2>5, <3>1, <3>2 DEF OpenUntilAnswered
  <2>6. QED BY <2>4, <2>5
<1>4. ASSUME NEW frame, Arrives(frame), atHA' \subseteq atHA,
             frame.type = "result" => frame.no \notin answered
      PROVE  OpenUntilAnswered'
  <2>1. UNCHANGED <<nextNo, answered>>
    BY <1>4 DEF Arrives, Quiet, asked
  <2>2. QED BY <1>4, <2>1, ArrivalAddsOne DEF SessionInv, OpenUntilAnswered
<1>5. ASSUME NEW no \in Numbers, HaAnswers(no) PROVE OpenUntilAnswered'
  <2>1. PICK r \in atHA : \E frame :
          r.no = no /\ atHA' = atHA \ {r} /\ frame.no = no /\ Arrives(frame)
    BY <1>5, AnswerShape DEF SessionInv
  <2>2. PICK frame : frame.no = no /\ Arrives(frame)
    BY <2>1
  <2>3. no \notin answered
    BY <2>1 DEF OpenUntilAnswered
  <2>4. QED BY <1>4, <2>1, <2>2, <2>3
<1>6. ASSUME HaEmits PROVE OpenUntilAnswered'
  <2>1. UNCHANGED atHA /\ \E frame : frame.type = "event" /\ Arrives(frame)
    BY <1>6, EmitShape DEF SessionInv
  <2>2. QED BY <1>4, <2>1
<1>7. CASE Settles
  BY <1>7 DEF Settles, Quiet, OpenUntilAnswered
<1>8. QED BY <1>2, <1>3, <1>5, <1>6, <1>7, StepShape

\* No pump runs on after the handler has unregistered the session.
LEMMA LiveStays ==
    ASSUME TypeOK, LiveWhilePumping, Next
    PROVE  LiveWhilePumping'
<1>1. CASE Route
  <2>1. UNCHANGED <<h2c, live>> /\ c2h = "running"
    BY <1>1, RouteShape DEF Route, Receives
  <2>2. QED BY <2>1 DEF LiveWhilePumping
<1>2. CASE Deliver \/ HomeAssistant \/ RegistryChanges \/ TripChanges
  <2>1. UNCHANGED session
    BY <1>2 DEF Deliver, HomeAssistant, HaAnswers, HaEmits, Arrives, RegistryChanges, TripChanges
  <2>2. QED BY <2>1 DEF session, LiveWhilePumping
<1>3. CASE PumpsEnd \/ ClientCloses \/ UpstreamCloses
  BY <1>3 DEF PumpsEnd, PumpClientEnds, PumpHaEnds, Unregister, ClientCloses, UpstreamCloses,
              LiveWhilePumping
<1>4. QED BY <1>1, <1>2, <1>3 DEF Next

-----------------------------------------------------------------------------
\* The refinement: Contract is SessionContract over this session's variables.

\* What the policy lets a user see is made of items.
LEMMA VisibleType ==
    ASSUME NEW p \in UserPolicy, NEW s \in Snapshot
    PROVE  Visible(p, s) \subseteq Item
<1>1. dashboards(p) \subseteq Item /\ Lovelace \in Item
  BY DashboardAssumption DEF UserPolicy, dashboards, Item
<1>2. \A e \in Entities : area_of(s, e) \in Areas \cup {NoArea}
                        /\ device_of(s, e) \in Devices \cup {NoDevice}
  BY DEF Snapshot, area_of, device_of
<1>3. QED BY <1>1, <1>2 DEF Visible, Readable, Item

\* The commands' standing after a step that counts up or answers.
LEMMA StatusStep ==
    ASSUME NEW no \in Numbers, TypeOK, no \in answered' <=> no \in answered,
           nextNo' = nextNo \/ (nextNo' = nextNo + 1 /\ no # nextNo)
    PROVE  Status(no)' = Status(no)
<1>1. no \in Nat /\ nextNo \in Nat
  BY BoundAssumption DEF Numbers, TypeOK
<1>2. no >= nextNo' <=> no >= nextNo
  BY <1>1
<1>3. QED BY <1>2 DEF Status

\* A command the gateway answers or forwards was not sent before.
LEMMA RouteAsks ==
    ASSUME SessionInv, TypeOK', OpenUntilAnswered, LiveWhilePumping, Route
    PROVE  Contract!Ask
<1>0. PICK id \in Ids : _route_client_msg(id)
  BY DEF Route
<1>1. /\ c2h = "running" /\ live /\ live' = live
      /\ nextNo \in Numbers /\ nextNo' = nextNo + 1
      /\ UNCHANGED <<ev, reg>>
  BY <1>0, RouteShape DEF SessionInv, Receives, world, LiveWhilePumping
<1>2. nextNo \in Nat /\ nextNo >= nextNo /\ ~(nextNo >= nextNo') /\ nextNo \notin answered
  BY <1>1 DEF Numbers, OpenUntilAnswered
<1>3. Status(nextNo) = "unsent"
  BY <1>2 DEF Status
<1> DEFINE status == [no \in Numbers |-> Status(no)]
           results == {f.no : f \in {g \in sent : g.type = "result"}}
           told == UNION {f.items : f \in {g \in sent : Vouched(g)}}
\* (A prime would reach into Status(nextNo), so the command is named by a constant.)
<1>4. PICK c \in Numbers : c = nextNo
  BY <1>1
<1>5. ASSUME NEW st, \A no \in Numbers : no # c => (no \in answered' <=> no \in answered),
             Status(c)' = st
      PROVE  status' = [status EXCEPT ![c] = st]
  <2>1. \A no \in Numbers : no # c => Status(no)' = Status(no)
    BY <1>1, <1>4, <1>5, StatusStep DEF SessionInv
  <2>2. \A no \in Numbers : Status(no)' = IF no = c THEN st ELSE Status(no)
    BY <1>5, <2>1
  <2>3. status' = [no \in Numbers |-> Status(no)']
    BY DEF Status
  <2>4. QED BY <2>2, <2>3
<1>6. CASE AnswersNow(id)
  <2>1. /\ told' = {} /\ results' = {c} /\ answered' = answered \cup {c}
    BY <1>4, <1>6, LocalAnswer
  <2>2. Status(c)' = "answered"
    BY <1>2, <1>4, <2>1 DEF Status
  <2>3. status' = [status EXCEPT ![c] = "answered"]
    BY <1>5, <2>1, <2>2
  <2>4. QED BY <1>1, <1>3, <1>4, <2>1, <2>3 DEF Contract!Ask
<1>7. CASE ForwardsOne(id)
  <2>1. told' = {} /\ results' = {} /\ answered' = answered
    BY <1>7 DEF ForwardsOne, _forward, Quiet
  <2>2. Status(c)' = "open"
    BY <1>2, <1>4, <2>1 DEF Status
  <2>3. status' = [status EXCEPT ![c] = "open"]
    BY <1>5, <2>1, <2>2
  <2>4. QED BY <1>1, <1>3, <1>4, <2>1, <2>3 DEF Contract!Ask
<1>8. QED BY <1>0, <1>6, <1>7, RouteShape DEF SessionInv

\* A frame of Home Assistant tells the user only what it may see, and the result it
\* carries is that of a command still open.
LEMMA DeliverTells ==
    ASSUME SessionInv, OpenUntilAnswered, LiveWhilePumping, NothingHiddenDelivered', Deliver
    PROVE  Contract!Tell
<1> DEFINE f == fromHA[1]
           status == [no \in Numbers |-> Status(no)]
           results == {g.no : g \in {h \in sent : h.type = "result"}}
           told == UNION {g.items : g \in {h \in sent : Vouched(h)}}
<1>1. live /\ live' = live /\ UNCHANGED <<ev, reg, nextNo>>
  BY DEF Deliver, session, world, asked, LiveWhilePumping
<1>2. told' \subseteq Visible(ev, reg)
  BY <1>1 DEF NothingHiddenDelivered
<1>3. f \in Frame /\ 1 \in 1..Len(fromHA)
  BY DeliveryTakesFirst DEF SessionInv
<1>4. /\ results' = IF f.type = "result" THEN {f.no} ELSE {}
      /\ answered' = answered \cup results'
  BY DeliveredResult DEF SessionInv
<1>5. ASSUME NEW no \in Numbers, no \notin results'
      PROVE  Status(no)' = Status(no)
  BY <1>1, <1>4, <1>5, StatusStep DEF SessionInv
<1>6. CASE f.type # "result"
  <2>1. results' = {} /\ status' = status
    BY <1>4, <1>5, <1>6 DEF Status
  <2>2. QED BY <1>1, <1>2, <2>1 DEF Contract!Tell
<1>7. CASE f.type = "result"
  <2>1. PICK c \in Numbers : c = f.no
    BY <1>3 DEF Frame
  <2>2. c < nextNo /\ c \notin answered /\ c \in answered'
    BY <1>3, <1>4, <1>7, <2>1 DEF OpenUntilAnswered, SessionInv, OneResultEach
  <2>3. ~(c >= nextNo) /\ ~(c >= nextNo')
    BY <1>1, <2>2, BoundAssumption DEF SessionInv, TypeOK, Numbers
  <2>4. Status(c) = "open" /\ Status(c)' = "answered"
    BY <2>2, <2>3 DEF Status
  <2>5. \A no \in Numbers : Status(no)' = IF no = c THEN "answered" ELSE Status(no)
    BY <1>4, <1>5, <1>7, <2>1, <2>4
  <2>6. status' = [no \in Numbers |-> Status(no)']
    BY DEF Status
  <2>7. status' = [status EXCEPT ![c] = "answered"]
    BY <2>5, <2>6
  <2>8. results' = {c}
    BY <1>4, <1>7, <2>1
  <2>9. QED BY <1>1, <1>2, <2>4, <2>7, <2>8 DEF Contract!Tell
<1>8. QED BY <1>6, <1>7

\* A step that sends nothing and answers nothing leaves every command as it was.
LEMMA QuietStatus ==
    ASSUME TypeOK, Quiet, UNCHANGED nextNo
    PROVE  /\ [no \in Numbers |-> Status(no)]' = [no \in Numbers |-> Status(no)]
           /\ (UNION {f.items : f \in {g \in sent : Vouched(g)}})' = {}
           /\ {f.no : f \in {g \in sent : g.type = "result"}}' = {}
<1>1. \A no \in Numbers : Status(no)' = Status(no)
  BY StatusStep DEF Quiet
<1>2. QED BY <1>1 DEF Quiet, Status

\* Everything else tells nobody anything: the registry moves what may be told, the
\* handler ends the session, the rest changes nothing the contract speaks of.
LEMMA OthersRest ==
    ASSUME TypeOK, TypeOK', Next, ~Route, ~Deliver
    PROVE  Contract!Next
<1>1. Quiet /\ UNCHANGED <<nextNo, ev>>
  BY DEF Next, HomeAssistant, HaAnswers, HaEmits, Arrives, PumpsEnd, PumpClientEnds, PumpHaEnds,
     Unregister, ClientCloses, UpstreamCloses, RegistryChanges, TripChanges, Closing, session, asked
<1> DEFINE status == [no \in Numbers |-> Status(no)]
           results == {f.no : f \in {g \in sent : g.type = "result"}}
           told == UNION {f.items : f \in {g \in sent : Vouched(g)}}
<1>2. status' = status /\ told' = {} /\ results' = {}
  BY <1>1, QuietStatus
<1>3. CASE RegistryChanges
  <2>1. Visible(ev, reg)' \subseteq Item
    BY VisibleType, PoliciesAssumption DEF TypeOK
  <2>2. live' = live
    BY <1>3 DEF RegistryChanges, session
  <2>3. QED BY <1>2, <2>1, <2>2 DEF Contract!Next, Contract!Move, Contract!Silent
<1>4. CASE Unregister
  <2>1. live' = FALSE /\ UNCHANGED reg
    BY <1>4 DEF Unregister, Closing, world
  <2>2. QED BY <1>1, <1>2, <2>1 DEF Contract!Next, Contract!End, Contract!Silent
<1>5. CASE ~RegistryChanges /\ ~Unregister
  <2>1. UNCHANGED <<live, reg>>
    BY <1>5 DEF Next, HomeAssistant, HaAnswers, HaEmits, Arrives, PumpsEnd, PumpClientEnds,
       PumpHaEnds, ClientCloses, UpstreamCloses, TripChanges, Closing, session, world
  <2>2. QED BY <1>1, <1>2, <2>1 DEF Contract!Next, Contract!Rest, Contract!Silent
<1>6. QED BY <1>3, <1>4, <1>5

\* What the simulation needs to know of a state.
ContractInv == SessionInv /\ NothingHiddenDelivered /\ OpenUntilAnswered /\ LiveWhilePumping

\* Every reachable state has it.
LEMMA ContractInvariant == Spec => []ContractInv
<1>1. Init => ContractInv
  <2> SUFFICES ASSUME Init PROVE ContractInv
    OBVIOUS
  <2>1. OpenUntilAnswered /\ LiveWhilePumping
    BY DEF Init, OpenUntilAnswered, LiveWhilePumping
  <2>2. QED BY <2>1, InitKeeps DEF ContractInv
<1>2. ContractInv /\ [Next]_vars => ContractInv'
  <2> SUFFICES ASSUME ContractInv, [Next]_vars PROVE ContractInv'
    OBVIOUS
  <2>1. SessionInv' /\ NothingHiddenDelivered'
    BY NextKeeps DEF ContractInv
  <2>2. CASE Next
    BY <2>1, <2>2, OpenStays, LiveStays DEF ContractInv, SessionInv
  <2>3. CASE UNCHANGED vars
    BY <2>1, <2>3 DEF vars, ContractInv, OpenUntilAnswered, LiveWhilePumping
  <2>4. QED BY <2>2, <2>3
<1>3. QED BY <1>1, <1>2, PTL DEF Spec

\* The session keeps its contract: whatever Home Assistant answers, whatever ids the
\* client uses and in whatever order the pumps run, every step is one SessionContract
\* allows - at most one result per command, none for one that was not sent, nothing
\* after the session was left, and, under the ids that are not crossed, nothing
\* outside the policy by the registry of that moment.
THEOREM SessionKeepsContract == Spec => KeepsContract
<1>1. Init => Contract!Init
  <2> SUFFICES ASSUME Init PROVE Contract!Init
    OBVIOUS
  <2>1. Visible(ev, reg) \subseteq Item
    BY VisibleType, PoliciesAssumption, SnapshotsAssumption DEF Init
  <2>2. \A no \in Numbers : Status(no) = "unsent"
    BY DEF Init, Status, Numbers
  <2>3. sent = {} /\ live = TRUE
    BY DEF Init
  <2>4. QED BY <2>1, <2>2, <2>3 DEF Contract!Init
<1>2. ContractInv /\ ContractInv' /\ [Next]_vars => [Contract!Next]_(Contract!contract)
  <2> SUFFICES ASSUME ContractInv, ContractInv', [Next]_vars
               PROVE  [Contract!Next]_(Contract!contract)
    OBVIOUS
  <2>1. CASE Route
    BY <2>1, RouteAsks DEF ContractInv, SessionInv, Contract!Next
  <2>2. CASE Deliver
    BY <2>2, DeliverTells DEF ContractInv, Contract!Next
  <2>3. CASE Next /\ ~Route /\ ~Deliver
    BY <2>3, OthersRest DEF ContractInv, SessionInv
  <2>4. CASE UNCHANGED vars
    BY <2>4 DEF vars, Contract!contract, Status, Vouched
  <2>5. QED BY <2>1, <2>2, <2>3, <2>4
<1>3. QED BY <1>1, <1>2, ContractInvariant, PTL DEF Spec, KeepsContract, Contract!Spec
=============================================================================
