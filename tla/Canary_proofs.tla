---------------------------- MODULE Canary_proofs ----------------------------
(***************************************************************************)
(* What Canary's run checks of REST requests, of the trip switch and of    *)
(* resaved policies, for every house, every set of users, policies and     *)
(* requests, any number of slots and every check interval.                 *)
(***************************************************************************)
EXTENDS Canary, PolicyFiles_proofs

Flight == {"resolving", "reading", "upstream"}

\* Every slot is idle, done or in flight, and what is in flight is well typed.
SlotOK(s) ==
    \/ req[s] = Idle
    \/ req[s].pc = "done"
    \/ /\ req[s].pc \in Flight
       /\ req[s].request \in Request
       /\ req[s].who \in Users \cup {Stranger}

\* A file the last look did not see was not there at that look.
SwitchInv ==
    /\ TripTypeOK
    /\ file /\ ~cached => stood <= checked

\* A single state on its way was readable when its request was let through.
StatesWereChecked ==
    \A s \in Slots :
        /\ req[s].pc \in {"reading", "upstream"} /\ req[s].ev # None
        /\ req[s].request.kind = "state"
        => req[s].request.entity \in readable[s]

PoliciesOK == policies \in [Restricted -> UserPolicy \cup {None}]

Inv ==
    /\ deployment \in Deployments
    /\ PoliciesOK
    /\ req = [s \in Slots |-> req[s]]
    /\ \A s \in Slots : SlotOK(s)
    /\ SwitchInv
    /\ StatesWereChecked

-----------------------------------------------------------------------------
\* How a step may change each part of the state.

\* Whoever sends a request asks for something a request may be about.
LEMMA TrafficIsTyped ==
    ASSUME deployment \in Deployments, NEW t \in deployment.traffic
    PROVE  t[1] \in Users \cup {Stranger} /\ t[2] \in Request
BY RestAssumption

\* So does the canary.
LEMMA ProbeIsTyped ==
    ASSUME NEW check \in RestChecks
    PROVE  Probe \in Slots /\ Tester \in Users /\ Asked[check] \in Request
<1>1. Probe \in Slots /\ Tester \in Users
  BY CanaryAssumption DEF Restricted
<1>2. /\ [kind |-> "denied"] \in Request
      /\ \A e \in Entities : [kind |-> "state", entity |-> e] \in Request
  BY DEF Request, ApiKinds, ShellKinds
<1> QED BY <1>1, <1>2, CanaryAssumption DEF Asked, RestChecks

\* A request that is answered or moved on was in flight.
LEMMA RespondShape ==
    ASSUME NEW s \in Slots, Respond(s)
    PROVE  /\ req[s].pc \in Flight
           /\ \E r : Set(s, r)
           /\ Fixed /\ UNCHANGED tripVars
BY DEF Respond, Flight, Unauthorized, PassAdmin, RefuseUnassigned, RefuseEndpoint, Serve, ReadBody,
       DecideCall, Reply, ReplyError, UpstreamFails, Resolving, Identified, Assigned, Upstream,
       Refuse, Forward, Waits

\* The canary's session, and what its loop does after it.
SessionStep == Greeted \/ LooksUp \/ Unresolved \/ OpensSession \/ SessionChecks \/ Cut
Concludes == Passes \/ Trips \/ TripsInVain

CanaryState == [pc : RestChecks \cup SessionStages \cup {"sleeping"}, failed : BOOLEAN,
                ev : UserPolicy \cup {None}]

\* A step of the session leads from stage to stage, and a check of it fails only if
\* something is wrong.
LEMMA SessionShape ==
    ASSUME canary \in CanaryState, PoliciesOK, SessionStep
    PROVE  /\ up /\ canary.pc \in SessionStages
           /\ canary'.pc \in SessionStages
           /\ canary' \in CanaryState
           /\ canary'.failed => canary.failed \/ Wrong
           /\ UNCHANGED <<req, upgraded>> /\ Fixed
           /\ UNCHANGED tripVars \/ Looks
<1> USE DEF SessionAt, CanaryState
<1>1. ASSUME NEW pc \in SessionStages, NEW failed \in BOOLEAN,
             NEW ev \in UserPolicy \cup {None}, Reach(pc, failed, ev)
      PROVE  canary' \in CanaryState /\ canary'.pc = pc /\ canary'.failed = failed
  BY <1>1 DEF Reach
<1>2. ASSUME NEW pc \in SessionStages, NEW failed \in BOOLEAN, At(pc, failed)
      PROVE  canary' \in CanaryState /\ canary'.pc = pc /\ canary'.failed = failed
  BY <1>1, <1>2 DEF At
<1>3. canary.failed \in BOOLEAN /\ canary.ev \in UserPolicy \cup {None}
  OBVIOUS
<1>4. ASSUME CutShort
      PROVE  canary' \in CanaryState /\ canary'.pc = "verdict"
  BY <1>2, <1>4 DEF CutShort, SessionStages
<1>5. CASE Greeted
  <2>1. up /\ canary.pc = "ws" /\ UNCHANGED <<req, upgraded>> /\ Fixed /\ Looks
    BY <1>5 DEF Greeted
  <2>2. CASE is_tripped
    <3>1. CutShort /\ Wrong
      BY <1>5, <2>2 DEF Greeted, Wrong, is_tripped
    <3> QED BY <1>4, <2>1, <3>1 DEF SessionStages
  <2>3. CASE ~is_tripped
    <3>1. At("resolving", canary.failed)
      BY <1>5, <2>3 DEF Greeted
    <3> QED BY <1>2, <1>3, <2>1, <3>1 DEF SessionStages
  <2> QED BY <2>2, <2>3
<1>6. CASE LooksUp
  <2>1. policies[Tester] \in UserPolicy \cup {None}
    BY CanaryAssumption DEF PoliciesOK
  <2> QED BY <1>1, <1>3, <1>6, <2>1 DEF LooksUp, SessionStages
<1>7. CASE Unresolved
  BY <1>4, <1>7 DEF Unresolved, SessionStages, Wrong
<1>8. CASE OpensSession
  BY <1>1, <1>3, <1>8 DEF OpensSession, SessionStages
<1>9. CASE SessionChecks
  <2>1. PICK answered \in BOOLEAN :
          At("verdict", \/ canary.failed
                        \/ ~is_tripped /\ (upgraded \/ (answered /\ Shows(canary.ev))))
    BY <1>9 DEF SessionChecks
  <2> DEFINE shown == ~is_tripped /\ (upgraded \/ (answered /\ Shows(canary.ev)))
  <2>2. shown \in BOOLEAN /\ (shown => Wrong)
    BY DEF Wrong, Leak
  <2> HIDE DEF shown
  <2>3. At("verdict", canary.failed \/ shown) /\ (canary.failed \/ shown) \in BOOLEAN
    BY <1>3, <2>1, <2>2 DEF shown
  <2>4. canary' \in CanaryState /\ canary'.pc = "verdict" /\ canary'.failed = (canary.failed \/ shown)
    BY <1>2, <2>3 DEF SessionStages
  <2> QED BY <1>9, <2>2, <2>4 DEF SessionChecks, SessionStages
<1>10. CASE Cut
  BY <1>4, <1>10 DEF Cut, SessionStages, Wrong
<1> QED BY <1>5, <1>6, <1>7, <1>8, <1>9, <1>10 DEF SessionStep

\* An edit touches no request, and of the canary no more than its open session.
LEMMA EditShape ==
    ASSUME NEW u, Edit(u)
    PROVE  /\ UNCHANGED <<deployment, reg, ha, up, req, upgraded>> /\ UNCHANGED tripVars
           /\ Put(u) \/ Resave(u) \/ Delete(u)
           /\ \/ UNCHANGED canary
              \/ canary.pc = "session" /\ canary' = [canary EXCEPT !.pc = "closing"]
BY DEF Edit, EditPolicy, Put, Resave, Delete

\* What a step does to the requests: nothing, a restart, one slot freed, one request
\* taken in, or one carried on.
LEMMA RequestStep ==
    ASSUME deployment \in Deployments, Next
    PROVE  \/ UNCHANGED req
           \/ req' = [s \in Slots |-> Idle]
           \/ \E s \in Slots : Set(s, Idle)
           \/ \E s \in Slots, who \in Users \cup {Stranger}, r \in Request : handle(s, who, r)
           \/ \E s \in Slots : Respond(s)
<1>1. CASE CanaryStep
  <2>1. CASE Asks
    BY <2>1, ProbeIsTyped DEF Asks
  <2>2. CASE Begin \/ SessionStep \/ Concludes
    BY <2>2 DEF Begin, SessionStep, Greeted, LooksUp, Unresolved, OpensSession, SessionChecks, Cut,
                Concludes, Passes, Trips, TripsInVain, Verdict
  <2>3. CASE Records \/ TimesOut
    BY <2>3, CanaryAssumption DEF Records, TimesOut
  <2> QED BY <1>1, <2>1, <2>2, <2>3 DEF CanaryStep, SessionStep, Concludes
<1>2. CASE ClientStep
  <2>1. PICK s \in Slots \ {Probe} :
            (\E t \in deployment.traffic : handle(s, t[1], t[2])) \/ Leave(s)
    BY <1>2 DEF ClientStep
  <2> QED BY <2>1, TrafficIsTyped DEF Leave
<1>3. CASE Around
  BY <1>3 DEF Around, Environment, RegistryChanges, HaChanges, OthersAsk,
              Operator, Tick, Crash, Boot, restVars
<1>4. CASE Upgrade
  BY <1>4 DEF Upgrade
<1>5. CASE Served
  BY <1>5 DEF Served
<1>6. CASE \E u \in deployment.edited : Edit(u)
  BY <1>6, EditShape
<1> QED BY <1>1, <1>2, <1>3, <1>4, <1>5, <1>6 DEF Next

\* What a step does to the trip switch.
LEMMA SwitchStep ==
    ASSUME Next
    PROVE  \/ UNCHANGED tripVars \/ Looks \/ (cached' = cached /\ TripFile)
           \/ OperatorTrips \/ OperatorClears \/ TripTick \/ TripStarts
<1>1. ASSUME NEW s, NEW who, NEW r, handle(s, who, r)
      PROVE  UNCHANGED tripVars \/ Looks
  BY <1>1 DEF handle, PassShell, RefuseWrite, RefuseTripped, PassPublic, AskIdentity
<1>2. CASE CanaryStep
  BY <1>1, <1>2 DEF CanaryStep, Begin, Asks, Records, TimesOut, Greeted, LooksUp, Unresolved,
                    OpensSession, SessionChecks, Cut, Passes, Trips, TripsInVain
<1>3. CASE ClientStep
  BY <1>1, <1>3 DEF ClientStep, Leave
<1>4. CASE Around
  BY <1>4 DEF Around, Environment, RegistryChanges, HaChanges, OthersAsk,
              Operator, Tick, Crash, Boot
<1>5. CASE Upgrade \/ Served
  BY <1>5, RespondShape DEF Upgrade, Served
<1>6. CASE \E u \in deployment.edited : Edit(u)
  BY <1>6, EditShape
<1> QED BY <1>2, <1>3, <1>4, <1>5, <1>6 DEF Next

\* What a step does to the policies.
LEMMA PolicyStep ==
    ASSUME deployment \in Deployments, Next
    PROVE  /\ deployment' = deployment
           /\ \/ UNCHANGED policies
              \/ \E u \in Restricted : Put(u) \/ Resave(u) \/ Delete(u)
<1>1. CASE CanaryStep
  BY <1>1 DEF CanaryStep, Begin, Asks, handle, Records, TimesOut, Greeted, LooksUp, Unresolved,
              OpensSession, SessionChecks, Cut, Passes, Trips, TripsInVain, Verdict, Fixed
<1>2. CASE ClientStep
  BY <1>2 DEF ClientStep, handle, Leave, Fixed
<1>3. CASE Around
  BY <1>3 DEF Around, Environment, RegistryChanges, HaChanges, OthersAsk, Operator, Tick, Crash,
              Boot, Fixed
<1>4. CASE Upgrade \/ Served
  BY <1>4, RespondShape DEF Upgrade, Served, Fixed
<1>5. CASE \E u \in deployment.edited : Edit(u)
  <2>1. \A u \in deployment.edited : u \in Restricted
    BY RestAssumption DEF Restricted
  <2> QED BY <1>5, <2>1, EditShape
<1> QED BY <1>1, <1>2, <1>3, <1>4, <1>5 DEF Next

-----------------------------------------------------------------------------
\* Each part of the invariant.

\* The editor and the parser make policies of policies and payloads.
LEMMA ValidatedIsPolicy ==
    ASSUME NEW payload \in Payload, Validated(payload) # PolicyError
    PROVE  Validated(payload).policy \in UserPolicy
<1> DEFINE mapping == editor_to_mapping(payload)
<1>1. mapping # PolicyError /\ Validated(payload) = parse_policy(mapping)
  BY DEF Validated
<1>2. mapping \in Payload
  <2>1. mapping = [payload EXCEPT !.user.name = IF payload.user.id # Nobody THEN Nobody ELSE @,
                                  !.token_creation = IF @ = Falsy THEN FALSE ELSE @]
    BY <1>1 DEF editor_to_mapping
  <2>2. [payload.user EXCEPT !.name = IF payload.user.id # Nobody THEN Nobody ELSE @] \in Match
    BY DEF Payload, Match
  <2> QED BY <2>1, <2>2 DEF Payload
<1>3. parse_policy(mapping) # PolicyError
  BY <1>1
<1> HIDE DEF mapping
<1>4. mapping.token_creation \in BOOLEAN
  BY <1>3 DEF parse_policy
<1>5. ASSUME NEW access
      PROVE  RuleSetOf(mapping, access) \in RuleSet
  BY <1>2 DEF RuleSetOf, RuleSet, Ids, Payload, Rule
<1>6. parse_policy(mapping).policy =
        [read |-> RuleSetOf(mapping, "read"), control |-> RuleSetOf(mapping, "control"),
         token_creation |-> mapping.token_creation, default_dashboard |-> mapping.default,
         allowed_dashboards |-> mapping.allowed]
  BY <1>3 DEF parse_policy
<1> QED BY <1>1, <1>2, <1>4, <1>5, <1>6 DEF UserPolicy, Payload

\* What an admin resaves is a policy in the sense of PolicyFiles.
LEMMA HeldIsParsed ==
    ASSUME PoliciesOK, NEW u \in Restricted, policies[u] # None
    PROVE  [user |-> [id |-> u, name |-> Nobody], policy |-> policies[u]] \in Parsed
BY RestAssumption, FormAssumption DEF PoliciesOK, Restricted, Parsed, Match

\* Policies stay policies.
LEMMA PoliciesStay ==
    ASSUME PoliciesOK, deployment \in Deployments, Next
    PROVE  PoliciesOK'
<1>1. CASE UNCHANGED policies
  BY <1>1 DEF PoliciesOK
<1>2. ASSUME NEW u \in Restricted, Put(u)
      PROVE  PoliciesOK'
  <2>1. PICK payload \in Payloads[u] :
          Validated(payload) # PolicyError
          /\ policies' = [policies EXCEPT ![u] = Validated(payload).policy]
    BY <1>2 DEF Put
  <2>2. payload \in Payload
    BY <2>1, RestAssumption DEF Restricted
  <2>3. Validated(payload).policy \in UserPolicy
    BY <2>1, <2>2, ValidatedIsPolicy
  <2> QED BY <2>1, <2>3 DEF PoliciesOK
<1>3. ASSUME NEW u \in Restricted, Resave(u)
      PROVE  PoliciesOK'
  <2> DEFINE p == [user |-> [id |-> u, name |-> Nobody], policy |-> policies[u]]
  <2>1. policies[u] # None /\ policies' = [policies EXCEPT ![u] = Resaved(p).policy]
    BY <1>3 DEF Resave
  <2>2. Resaved(p).policy \in UserPolicy
    BY <2>1, HeldIsParsed, ResavedKeepsRights
  <2> QED BY <2>1, <2>2 DEF PoliciesOK
<1>4. ASSUME NEW u \in Restricted, Delete(u)
      PROVE  PoliciesOK'
  BY <1>4 DEF Delete, PoliciesOK
<1> QED BY <1>1, <1>2, <1>3, <1>4, PolicyStep

\* The last look at the trip file is no older than the file, unless it saw it.
LEMMA SwitchStays ==
    ASSUME SwitchInv, Next
    PROVE  SwitchInv'
<1> USE CheckIntervalAssumption DEF SwitchInv, TripTypeOK
<1>1. CASE UNCHANGED tripVars
  BY <1>1 DEF tripVars
<1>2. CASE Looks
  BY <1>2 DEF Looks, is_tripped, Due
<1>3. CASE cached' = cached /\ TripFile
  BY <1>3 DEF TripFile
<1>4. CASE OperatorTrips \/ OperatorClears
  <2>1. file' \in BOOLEAN /\ cached' = cached /\ checked' = checked /\ stood' = 0
    BY <1>4, Zenon DEF OperatorTrips, OperatorClears
  <2>2. stood' \in 0 .. CheckInterval /\ checked' \in 0 .. CheckInterval /\ stood' <= checked'
    BY <2>1
  <2> QED BY <2>1, <2>2, Zenon
<1>5. CASE TripTick
  BY <1>5 DEF TripTick, Until
<1>6. CASE TripStarts
  <2>1. file' = file /\ cached' \in BOOLEAN /\ checked' = CheckInterval /\ stood' = stood
    BY <1>6, Zenon DEF TripStarts
  <2>2. stood' \in 0 .. CheckInterval /\ checked' \in 0 .. CheckInterval /\ stood' <= checked'
    BY <2>1
  <2> QED BY <2>1, <2>2, Zenon
<1> QED BY <1>1, <1>2, <1>3, <1>4, <1>5, <1>6, SwitchStep

\* A request stays what it was while it is in flight.
LEMMA SlotsStay ==
    ASSUME deployment \in Deployments, Next,
           req = [s \in Slots |-> req[s]], \A s \in Slots : SlotOK(s)
    PROVE  req' = [s \in Slots |-> req'[s]] /\ \A s \in Slots : SlotOK(s)'
<1>1. CASE UNCHANGED req
  BY <1>1 DEF SlotOK
<1>2. CASE req' = [s \in Slots |-> Idle]
  BY <1>2 DEF SlotOK
<1>3. ASSUME NEW s \in Slots, NEW r, Set(s, r),
             \/ r = Idle \/ r.pc = "done"
             \/ r.pc \in Flight /\ r.request \in Request /\ r.who \in Users \cup {Stranger}
      PROVE  req' = [t \in Slots |-> req'[t]] /\ \A t \in Slots : SlotOK(t)'
  BY <1>3 DEF Set, SlotOK
<1>4. ASSUME NEW s \in Slots, NEW who \in Users \cup {Stranger}, NEW r \in Request,
             handle(s, who, r)
      PROVE  req' = [t \in Slots |-> req'[t]] /\ \A t \in Slots : SlotOK(t)'
  BY <1>3, <1>4 DEF handle, PassShell, RefuseWrite, RefuseTripped, PassPublic, AskIdentity,
                    Forward, Waits, Refuse, Done, Flight
<1>5. ASSUME NEW s \in Slots, Respond(s)
      PROVE  req' = [t \in Slots |-> req'[t]] /\ \A t \in Slots : SlotOK(t)'
  <2>1. req[s].request \in Request /\ req[s].who \in Users \cup {Stranger}
    BY <1>5, RespondShape DEF SlotOK, Flight, Idle
  <2>2. CASE \/ Unauthorized(s) \/ RefuseUnassigned(s) \/ RefuseEndpoint(s)
             \/ Reply(s) \/ ReplyError(s) \/ UpstreamFails(s)
    <3>1. \E status, items : Set(s, Done(status, items))
      BY <2>2 DEF Unauthorized, RefuseUnassigned, RefuseEndpoint, Reply, ReplyError,
                  UpstreamFails, Refuse
    <3> QED BY <1>3, <3>1 DEF Done
  <2>3. CASE PassAdmin(s) \/ Serve(s) \/ ReadBody(s)
    <3>1. \E pc \in Flight : \E ev :
            Set(s, [pc |-> pc, who |-> req[s].who, request |-> req[s].request, ev |-> ev])
      BY <2>3 DEF PassAdmin, Serve, ReadBody, Forward, Waits, Flight
    <3> QED BY <1>3, <2>1, <3>1
  <2>4. CASE DecideCall(s)
    <3>1. CASE Refuse(s, 403)
      BY <1>3, <3>1 DEF Refuse, Done
    <3>2. CASE Forward(s, req[s].who, req[s].request, req[s].ev)
      BY <1>3, <2>1, <3>2 DEF Forward, Waits, Flight
    <3> QED BY <2>4, <3>1, <3>2 DEF DecideCall
  <2> QED BY <1>5, <2>2, <2>3, <2>4 DEF Respond
<1> QED BY <1>1, <1>2, <1>3, <1>4, <1>5, RequestStep

\* A state on its way was readable at one of the moments `readable` remembers.
LEMMA CheckedStay ==
    ASSUME Inv, Next
    PROVE  StatesWereChecked'
<1>1. req' = [s \in Slots |-> req'[s]] /\ \A s \in Slots : SlotOK(s)'
  BY SlotsStay DEF Inv
<1>2. Remembers
  BY DEF Next
<1>3. \A t \in Slots :
         req'[t].pc \in {"reading", "upstream"} /\ req'[t].ev # None =>
           readable'[t] = readable[t] \cup Readable(req'[t].ev, reg')
  BY <1>2 DEF Remembers
<1>4. ASSUME NEW t \in Slots, req'[t] = req[t],
             req'[t].pc \in {"reading", "upstream"} /\ req'[t].ev # None,
             req'[t].request.kind = "state"
      PROVE  req'[t].request.entity \in readable'[t]
  BY <1>3, <1>4 DEF Inv, StatesWereChecked
<1>5. CASE UNCHANGED req
  BY <1>4, <1>5 DEF StatesWereChecked
<1>6. CASE req' = [s \in Slots |-> Idle]
  BY <1>6 DEF StatesWereChecked, Idle
<1>7. ASSUME NEW s \in Slots, NEW r, Set(s, r),
             r.pc \in {"reading", "upstream"} /\ r.ev # None /\ r.request.kind = "state"
               => r.request.entity \in Readable(r.ev, reg')
      PROVE  StatesWereChecked'
  <2> SUFFICES ASSUME NEW t \in Slots, req'[t].pc \in {"reading", "upstream"},
                      req'[t].ev # None, req'[t].request.kind = "state"
               PROVE  req'[t].request.entity \in readable'[t]
    BY DEF StatesWereChecked
  <2>1. CASE t = s
    <3>1. req'[s] = r
      BY <1>7 DEF Set, Inv
    <3> QED BY <1>3, <1>7, <2>1, <3>1
  <2>2. CASE t # s
    <3>1. req'[t] = req[t]
      BY <1>7, <2>2 DEF Set, Inv
    <3> QED BY <1>4, <3>1
  <2> QED BY <2>1, <2>2
<1>8. ASSUME NEW s \in Slots, NEW who, NEW r, handle(s, who, r)
      PROVE  StatesWereChecked'
  BY <1>7, <1>8 DEF handle, PassShell, RefuseWrite, RefuseTripped, PassPublic, AskIdentity,
                    Forward, Waits, Refuse, Done
<1>9. ASSUME NEW s \in Slots, Respond(s)
      PROVE  StatesWereChecked'
  <2> DEFINE q == req[s]
  <2>1. reg' = reg /\ q.request \in Request
    BY <1>9, RespondShape DEF Fixed, Inv, SlotOK, Flight, Idle
  <2>2. CASE Serve(s)
    <3>1. q.request.kind = "state" =>
            q.request.entity \in Readable(policies[q.who], reg)
      BY <2>1, <2>2 DEF Serve, Readable, Request, ShellKinds, ApiKinds
    <3> QED BY <1>7, <2>1, <2>2, <3>1 DEF Serve, Forward, Waits
  <2>3. CASE ReadBody(s)
    BY <1>7, <2>3 DEF ReadBody, Waits
  <2>4. CASE DecideCall(s)
    <3>1. q.pc = "reading"
      BY <2>4 DEF DecideCall
    <3>2. CASE Refuse(s, 403)
      BY <1>7, <3>2 DEF Refuse, Done
    <3>3. CASE Forward(s, q.who, q.request, q.ev)
      <4> SUFFICES ASSUME q.ev # None, q.request.kind = "state"
                   PROVE  StatesWereChecked'
        BY <1>7, <3>3 DEF Forward, Waits
      <4>1. q.request.entity \in readable[s]
        BY <3>1 DEF Inv, StatesWereChecked
      <4>2. req'[s] = [pc |-> "upstream", who |-> q.who, request |-> q.request, ev |-> q.ev]
        BY <3>3 DEF Forward, Waits, Set, Inv
      <4>3. \A t \in Slots \ {s} : req'[t] = req[t]
        BY <3>3 DEF Forward, Waits, Set, Inv
      <4> QED BY <1>3, <1>4, <4>1, <4>2, <4>3 DEF StatesWereChecked
    <3> QED BY <2>4, <3>2, <3>3 DEF DecideCall
  <2>5. CASE PassAdmin(s)
    BY <1>7, <2>5 DEF PassAdmin, Forward, Waits
  <2>6. CASE \/ Unauthorized(s) \/ RefuseUnassigned(s) \/ RefuseEndpoint(s)
             \/ Reply(s) \/ ReplyError(s) \/ UpstreamFails(s)
    <3>1. \E status, items : Set(s, Done(status, items))
      BY <2>6 DEF Unauthorized, RefuseUnassigned, RefuseEndpoint, Reply, ReplyError,
                  UpstreamFails, Refuse
    <3> QED BY <1>7, <3>1 DEF Done
  <2> QED BY <1>9, <2>2, <2>3, <2>4, <2>5, <2>6 DEF Respond
<1>10. ASSUME NEW s \in Slots, Set(s, Idle)
       PROVE  StatesWereChecked'
  BY <1>7, <1>10 DEF Idle
<1> QED BY <1>5, <1>6, <1>8, <1>9, <1>10, RequestStep DEF Inv

\* The invariant holds at first.
LEMMA InvInit == Init => Inv
<1> SUFFICES ASSUME Init PROVE Inv
  OBVIOUS
<1>1. deployment \in Deployments /\ PoliciesOK
  BY RestAssumption DEF Init, RestInit, PoliciesOK, Restricted
<1>2. req = [s \in Slots |-> req[s]] /\ \A s \in Slots : SlotOK(s)
  BY DEF Init, RestInit, SlotOK
<1>3. StatesWereChecked
  BY DEF Init, RestInit, StatesWereChecked, Idle
<1>4. SwitchInv
  <2>1. TripInit
    BY DEF Init, RestInit
  <2>2. file \in BOOLEAN /\ cached \in BOOLEAN /\ checked = CheckInterval
    BY <2>1, Zenon DEF TripInit
  <2>3. stood = CheckInterval \/ stood = 0
    BY <2>1, Zenon DEF TripInit
  <2>4. /\ checked \in 0 .. CheckInterval /\ stood \in 0 .. CheckInterval
        /\ stood <= checked
    BY <2>2, <2>3, CheckIntervalAssumption
  <2> QED BY <2>2, <2>4, Zenon DEF SwitchInv, TripTypeOK
<1> QED BY <1>1, <1>2, <1>3, <1>4 DEF Inv

\* And every step keeps it.
LEMMA InvNext == Inv /\ [Next]_vars => Inv'
<1> SUFFICES ASSUME Inv, [Next]_vars PROVE Inv'
  OBVIOUS
<1>1. CASE UNCHANGED vars
  BY <1>1 DEF vars, restVars, tripVars, Inv, PoliciesOK, SlotOK, SwitchInv, TripTypeOK,
              StatesWereChecked
<1>2. CASE Next
  <2>1. deployment' \in Deployments /\ PoliciesOK'
    BY <1>2, PolicyStep, PoliciesStay DEF Inv
  <2>2. req' = [s \in Slots |-> req'[s]] /\ \A s \in Slots : SlotOK(s)'
    BY <1>2, SlotsStay DEF Inv
  <2>3. SwitchInv' /\ StatesWereChecked'
    BY <1>2, SwitchStays, CheckedStay DEF Inv
  <2> QED BY <2>1, <2>2, <2>3 DEF Inv
<1> QED BY <1>1, <1>2

\* It holds always.
LEMMA Invariance == Spec => []Inv
BY InvInit, InvNext, PTL DEF Spec

-----------------------------------------------------------------------------
\* The theorems.

\* No API request gets past a trip switch that the canary has thrown, and none
\* gets past a file made by hand once the check interval is over, also not in a
\* process that has just started (is_tripped, trip, _handle_api).
THEOREM TrippedStaysShut == Spec => TripBites
<1>1. ASSUME Inv, Next, NEW s \in Slots, Enters(s)
      PROVE  ~file \/ stood < CheckInterval
  <2>1. PICK who, r : handle(s, who, r)
    <3>1. req[s].pc = "idle"
      BY <1>1 DEF Enters, Idle
    <3>2. req'[s].pc \in {"resolving", "upstream"}
      BY <1>1 DEF Enters
    <3>3. CASE UNCHANGED req
      BY <3>1, <3>2, <3>3
    <3>4. CASE req' = [t \in Slots |-> Idle]
      BY <3>2, <3>4 DEF Idle
    <3>5. ASSUME NEW t \in Slots, Set(t, Idle)
          PROVE  FALSE
      BY <1>1, <3>1, <3>2, <3>5 DEF Set, Idle, Inv
    <3>6. ASSUME NEW t \in Slots, Respond(t)
          PROVE  FALSE
      <4>1. t # s
        BY <3>1, <3>6, RespondShape DEF Flight
      <4>2. req'[s] = req[s]
        BY <1>1, <3>6, <4>1, RespondShape DEF Set, Inv
      <4> QED BY <3>1, <3>2, <4>2
    <3>7. ASSUME NEW t \in Slots, NEW who, NEW r, handle(t, who, r)
          PROVE  t = s
      <4>1. \E x : Set(t, x)
        BY <3>7 DEF handle, PassShell, RefuseWrite, RefuseTripped, PassPublic, AskIdentity,
                    Forward, Waits, Refuse
      <4> QED BY <1>1, <3>1, <3>2, <4>1 DEF Set, Inv
    <3> QED BY <1>1, <3>3, <3>4, <3>5, <3>6, <3>7, RequestStep DEF Inv
  <2>2. ~is_tripped
    <3>1. CASE PassShell(s, who, r)
      BY <1>1, <3>1 DEF PassShell, Forward, Waits, Set, Inv, Enters
    <3>2. CASE RefuseWrite(s, r) \/ RefuseTripped(s, r)
      BY <1>1, <3>2 DEF RefuseWrite, RefuseTripped, Refuse, Done, Set, Inv, Enters
    <3> QED BY <2>1, <3>1, <3>2 DEF handle, PassPublic, AskIdentity
  <2>3. CASE Due
    BY <2>2, <2>3 DEF is_tripped
  <2>4. CASE ~Due
    <3>1. ~cached
      BY <2>2, <2>4 DEF is_tripped
    <3>2. file => stood <= checked
      BY <1>1, <3>1, Zenon DEF Inv, SwitchInv
    <3>3. stood <= checked => stood < CheckInterval
      BY <1>1, <2>4, CheckIntervalAssumption DEF Inv, SwitchInv, TripTypeOK, Due
    <3> QED BY <3>2, <3>3, Zenon
  <2> QED BY <2>3, <2>4
<1>2. Inv /\ [Next]_vars =>
         [\A s \in Slots : Enters(s) => ~file \/ stood < CheckInterval]_vars
  BY <1>1
<1> QED BY <1>2, Invariance, PTL DEF Spec, TripBites

\* A REST answer tells a restricted user nothing its policy could not read at some
\* moment between the lookup of the policy and the answer, whatever happens to the
\* registry in between (_states_list, _state_single, _config_redacted, _call_service).
THEOREM RestNothingHidden == Spec => RestTellsOnlyReadable
<1> DEFINE Bound(s) == readable[s] \cup
             (IF req[s].ev = None THEN {} ELSE Readable(req[s].ev, reg))
<1>1. ASSUME Inv, Next, NEW s \in Slots, Answers(s)
      PROVE  req'[s].told \subseteq Bound(s)
  <2>1. Respond(s)
    <3>1. req[s].pc # "idle" /\ req[s].pc # "done" /\ req'[s].pc = "done"
      BY <1>1 DEF Answers
    <3>2. ~UNCHANGED req /\ req' # [t \in Slots |-> Idle]
      BY <3>1 DEF Idle
    <3>3. ASSUME NEW t \in Slots, NEW x, Set(t, x)
          PROVE  t = s /\ req'[s] = x
      BY <1>1, <3>1, <3>3 DEF Set, Inv
    <3>4. ASSUME NEW t \in Slots, Set(t, Idle)
          PROVE  FALSE
      BY <3>1, <3>3, <3>4 DEF Idle
    <3>5. ASSUME NEW t \in Slots, NEW who, NEW r, handle(t, who, r)
          PROVE  FALSE
      <4>1. req[t] = Idle /\ \E x : Set(t, x)
        BY <3>5 DEF handle, PassShell, RefuseWrite, RefuseTripped, PassPublic, AskIdentity,
                    Forward, Waits, Refuse
      <4> QED BY <3>1, <3>3, <4>1 DEF Idle
    <3>6. ASSUME NEW t \in Slots, Respond(t)
          PROVE  t = s
      BY <3>3, <3>6, RespondShape
    <3> QED BY <1>1, <3>2, <3>4, <3>5, <3>6, RequestStep DEF Inv
  <2> DEFINE q == req[s]
  <2>2. ASSUME NEW status, NEW items, Set(s, Done(status, items)), items \subseteq Bound(s)
        PROVE  req'[s].told \subseteq Bound(s)
    BY <1>1, <2>2 DEF Set, Done, Inv
  <2>3. CASE \/ Unauthorized(s) \/ RefuseUnassigned(s) \/ RefuseEndpoint(s)
             \/ ReplyError(s) \/ UpstreamFails(s)
    <3>1. \E status : Set(s, Done(status, {}))
      BY <2>3 DEF Unauthorized, RefuseUnassigned, RefuseEndpoint, ReplyError, UpstreamFails, Refuse
    <3> QED BY <2>2, <3>1
  <2>4. CASE PassAdmin(s) \/ Serve(s) \/ ReadBody(s)
    BY <1>1, <2>4 DEF PassAdmin, Serve, ReadBody, Forward, Waits, Set, Inv, Answers
  <2>5. CASE DecideCall(s)
    <3>1. CASE Refuse(s, 403)
      BY <2>2, <3>1 DEF Refuse
    <3>2. CASE Forward(s, q.who, q.request, q.ev)
      BY <1>1, <3>2 DEF Forward, Waits, Set, Inv, Answers
    <3> QED BY <2>5, <3>1, <3>2 DEF DecideCall
  <2>6. CASE Reply(s)
    <3>1. CASE q.ev = None
      BY <2>2, <2>6, <3>1 DEF Reply
    <3>2. CASE q.ev # None
      <4>1. PICK odd \in BOOLEAN : Set(s, Done(200, told(q, odd)))
        BY <2>6, <3>2 DEF Reply
      <4>2. q.pc = "upstream"
        BY <2>6 DEF Reply, Upstream
      <4>3. CASE odd
        BY <2>2, <4>1, <4>3 DEF told
      <4>4. CASE ~odd /\ q.request.kind \in {"states", "service"}
        <5>1. told(q, odd) = filter_states(q.ev, reg, HaContent(q.request))
          BY <4>4 DEF told
        <5>2. told(q, odd) \subseteq Readable(q.ev, reg)
          BY <5>1 DEF filter_states, Readable
        <5> QED BY <2>2, <3>2, <4>1, <5>2
      <4>5. CASE ~odd /\ q.request.kind = "state"
        <5>1. told(q, odd) = {q.request.entity}
          BY <4>5 DEF told, HaContent
        <5>2. q.request.entity \in readable[s]
          BY <1>1, <3>2, <4>2, <4>5 DEF Inv, StatesWereChecked
        <5> QED BY <2>2, <4>1, <5>1, <5>2
      <4>6. CASE ~odd /\ q.request.kind \notin {"states", "service", "state"}
        <5>1. told(q, odd) = {}
          BY <4>6 DEF told, HaContent
        <5> QED BY <2>2, <4>1, <5>1
      <4> QED BY <4>3, <4>4, <4>5, <4>6
    <3> QED BY <3>1, <3>2
  <2> QED BY <2>1, <2>3, <2>4, <2>5, <2>6 DEF Respond
<1>2. Inv /\ [Next]_vars =>
         [\A s \in Slots : Answers(s) => req'[s].told \subseteq Bound(s)]_vars
  BY <1>1
<1> QED BY <1>2, Invariance, PTL DEF Spec, RestTellsOnlyReadable

\* An edit that saves a policy as it was takes no right away and gives none, for
\* every policy a user can have (get_policy, put_policy).
THEOREM ResavingKeepsRights == Spec => ResaveKeepsRights
<1>1. ASSUME Inv, NEW u \in Restricted, Resave(u)
      PROVE  SameRights(policies[u], policies'[u])
  <2> DEFINE p == [user |-> [id |-> u, name |-> Nobody], policy |-> policies[u]]
  <2>1. policies[u] # None /\ policies' = [policies EXCEPT ![u] = Resaved(p).policy]
    BY <1>1 DEF Resave
  <2>2. p \in Parsed
    BY <1>1, <2>1, HeldIsParsed DEF Inv
  <2>3. SameRights(policies[u], Resaved(p).policy)
    BY <2>2, ResavedKeepsRights
  <2>4. policies'[u] = Resaved(p).policy
    BY <1>1, <2>1 DEF Inv, PoliciesOK
  <2> QED BY <2>3, <2>4
<1>2. Inv /\ [Next]_vars =>
         [\A u \in Restricted : Resave(u) => SameRights(policies[u], policies'[u])]_vars
  BY <1>1
<1> QED BY <1>2, Invariance, PTL DEF Spec, ResaveKeepsRights

-----------------------------------------------------------------------------
\* Type correctness.

Statuses == {200, 400, 401, 403, 500, 503}

\* A slot's content as TypeOK has it.
Typed(q) ==
    \/ q = Idle
    \/ q.pc = "done" /\ q.status \in Statuses
    \/ /\ q.pc \in Flight
       /\ [who |-> q.who, request |-> q.request, ev |-> q.ev] \in InFlight
       /\ q.pc # "resolving" /\ Judged(q) => q.ev # None

LEMMA TypeOKIsTyped == TypeOK => \A s \in Slots : Typed(req[s])
BY DEF TypeOK, Typed, Flight, Statuses

\* An answer is typed whatever it tells, and so is a request that waits.
LEMMA AnswerIsTyped ==
    ASSUME NEW status \in Statuses, NEW items
    PROVE  Typed(Done(status, items))
BY DEF Typed, Done

LEMMA WaitIsTyped ==
    ASSUME NEW pc \in Flight, NEW who \in Users \cup {Stranger}, NEW r \in Request,
           NEW ev \in UserPolicy \cup {None},
           pc # "resolving" /\ who \in Restricted /\ r.kind \notin ShellKinds \cup {"public"}
             => ev # None
    PROVE  Typed([pc |-> pc, who |-> who, request |-> r, ev |-> ev])
BY DEF Typed, InFlight, Judged

\* What waits in a typed slot is typed part by part.
LEMMA FlightIsTyped ==
    ASSUME NEW q, Typed(q), q.pc \in Flight
    PROVE  /\ q.who \in Users \cup {Stranger} /\ q.request \in Request
           /\ q.ev \in UserPolicy \cup {None}
           /\ q.pc # "resolving" /\ q.who \in Restricted
                /\ q.request.kind \notin ShellKinds \cup {"public"} => q.ev # None
<1>1. [who |-> q.who, request |-> q.request, ev |-> q.ev] \in InFlight
  BY DEF Typed, Flight, Idle
<1>2. q.pc # "resolving" /\ Judged(q) => q.ev # None
  BY DEF Typed, Flight, Idle
<1> QED BY <1>1, <1>2 DEF InFlight, Judged

\* A request that was taken in is typed.
LEMMA TakenIsTyped ==
    ASSUME NEW s \in Slots, NEW who \in Users \cup {Stranger}, NEW r \in Request, handle(s, who, r)
    PROVE  \E x : Set(s, x) /\ Typed(x)
<1>1. CASE PassShell(s, who, r) \/ PassPublic(s, who, r)
  <2>1. /\ Set(s, [pc |-> "upstream", who |-> who, request |-> r, ev |-> None])
        /\ r.kind \in ShellKinds \cup {"public"}
    BY <1>1 DEF PassShell, PassPublic, Forward, Waits
  <2> QED BY <2>1, WaitIsTyped DEF Flight
<1>2. CASE RefuseWrite(s, r) \/ RefuseTripped(s, r)
  <2>1. \E status \in Statuses : Set(s, Done(status, {}))
    BY <1>2 DEF RefuseWrite, RefuseTripped, Refuse, Statuses
  <2> QED BY <2>1, AnswerIsTyped
<1>3. CASE AskIdentity(s, who, r)
  <2>1. Set(s, [pc |-> "resolving", who |-> who, request |-> r, ev |-> None])
    BY <1>3 DEF AskIdentity, Waits
  <2> QED BY <2>1, WaitIsTyped DEF Flight
<1> QED BY <1>1, <1>2, <1>3 DEF handle

\* So is one that was answered or moved on: past the endpoint checks a restricted
\* user's request has the evaluator of its policy.
LEMMA MovedIsTyped ==
    ASSUME NEW s \in Slots, PoliciesOK, Typed(req[s]), Respond(s)
    PROVE  \E x : Set(s, x) /\ Typed(x)
<1> DEFINE q == req[s]
<1>1. /\ q.who \in Users \cup {Stranger} /\ q.request \in Request
      /\ q.ev \in UserPolicy \cup {None}
      /\ q.pc # "resolving" /\ q.who \in Restricted
           /\ q.request.kind \notin ShellKinds \cup {"public"} => q.ev # None
  BY RespondShape, FlightIsTyped
<1>2. CASE \/ Unauthorized(s) \/ RefuseUnassigned(s) \/ RefuseEndpoint(s)
           \/ Reply(s) \/ ReplyError(s) \/ UpstreamFails(s)
  <2>1. \E status \in Statuses : \E items : Set(s, Done(status, items))
    BY <1>2 DEF Unauthorized, RefuseUnassigned, RefuseEndpoint, Reply, ReplyError, UpstreamFails,
                Refuse, Statuses
  <2> QED BY <2>1, AnswerIsTyped
<1>3. CASE PassAdmin(s)
  <2>1. q.who \in Admins /\ Set(s, [pc |-> "upstream", who |-> q.who, request |-> q.request, ev |-> None])
    BY <1>3 DEF PassAdmin, Forward, Waits
  <2> QED BY <1>1, <2>1, WaitIsTyped DEF Flight, Restricted
<1>4. CASE Serve(s) \/ ReadBody(s)
  <2>1. /\ q.who \in Restricted /\ policies[q.who] # None
        /\ \E pc \in Flight :
             Set(s, [pc |-> pc, who |-> q.who, request |-> q.request, ev |-> policies[q.who]])
    BY <1>4 DEF Serve, ReadBody, Assigned, Forward, Waits, Flight
  <2>2. policies[q.who] \in UserPolicy \cup {None}
    BY <2>1 DEF PoliciesOK
  <2> QED BY <1>1, <2>1, <2>2, WaitIsTyped
<1>5. CASE DecideCall(s)
  <2>1. CASE Refuse(s, 403)
    BY <2>1, AnswerIsTyped DEF Refuse, Statuses
  <2>2. CASE Forward(s, q.who, q.request, q.ev)
    <3>1. q.pc = "reading"
      BY <1>5 DEF DecideCall
    <3> QED BY <1>1, <2>2, <3>1, WaitIsTyped DEF Forward, Waits, Flight
  <2> QED BY <1>5, <2>1, <2>2 DEF DecideCall
<1> QED BY <1>2, <1>3, <1>4, <1>5 DEF Respond

\* The slots of every step.
LEMMA SlotsAreTyped ==
    ASSUME Inv, Next, \A s \in Slots : Typed(req[s])
    PROVE  \A s \in Slots : Typed(req'[s])
<1>1. ASSUME NEW s \in Slots, NEW x, Set(s, x), Typed(x)
      PROVE  \A t \in Slots : Typed(req'[t])
  <2>1. \A t \in Slots : req'[t] = IF t = s THEN x ELSE req[t]
    BY <1>1 DEF Set, Inv
  <2> QED BY <1>1, <2>1
<1>2. Typed(Idle)
  BY DEF Typed
<1>3. CASE UNCHANGED req \/ req' = [s \in Slots |-> Idle]
  BY <1>2, <1>3
<1>4. ASSUME NEW s \in Slots, Set(s, Idle) PROVE \A t \in Slots : Typed(req'[t])
  BY <1>1, <1>2, <1>4
<1>5. ASSUME NEW s \in Slots, NEW who \in Users \cup {Stranger}, NEW r \in Request,
             handle(s, who, r)
      PROVE  \A t \in Slots : Typed(req'[t])
  BY <1>1, <1>5, TakenIsTyped
<1>6. ASSUME NEW s \in Slots, Respond(s) PROVE \A t \in Slots : Typed(req'[t])
  BY <1>1, <1>6, MovedIsTyped DEF Inv
<1> QED BY <1>3, <1>4, <1>5, <1>6, RequestStep DEF Inv

\* The rest of the house: the snapshot, Home Assistant, the process.
LEMMA SurroundingsAreTyped ==
    ASSUME Next, reg \in Snapshot, ha \in {"up", "down", "mute"}, up \in BOOLEAN
    PROVE  reg' \in Snapshot /\ ha' \in {"up", "down", "mute"} /\ up' \in BOOLEAN
<1>1. CASE CanaryStep
  BY <1>1 DEF CanaryStep, Begin, Asks, handle, Records, TimesOut, Greeted, LooksUp, Unresolved,
              OpensSession, SessionChecks, Cut, Passes, Trips, TripsInVain, Verdict, Fixed
<1>2. CASE ClientStep
  BY <1>2 DEF ClientStep, handle, Leave, Fixed
<1>3. CASE Around
  BY <1>3, RestAssumption DEF Around, Environment, RegistryChanges, HaChanges, OthersAsk,
                              Operator, Tick, Crash, Boot, Fixed
<1>4. CASE Upgrade \/ Served
  BY <1>4, RespondShape DEF Upgrade, Served, Fixed
<1>5. CASE \E u \in deployment.edited : Edit(u)
  BY <1>5, EditShape
<1> QED BY <1>1, <1>2, <1>3, <1>4, <1>5 DEF Next

\* The loop of the canary.
LEMMA CanaryIsTyped ==
    ASSUME PoliciesOK, Next, canary \in CanaryState, upgraded \in BOOLEAN
    PROVE  canary' \in CanaryState /\ upgraded' \in BOOLEAN
<1>1. ASSUME NEW pc \in RestChecks \cup {"sleeping", "ws"}, NEW failed \in BOOLEAN, At(pc, failed)
      PROVE  canary' \in CanaryState
  BY <1>1 DEF At, Reach, CanaryState, SessionStages
<1>2. CASE Begin
  BY <1>1, <1>2 DEF Begin, RestChecks
<1>3. CASE Records
  <2>1. NextCheck[canary.pc] \in RestChecks \cup {"sleeping", "ws"}
    BY <1>3 DEF Records, NextCheck, RestChecks
  <2>2. (canary.failed \/ req[Probe].status # Expected[canary.pc]) \in BOOLEAN
    BY DEF CanaryState
  <2> QED BY <1>1, <1>3, <2>1, <2>2 DEF Records
<1>4. CASE TimesOut \/ Concludes
  BY <1>4 DEF TimesOut, Concludes, Passes, Trips, TripsInVain, Verdict, EndsRun, CanaryState
<1>5. CASE Asks \/ ClientStep \/ Upgrade \/ Served
  BY <1>5 DEF Asks, ClientStep, Upgrade, Served
<1>6. CASE Around
  BY <1>6 DEF Around, Sleeping, CanaryState
<1>7. CASE SessionStep
  BY <1>7, SessionShape
<1>8. CASE \E u \in deployment.edited : Edit(u)
  <2>1. [canary EXCEPT !.pc = "closing"] \in CanaryState
    BY DEF CanaryState, SessionStages
  <2> QED BY <1>8, <2>1, EditShape
<1> QED BY <1>2, <1>3, <1>4, <1>5, <1>6, <1>7, <1>8
        DEF Next, CanaryStep, SessionStep, Concludes, Begin, Records

\* Every reachable state is well typed; in particular no request of a restricted
\* user gets past the endpoint checks without the evaluator its answer is filtered by
\* (_handle_api, _call_service).
THEOREM CanaryTypeCorrect == Spec => []TypeOK
<1>1. Init => TypeOK
  <2> SUFFICES ASSUME Init PROVE TypeOK
    OBVIOUS
  <2>1. TripTypeOK /\ policies \in [Restricted -> UserPolicy \cup {None}]
    BY InvInit DEF Inv, SwitchInv, PoliciesOK
  <2>2. reg \in Snapshot /\ ha \in {"up", "down", "mute"} /\ up \in BOOLEAN
    BY RestAssumption DEF Init, RestInit
  <2>3. \A s \in Slots : req[s] = Idle
    BY DEF Init, RestInit
  <2>4. canary \in CanaryState /\ cause \in BOOLEAN /\ upgraded \in BOOLEAN
    BY DEF Init, Sleeping, CanaryState
  <2> QED BY <2>1, <2>2, <2>3, <2>4 DEF TypeOK, CanaryState
<1>2. Inv /\ Inv' /\ TypeOK /\ [Next]_vars => TypeOK'
  <2> SUFFICES ASSUME Inv, Inv', TypeOK, [Next]_vars PROVE TypeOK'
    OBVIOUS
  <2>1. CASE Next
    <3>1. TripTypeOK' /\ policies' \in [Restricted -> UserPolicy \cup {None}]
      BY DEF Inv, SwitchInv, PoliciesOK
    <3>2. reg' \in Snapshot /\ ha' \in {"up", "down", "mute"} /\ up' \in BOOLEAN
      BY <2>1, SurroundingsAreTyped DEF TypeOK
    <3>3. \A s \in Slots : Typed(req'[s])
      BY <2>1, TypeOKIsTyped, SlotsAreTyped
    <3>4. canary' \in CanaryState /\ upgraded' \in BOOLEAN
      <4>1. canary \in CanaryState /\ upgraded \in BOOLEAN /\ PoliciesOK
        BY DEF TypeOK, CanaryState, PoliciesOK
      <4> QED BY <2>1, <4>1, CanaryIsTyped
    <3>5. cause' \in BOOLEAN
      BY <2>1 DEF Next, RemembersCause
    <3> QED BY <3>1, <3>2, <3>3, <3>4, <3>5
               DEF TypeOK, Typed, Flight, Statuses, CanaryState
  <2>2. CASE UNCHANGED vars
    BY <2>2 DEF vars, restVars, tripVars, TypeOK, TripTypeOK
  <2> QED BY <2>1, <2>2
<1> QED BY <1>1, <1>2, Invariance, PTL DEF Spec

-----------------------------------------------------------------------------
\* Service calls.

\* A service call of a restricted user leaves for Home Assistant only if the policy
\* allows control of every entity it reaches by the registry of that moment - not by
\* the one from before its body arrived (_call_service).
THEOREM RestCallsAreInScope == Spec => RestCallsInScope
<1>1. ASSUME Inv, Next, NEW s \in Slots, req[s].pc = "reading", req'[s].pc = "upstream"
      PROVE  \A e \in CallTargets(reg, req[s].request.call.about) :
               allowed_control(req[s].ev, reg, e)
  <2>1. ASSUME NEW t \in Slots, NEW x, Set(t, x)
        PROVE  t = s /\ req'[s] = x
    BY <1>1, <2>1 DEF Set, Inv
  <2>2. ~UNCHANGED req /\ req' # [t \in Slots |-> Idle]
    BY <1>1 DEF Idle
  <2>3. ASSUME NEW t \in Slots, Set(t, Idle) PROVE FALSE
    BY <1>1, <2>1, <2>3 DEF Idle
  <2>4. ASSUME NEW t \in Slots, NEW who, NEW r, handle(t, who, r) PROVE FALSE
    <3>1. req[t] = Idle /\ \E x : Set(t, x)
      BY <2>4 DEF handle, PassShell, RefuseWrite, RefuseTripped, PassPublic, AskIdentity,
                  Forward, Waits, Refuse
    <3> QED BY <1>1, <2>1, <3>1 DEF Idle
  <2>5. ASSUME NEW t \in Slots, Respond(t) PROVE t = s
    BY <2>1, <2>5, RespondShape
  <2>6. Respond(s)
    BY <1>1, <2>2, <2>3, <2>4, <2>5, RequestStep DEF Inv
  <2>7. DecideCall(s)
    <3>1. ~Resolving(s) /\ ~Upstream(s)
      BY <1>1 DEF Resolving, Upstream
    <3> QED BY <2>6, <3>1 DEF Respond, Unauthorized, PassAdmin, RefuseUnassigned, RefuseEndpoint,
               Serve, ReadBody, Reply, ReplyError, UpstreamFails, Identified, Assigned
  <2>8. service_call_allowed(req[s].ev, reg, req[s].request.call)
    <3>1. ASSUME Refuse(s, 403) PROVE FALSE
      BY <1>1, <2>1, <3>1 DEF Refuse, Done
    <3> QED BY <2>7, <3>1 DEF DecideCall
  <2> QED BY <2>8 DEF service_call_allowed
<1>2. Inv /\ [Next]_vars =>
         [\A s \in Slots : req[s].pc = "reading" /\ req'[s].pc = "upstream" =>
            \A e \in CallTargets(reg, req[s].request.call.about) :
               allowed_control(req[s].ev, reg, e)]_vars
  BY <1>1
<1> QED BY <1>2, Invariance, PTL DEF Spec, RestCallsInScope

-----------------------------------------------------------------------------
\* The canary trips the gateway only for cause.

\* The canary's slot holds the request of the check it is at, and nothing else.
ProbeOK ==
    /\ ~up => canary.pc = "sleeping"
    /\ canary.pc \notin RestChecks => req[Probe] = Idle
    /\ canary.pc \in RestChecks =>
          \/ req[Probe] = Idle
          \/ req[Probe].pc = "done"
          \/ /\ req[Probe].pc \in {"resolving", "upstream"}
             /\ req[Probe].who = Tester /\ req[Probe].request = Asked[canary.pc]

\* Whatever will make the run fail was wrong at some moment of the run: what is wrong
\* now, a check that has failed, a forbidden request Home Assistant was asked, an
\* answer that is not the expected one.
CauseKnown ==
    canary.pc # "sleeping" =>
        /\ Wrong => cause
        /\ canary.failed => cause
        /\ canary.pc # "allowed" /\ req[Probe].pc = "upstream" => cause
        /\ canary.pc \in RestChecks /\ req[Probe].pc = "done"
             /\ req[Probe].status # Expected[canary.pc] => cause

\* The slot belongs to the canary alone: what others do passes it by.
PassesBy == UNCHANGED canary /\ (up' \/ up' = up) /\ req'[Probe] = req[Probe]

\* What a step does to the canary and its slot.
LEMMA ProbeStep ==
    ASSUME Inv, ProbeOK, Next
    PROVE  \/ Begin \/ Asks \/ Records \/ TimesOut \/ SessionStep
           \/ EndsRun /\ canary.pc = "verdict" /\ UNCHANGED <<req, up>>
           \/ /\ canary.pc = "session" /\ canary' = [canary EXCEPT !.pc = "closing"]
              /\ UNCHANGED <<req, up>>
           \/ PassesBy
           \/ UNCHANGED <<canary, up>> /\ Respond(Probe)
           \/ ~up' /\ canary' = Sleeping /\ req'[Probe] = Idle
<1>1. CASE CanaryStep
  BY <1>1 DEF CanaryStep, SessionStep, Passes, Trips, TripsInVain, Verdict, SessionAt, Fixed
<1>2. ASSUME NEW s \in Slots \ {Probe}, \E x : Set(s, x)
      PROVE  req'[Probe] = req[Probe]
  BY <1>2, CanaryAssumption DEF Set, Inv
<1>3. CASE ClientStep
  <2>1. PICK s \in Slots \ {Probe} :
            (\E t \in deployment.traffic : handle(s, t[1], t[2])) \/ Leave(s)
    BY <1>3 DEF ClientStep
  <2>2. (\E x : Set(s, x)) /\ up' = up
    BY <2>1 DEF handle, PassShell, RefuseWrite, RefuseTripped, PassPublic, AskIdentity,
                Forward, Waits, Refuse, Leave, Fixed
  <2> QED BY <1>2, <1>3, <2>1, <2>2 DEF ClientStep, PassesBy
<1>4. CASE Around
  <2>1. CASE up'
    <3>1. UNCHANGED <<canary, req>>
      BY <1>4, <2>1 DEF Around, Environment, RegistryChanges, HaChanges,
                        OthersAsk, Operator, Tick, Crash, Boot
    <3> QED BY <2>1, <3>1 DEF PassesBy
  <2>2. CASE ~up'
    <3>1. canary' = Sleeping /\ (req' = [s \in Slots |-> Idle] \/ (up' = up /\ UNCHANGED req))
      BY <1>4, <2>2 DEF Around, Environment, RegistryChanges, HaChanges,
                        OthersAsk, Operator, Tick, Crash, Boot, Fixed
    <3>2. req'[Probe] = Idle
      BY <2>2, <3>1, CanaryAssumption DEF ProbeOK, RestChecks
    <3> QED BY <2>2, <3>1, <3>2
  <2> QED BY <2>1, <2>2
<1>5. CASE Upgrade
  BY <1>5 DEF Upgrade, Fixed, PassesBy
<1>6. CASE Served
  <2>1. PICK s \in Slots : Respond(s)
    BY <1>6 DEF Served
  <2>2. UNCHANGED <<canary, up>> /\ \E x : Set(s, x)
    BY <1>6, <2>1, RespondShape DEF Served, Fixed
  <2> QED BY <1>2, <2>1, <2>2 DEF PassesBy
<1>7. CASE \E u \in deployment.edited : Edit(u)
  BY <1>7, EditShape DEF PassesBy
<1> QED BY <1>1, <1>3, <1>4, <1>5, <1>6, <1>7 DEF Next

\* The canary's requests, and the answers it expects of them.
LEMMA Checks ==
    ASSUME NEW check \in RestChecks
    PROVE  /\ check = "allowed" => /\ Asked[check] = [kind |-> "state", entity |-> Allowed]
                                   /\ Expected[check] = 200
           /\ check = "forbidden" => /\ Asked[check] = [kind |-> "state", entity |-> Forbidden]
                                     /\ Expected[check] = 403
           /\ check = "template" => Asked[check] = [kind |-> "denied"] /\ Expected[check] = 403
           /\ Asked[check].kind \in {"state", "denied"}
           /\ NextCheck[check] \in {"forbidden", "template", "ws"}
BY DEF RestChecks, Asked, Expected, NextCheck

\* Asking puts the check's request into the slot, or an answer of a tripped gateway.
LEMMA AskShape ==
    ASSUME Inv, Asks
    PROVE  /\ canary.pc \in RestChecks /\ UNCHANGED <<canary, up>> /\ up
           /\ \/ req'[Probe] = [pc |-> "resolving", who |-> Tester,
                               request |-> Asked[canary.pc], ev |-> None]
              \/ req'[Probe] = Done(503, {}) /\ (file \/ cached)
<1>1. canary.pc \in RestChecks /\ handle(Probe, Tester, Asked[canary.pc]) /\ UNCHANGED canary
  BY DEF Asks
<1>2. Asked[canary.pc].kind \in {"state", "denied"}
  BY <1>1, Checks
<1>3. \A x : Set(Probe, x) => req'[Probe] = x
  BY CanaryAssumption DEF Set, Inv
<1>4. is_tripped => file \/ cached
  BY DEF is_tripped
<1>5. \/ RefuseTripped(Probe, Asked[canary.pc])
      \/ AskIdentity(Probe, Tester, Asked[canary.pc])
  BY <1>1, <1>2 DEF handle, PassShell, RefuseWrite, PassPublic, ShellKinds
<1> QED BY <1>1, <1>3, <1>4, <1>5 DEF RefuseTripped, AskIdentity, Waits, Refuse, handle, Fixed

\* A canary request is carried on only if nothing was to be said against it, and is
\* answered otherwise than expected only if something was wrong.
LEMMA ProbeAnswer ==
    ASSUME Inv, ProbeOK, CauseKnown, Respond(Probe)
    PROVE  /\ canary.pc \in RestChecks
           /\ \/ /\ req'[Probe] = [pc |-> "upstream", who |-> Tester,
                                   request |-> Asked[canary.pc], ev |-> policies[Tester]]
                 /\ canary.pc # "allowed" => Wrong
              \/ \E status, items :
                 /\ req'[Probe] = Done(status, items)
                 /\ status # Expected[canary.pc] => Wrong \/ cause \/ status = 400
<1> DEFINE q == req[Probe]
<1>1. q.pc \in Flight
  BY RespondShape, CanaryAssumption
<1>2. canary.pc \in RestChecks
  BY <1>1 DEF ProbeOK, Flight, Idle
<1>3. q.pc \in {"resolving", "upstream"} /\ q.who = Tester /\ q.request = Asked[canary.pc]
  BY <1>1, <1>2 DEF ProbeOK, Flight, Idle
<1>4. Tester \in Restricted /\ Tester \notin Admins /\ Tester # Stranger
  BY CanaryAssumption, RestAssumption DEF Restricted
<1>5. \A x : Set(Probe, x) => req'[Probe] = x
  BY CanaryAssumption DEF Set, Inv
<1>6. q.request.kind \in {"state", "denied"}
  BY <1>2, <1>3, Checks
<1>7. ASSUME NEW status, NEW items, Set(Probe, Done(status, items)),
             status # Expected[canary.pc] => Wrong \/ cause \/ status = 400
      PROVE  \E st, its :
               /\ req'[Probe] = Done(st, its)
               /\ st # Expected[canary.pc] => Wrong \/ cause \/ st = 400
  BY <1>5, <1>7
<1>8. CASE Unauthorized(Probe) \/ UpstreamFails(Probe)
  <2>1. Wrong
    BY <1>3, <1>4, <1>8 DEF Unauthorized, UpstreamFails, Wrong
  <2>2. Set(Probe, Done(401, {})) \/ Set(Probe, Done(500, {}))
    BY <1>8 DEF Unauthorized, UpstreamFails, Refuse
  <2> QED BY <1>2, <1>7, <2>1, <2>2
<1>9. CASE RefuseUnassigned(Probe)
  <2>1. Wrong /\ Set(Probe, Done(403, {}))
    BY <1>3, <1>9 DEF RefuseUnassigned, Wrong, Refuse
  <2> QED BY <1>2, <1>7, <2>1
<1>10. CASE RefuseEndpoint(Probe)
  <2>1. Set(Probe, Done(403, {}))
    BY <1>10 DEF RefuseEndpoint, Refuse
  <2>2. CASE canary.pc = "allowed"
    <3>1. q.request.kind = "state" /\ q.request.entity = Allowed
      BY <1>2, <1>3, <2>2, Checks
    <3>2. ~allowed_read(policies[Tester], reg, Allowed)
      BY <1>3, <1>10, <3>1 DEF RefuseEndpoint
    <3>3. Wrong
      BY <3>2 DEF Wrong
    <3> QED BY <1>2, <1>7, <2>1, <3>3
  <2>3. CASE canary.pc # "allowed"
    <3>1. Expected[canary.pc] = 403
      BY <1>2, <2>3, Checks DEF RestChecks
    <3> QED BY <1>2, <1>7, <2>1, <3>1
  <2> QED BY <2>2, <2>3
<1>11. CASE Serve(Probe)
  <2>1. /\ req'[Probe] = [pc |-> "upstream", who |-> Tester, request |-> Asked[canary.pc],
                          ev |-> policies[Tester]]
        /\ policies[Tester] # None
        /\ q.request.kind = "state"
        /\ allowed_read(policies[Tester], reg, q.request.entity)
    BY <1>3, <1>5, <1>6, <1>11 DEF Serve, Assigned, Forward, Waits
  <2>2. canary.pc # "allowed" => q.request.entity = Forbidden
    BY <1>2, <1>3, <2>1, Checks DEF RestChecks
  <2>3. canary.pc # "allowed" => Wrong
    BY <2>1, <2>2 DEF Wrong, Leak, Shows
  <2> QED BY <1>2, <2>1, <2>3
<1>12. CASE Reply(Probe)
  <2>1. q.pc = "upstream" /\ \E items : Set(Probe, Done(200, items))
    BY <1>12 DEF Reply, Upstream
  <2>2. canary.pc # "allowed" => cause
    BY <1>2, <2>1 DEF CauseKnown, RestChecks
  <2>3. canary.pc = "allowed" => Expected[canary.pc] = 200
    BY <1>2, Checks
  <2> QED BY <1>2, <1>7, <2>1, <2>2, <2>3
<1>13. CASE ReplyError(Probe)
  <2>1. Set(Probe, Done(400, {}))
    BY <1>13 DEF ReplyError
  <2> QED BY <1>2, <1>7, <2>1
<1>14. ~PassAdmin(Probe) /\ ~ReadBody(Probe) /\ ~DecideCall(Probe)
  BY <1>3, <1>4, <1>6 DEF PassAdmin, ReadBody, DecideCall
<1> QED BY <1>8, <1>9, <1>10, <1>11, <1>12, <1>13, <1>14 DEF Respond

LEMMA ProbeStays ==
    ASSUME Inv, canary \in CanaryState, ProbeOK, CauseKnown, Next
    PROVE  ProbeOK'
<1>1. CASE Begin
  BY <1>1 DEF Begin, At, Reach, Fixed, ProbeOK, RestChecks
<1>2. CASE Asks
  BY <1>2, AskShape DEF ProbeOK, Done
<1>3. CASE Records \/ TimesOut
  <2>1. req'[Probe] = Idle /\ up' = up
    BY <1>3, CanaryAssumption DEF Records, TimesOut, Set, Inv, Fixed
  <2>2. canary.pc \in RestChecks
    BY <1>3 DEF Records, TimesOut
  <2> QED BY <2>1, <2>2 DEF ProbeOK, RestChecks
<1>4. CASE \/ EndsRun /\ canary.pc = "verdict" /\ UNCHANGED <<req, up>>
          \/ /\ canary.pc = "session" /\ canary' = [canary EXCEPT !.pc = "closing"]
             /\ UNCHANGED <<req, up>>
  <2>1. req'[Probe] = Idle /\ up'
    BY <1>4 DEF ProbeOK, RestChecks
  <2>2. canary'.pc \notin RestChecks
    BY <1>4 DEF EndsRun, CanaryState, RestChecks
  <2> QED BY <2>1, <2>2 DEF ProbeOK
<1>5. CASE PassesBy
  BY <1>5 DEF PassesBy, ProbeOK
<1>6. CASE UNCHANGED <<canary, up>> /\ Respond(Probe)
  <2>1. canary.pc \in RestChecks /\ canary' = canary /\ up' = up
    BY <1>6, ProbeAnswer
  <2>2. \/ req'[Probe].pc = "done"
        \/ /\ req'[Probe].pc = "upstream"
           /\ req'[Probe].who = Tester /\ req'[Probe].request = Asked[canary.pc]
    <3>1. ASSUME NEW status, NEW items, req'[Probe] = Done(status, items)
          PROVE  req'[Probe].pc = "done"
      BY <3>1 DEF Done
    <3> QED BY <1>6, <3>1, ProbeAnswer
  <2> QED BY <2>1, <2>2 DEF ProbeOK, RestChecks
<1>7. CASE ~up' /\ canary' = Sleeping /\ req'[Probe] = Idle
  BY <1>7 DEF ProbeOK, Sleeping, RestChecks
<1>8. CASE SessionStep
  <2>1. /\ up /\ up' = up /\ UNCHANGED req
        /\ canary.pc \in SessionStages /\ canary'.pc \in SessionStages
    BY <1>8, SessionShape DEF Inv, Fixed
  <2> QED BY <2>1 DEF ProbeOK, SessionStages, RestChecks
<1> QED BY <1>1, <1>2, <1>3, <1>4, <1>5, <1>6, <1>7, <1>8, ProbeStep

LEMMA CauseStays ==
    ASSUME Inv, TypeOK, ProbeOK, CauseKnown, Next
    PROVE  CauseKnown'
<1> SUFFICES ASSUME canary'.pc # "sleeping"
             PROVE  /\ Wrong' => cause'
                    /\ canary'.failed => cause'
                    /\ canary'.pc # "allowed" /\ req'[Probe].pc = "upstream" => cause'
                    /\ canary'.pc \in RestChecks /\ req'[Probe].pc = "done"
                         /\ req'[Probe].status # Expected[canary'.pc] => cause'
  BY DEF CauseKnown
<1>1. (cause => cause') /\ (Wrong' => cause')
  BY DEF Next, RemembersCause
<1>2. CASE Begin
  <2>1. canary' = [pc |-> "allowed", failed |-> FALSE, ev |-> None] /\ req'[Probe] = Idle
    BY <1>2 DEF Begin, At, Reach, ProbeOK, RestChecks
  <2> QED BY <1>1, <2>1 DEF Idle
<1>3. CASE Asks
  BY <1>1, <1>3, AskShape DEF CauseKnown, Wrong, Done
<1>4. CASE Records
  <2>1. /\ canary.pc \in RestChecks /\ req[Probe].pc = "done"
        /\ canary' = [pc |-> NextCheck[canary.pc],
                      failed |-> canary.failed \/ req[Probe].status # Expected[canary.pc],
                      ev |-> None]
        /\ req'[Probe] = Idle
    BY <1>4, CanaryAssumption DEF Records, At, Reach, Set, Inv
  <2>2. canary.pc # "sleeping"
    BY <2>1 DEF RestChecks
  <2>3. canary.failed => cause
    BY <2>2 DEF CauseKnown
  <2>4. req[Probe].status # Expected[canary.pc] => cause
    BY <2>1, <2>2 DEF CauseKnown
  <2>5. canary'.failed => cause
    BY <2>1, <2>3, <2>4
  <2>6. req'[Probe].pc = "idle"
    BY <2>1 DEF Idle
  <2> QED BY <1>1, <2>5, <2>6
<1>5. CASE TimesOut \/ EndsRun
  BY <1>5 DEF TimesOut, EndsRun, TypeOK
<1>6. CASE PassesBy
  BY <1>1, <1>6 DEF PassesBy, CauseKnown
<1>7. CASE UNCHANGED <<canary, up>> /\ Respond(Probe)
  <2>1. canary.pc # "sleeping" /\ canary' = canary
    BY <1>7
  <2>2. (Wrong => cause) /\ (canary.failed => cause)
    BY <2>1 DEF CauseKnown
  <2>3. CASE /\ req'[Probe] = [pc |-> "upstream", who |-> Tester,
                              request |-> Asked[canary.pc], ev |-> policies[Tester]]
             /\ canary.pc # "allowed" => Wrong
    BY <1>1, <2>1, <2>2, <2>3
  <2>4. ASSUME NEW status, NEW items, req'[Probe] = Done(status, items),
               status # Expected[canary.pc] => Wrong \/ cause \/ status = 400
        PROVE  /\ req'[Probe].pc = "done"
               /\ req'[Probe].status # Expected[canary.pc] => cause'
    <3>1. req'[Probe].pc = "done" /\ req'[Probe].status = status
      BY <2>4 DEF Done
    <3>2. status = 400 => Wrong'
      BY <3>1 DEF Wrong
    <3> QED BY <1>1, <2>2, <2>4, <3>1, <3>2
  <2> QED BY <1>1, <1>7, <2>1, <2>2, <2>3, <2>4, ProbeAnswer
<1>8. CASE ~up' /\ canary' = Sleeping /\ req'[Probe] = Idle
  BY <1>8 DEF Sleeping
<1>9. CASE SessionStep
  <2>1. /\ canary.pc \in SessionStages /\ canary'.pc \in SessionStages
        /\ canary'.failed => canary.failed \/ Wrong
        /\ UNCHANGED req
    BY <1>9, SessionShape DEF Inv, TypeOK, CanaryState
  <2>2. req[Probe].pc = "idle" /\ canary.pc # "sleeping" /\ canary'.pc \notin RestChecks
    BY <2>1 DEF ProbeOK, SessionStages, RestChecks, Idle
  <2>3. canary'.failed => cause
    BY <2>1, <2>2 DEF CauseKnown
  <2> QED BY <1>1, <2>1, <2>2, <2>3
<1>10. CASE /\ canary.pc = "session" /\ canary' = [canary EXCEPT !.pc = "closing"]
            /\ UNCHANGED <<req, up>>
  <2>1. canary'.pc = "closing" /\ canary'.failed = canary.failed
    BY <1>10 DEF TypeOK
  <2>2. req[Probe].pc = "idle"
    BY <1>10 DEF ProbeOK, RestChecks, Idle
  <2>3. canary.failed => cause
    BY <1>10 DEF CauseKnown
  <2> QED BY <1>1, <1>10, <2>1, <2>2, <2>3 DEF RestChecks
<1> QED BY <1>2, <1>3, <1>4, <1>5, <1>6, <1>7, <1>8, <1>9, <1>10, ProbeStep

\* When the canary trips the gateway, something of the run that failed was wrong at some
\* moment of it - a leak, but as well an outage, a tripped gateway, a missing right, an
\* error of Home Assistant, or an edit of the test user's policy that closed the
\* canary's own session; no verdict rests on what an earlier run saw (run_canary,
\* _ws_checks, _loop, _disconnect_user).
THEOREM CanaryTripsForCause == Spec => TripsForCause
<1>1. Init => ProbeOK /\ CauseKnown
  <2> SUFFICES ASSUME Init PROVE ProbeOK /\ CauseKnown
    OBVIOUS
  <2>1. canary = Sleeping /\ up = TRUE /\ req[Probe] = Idle
    BY CanaryAssumption DEF Init, RestInit
  <2> QED BY <2>1 DEF ProbeOK, CauseKnown, Sleeping, RestChecks
<1>2. Inv /\ TypeOK /\ ProbeOK /\ CauseKnown /\ [Next]_vars => (ProbeOK /\ CauseKnown)'
  <2>1. ASSUME UNCHANGED vars, ProbeOK, CauseKnown PROVE ProbeOK' /\ CauseKnown'
    <3>1. Wrong' <=> Wrong
      BY <2>1 DEF vars, restVars, tripVars, Wrong, Leak, Shows
    <3> QED BY <2>1, <3>1 DEF vars, restVars, ProbeOK, CauseKnown
  <2>2. TypeOK => canary \in CanaryState
    BY DEF TypeOK, CanaryState
  <2> QED BY <2>1, <2>2, ProbeStays, CauseStays
<1>3. ASSUME Inv, ProbeOK, CauseKnown, Next,
             canary.pc = "verdict", canary'.pc = "sleeping", file', ~file
      PROVE  cause
  <2>1. Verdict(TRUE)
    <3>1. file' # file
      BY <1>3
    <3>2. ~Around
      <4>1. Around => up' = up \/ Crash \/ Boot
        BY DEF Around, Environment, RegistryChanges, HaChanges, OthersAsk,
               Operator, Tick, Fixed
      <4>2. up
        BY <1>3 DEF ProbeOK
      <4>3. Crash => file' = file
        BY DEF Crash, tripVars
      <4> QED BY <1>3, <3>1, <4>1, <4>2, <4>3 DEF Around, Boot
    <3>3. \A u : ~Edit(u)
      BY <3>1, EditShape DEF tripVars
    <3>4. CanaryStep
      BY <1>3, <3>2, <3>3 DEF Next, ClientStep, Upgrade, Served
    <3>5. ~Passes /\ ~TripsInVain
      BY <3>1 DEF Passes, TripsInVain, tripVars
    <3>6. canary.pc \notin RestChecks /\ ~Begin
      BY <1>3 DEF Begin, RestChecks
    <3>7. ~Greeted /\ ~LooksUp /\ ~Unresolved /\ ~OpensSession /\ ~SessionChecks /\ ~Cut
      BY <1>3 DEF Greeted, LooksUp, Unresolved, OpensSession, SessionChecks, Cut, SessionAt
    <3> QED BY <3>4, <3>5, <3>6, <3>7 DEF CanaryStep, Asks, Records, TimesOut, Trips
  <2>2. canary.failed = TRUE
    BY <2>1 DEF Verdict
  <2> QED BY <1>3, <2>2 DEF CauseKnown
<1>4. Inv /\ ProbeOK /\ CauseKnown /\ [Next]_vars =>
        [canary.pc = "verdict" /\ canary'.pc = "sleeping" /\ file' /\ ~file => cause]_vars
  BY <1>3
<1> QED BY <1>1, <1>2, <1>4, Invariance, CanaryTypeCorrect, PTL DEF Spec, TripsForCause

=============================================================================
