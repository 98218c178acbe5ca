------------------------------- MODULE Canary -------------------------------
(***************************************************************************)
(* The canary (canary.py): a background loop that asks the gateway, with   *)
(* the token of a restricted test user, for what that user may read and    *)
(* for what it may not, first by REST and then by a WebSocket session, and *)
(* trips the gateway if an answer is not what it should be.  Its requests  *)
(* are requests of RestProxy, in a slot of their own.  Its session is one  *)
(* like any other: an edit of the test user's policy closes it.            *)
(*                                                                         *)
(* `upgraded` stands for a Home Assistant whose API has changed so that a  *)
(* session of the gateway answers what it should not.                      *)
(***************************************************************************)
EXTENDS RestProxy

CONSTANTS
    Probe,          \* the slot of the canary's requests
    Tester,         \* the test user, canary_token
    Allowed,        \* canary_allowed_read_entity
    Forbidden       \* canary_forbidden_entity

ASSUME CanaryAssumption ==
    Probe \in Slots /\ Tester \in Restricted /\ Allowed \in Entities /\ Forbidden \in Entities

VARIABLES
    upgraded,
    canary,         \* where the loop is, whether a check of this run failed, and
                    \* the policy its session was opened under
    cause           \* history: during this run something was wrong

vars == <<restVars, tripVars, upgraded, canary, cause>>

RestChecks == {"allowed", "forbidden", "template"}

Asked == [check \in RestChecks |->
            CASE check = "allowed" -> [kind |-> "state", entity |-> Allowed]
              [] check = "forbidden" -> [kind |-> "state", entity |-> Forbidden]
              [] OTHER -> [kind |-> "denied"]]

Expected == [check \in RestChecks |-> IF check = "allowed" THEN 200 ELSE 403]

NextCheck == [check \in RestChecks |->
                CASE check = "allowed" -> "forbidden"
                  [] check = "forbidden" -> "template"
                  [] OTHER -> "ws"]

SessionStages == {"ws", "resolving", "opening", "session", "closing", "verdict"}

Reach(pc, failed, ev) == canary' = [pc |-> pc, failed |-> failed, ev |-> ev]
At(pc, failed) == Reach(pc, failed, None)
Sleeping == [pc |-> "sleeping", failed |-> FALSE, ev |-> None]
EndsRun == canary' = [canary EXCEPT !.pc = "sleeping"]

Shows(p) == p # None /\ allowed_read(p, reg, Forbidden)

\* The forbidden entity can be read, or a denied command is answered.
Leak == upgraded \/ Shows(policies[Tester])

-----------------------------------------------------------------------------
\* run_canary.

\* Mutant: the result object is made once, for all runs.
BeginKeepingResult ==
    /\ up /\ deployment.canary /\ canary.pc = "sleeping"
    /\ At("allowed", canary.failed)
    /\ Fixed /\ UNCHANGED <<req, upgraded, tripVars>>

Begin ==
    /\ up /\ deployment.canary /\ canary.pc = "sleeping"
    /\ At("allowed", FALSE)
    /\ Fixed /\ UNCHANGED <<req, upgraded, tripVars>>

Asks ==
    /\ canary.pc \in RestChecks
    /\ handle(Probe, Tester, Asked[canary.pc])
    /\ UNCHANGED <<upgraded, canary>>

Records ==
    /\ canary.pc \in RestChecks /\ req[Probe].pc = "done"
    /\ At(NextCheck[canary.pc],
          canary.failed \/ req[Probe].status # Expected[canary.pc])
    /\ Set(Probe, Idle)
    /\ Fixed /\ UNCHANGED <<upgraded, tripVars>>

\* A REST check that gets no answer in 15 seconds ends the run without a verdict.
TimesOut ==
    /\ up /\ ha = "mute"
    /\ canary.pc \in RestChecks /\ req[Probe].pc \notin {"idle", "done"}
    /\ EndsRun
    /\ Set(Probe, Idle)
    /\ Fixed /\ UNCHANGED <<upgraded, tripVars>>

-----------------------------------------------------------------------------
\* _ws_checks, against handle_ws and its session.  Whatever goes wrong in it is
\* recorded as one more check that failed.

SessionAt(pc) == up /\ canary.pc = pc
CutShort == At("verdict", TRUE)

\* The trip switch is asked before the identity of the token is.
Greeted ==
    /\ SessionAt("ws")
    /\ IF is_tripped THEN CutShort ELSE At("resolving", canary.failed)
    /\ Looks
    /\ Fixed /\ UNCHANGED <<req, upgraded>>

\* The identity, perhaps from the cache, and the policy it has now.
LooksUp ==
    /\ SessionAt("resolving") /\ policies[Tester] # None
    /\ Reach("opening", canary.failed, policies[Tester])
    /\ Fixed /\ UNCHANGED <<req, upgraded, tripVars>>

Unresolved ==
    /\ SessionAt("resolving")
    /\ policies[Tester] = None \/ ha # "up"
    /\ CutShort
    /\ Fixed /\ UNCHANGED <<req, upgraded, tripVars>>

\* The session is registered, and from here on an edit closes it.
OpensSession ==
    /\ SessionAt("opening") /\ ha = "up"
    /\ Reach("session", canary.failed, canary.ev)
    /\ Fixed /\ UNCHANGED <<req, upgraded, tripVars>>

\* Mutant: only an error of the REST checks counts.
LenientSessionChecks ==
    /\ SessionAt("session") \/ SessionAt("closing")
    /\ is_tripped \/ ha = "up"
    /\ At("verdict", canary.failed)
    /\ Looks
    /\ Fixed /\ UNCHANGED <<req, upgraded>>

\* get_states and the two commands that must be denied.  A tripped gateway denies
\* all three, and an error in place of the states shows nothing: both are passed.
SessionChecks ==
    /\ SessionAt("session") \/ SessionAt("closing")
    /\ is_tripped \/ ha = "up"
    /\ \E answered \in BOOLEAN :
         At("verdict", \/ canary.failed
                       \/ ~is_tripped /\ (upgraded \/ (answered /\ Shows(canary.ev))))
    /\ Looks
    /\ Fixed /\ UNCHANGED <<req, upgraded>>

\* The session is closed before the canary has its answers: Home Assistant cannot
\* be reached, or disconnect_user comes first.
Cut ==
    /\ \/ SessionAt("closing")
       \/ (SessionAt("opening") \/ SessionAt("session")) /\ ha # "up"
    /\ CutShort
    /\ Fixed /\ UNCHANGED <<req, upgraded, tripVars>>

-----------------------------------------------------------------------------
\* _loop, once the run has ended.

Verdict(failed) ==
    /\ SessionAt("verdict") /\ canary.failed = failed
    /\ EndsRun
    /\ Fixed /\ UNCHANGED <<req, upgraded>>

Passes == Verdict(FALSE) /\ UNCHANGED tripVars

Trips == Verdict(TRUE) /\ TripFile /\ UNCHANGED cached

\* The file cannot be written: the exception is logged, and that is all.
TripsInVain == Verdict(TRUE) /\ UNCHANGED tripVars

-----------------------------------------------------------------------------

\* Another Home Assistant version.
Upgrade == deployment.canary /\ upgraded' = ~upgraded /\ Fixed /\ UNCHANGED <<req, canary, tripVars>>

CanaryStep ==
    \/ Begin \/ Asks \/ Records \/ TimesOut
    \/ Greeted \/ LooksUp \/ Unresolved \/ OpensSession \/ SessionChecks \/ Cut
    \/ Passes \/ Trips \/ TripsInVain

ClientStep ==
    /\ \E s \in Slots \ {Probe} : (\E t \in deployment.traffic : handle(s, t[1], t[2])) \/ Leave(s)
    /\ UNCHANGED <<upgraded, canary>>

\* An edit of the test user's policy has its sessions closed, the canary's too.
Edit(u) ==
    /\ EditPolicy(u)
    /\ canary' = IF u = Tester /\ canary.pc = "session"
                 THEN [canary EXCEPT !.pc = "closing"] ELSE canary
    /\ UNCHANGED upgraded

\* A restart takes the loop with it.
Around ==
    /\ Environment
    /\ upgraded' = upgraded
    /\ canary' = IF up' THEN canary ELSE Sleeping

Served == (\E s \in Slots : Respond(s)) /\ UNCHANGED <<upgraded, canary>>

\* Something a run of the canary may fail for: a leak; an outage; the trip switch; no
\* right to read what it should; an error from Home Assistant; or an edit of the test
\* user's policy, however harmless, while the canary's own session is open.
Wrong ==
    \/ Leak \/ Shows(canary.ev) \/ ha # "up" \/ file \/ cached
    \/ canary.pc = "closing"
    \/ policies[Tester] = None \/ ~allowed_read(policies[Tester], reg, Allowed)
    \/ req[Probe].pc = "done" /\ req[Probe].status = 400

RemembersCause == cause' = (canary'.pc # "sleeping" /\ (cause \/ Wrong'))

Init ==
    /\ RestInit
    /\ upgraded = FALSE
    /\ canary = Sleeping
    /\ cause = FALSE

Next ==
    /\ CanaryStep \/ ClientStep \/ (\E u \in deployment.edited : Edit(u)) \/ Around \/ Upgrade \/ Served
    /\ Remembers /\ RemembersCause

Spec == Init /\ [][Next]_vars

(***************************************************************************)
(* Fairness: the loop goes on, the gateway serves its requests while Home  *)
(* Assistant is not mute, and not every attempt to write the trip file     *)
(* fails.                                                                  *)
(***************************************************************************)
Step(A) == A /\ Remembers /\ RemembersCause

Fairness ==
    /\ WF_vars(Step(Begin)) /\ WF_vars(Step(Asks)) /\ WF_vars(Step(Records))
    /\ WF_vars(Step(ha # "mute" /\ Respond(Probe) /\ UNCHANGED <<upgraded, canary>>))
    /\ WF_vars(Step(Greeted)) /\ WF_vars(Step(ha = "up" /\ (LooksUp \/ Unresolved)))
    /\ WF_vars(Step(OpensSession)) /\ WF_vars(Step(SessionChecks))
    /\ WF_vars(Step(Passes)) /\ SF_vars(Step(Trips))

FairSpec == Spec /\ Fairness

-----------------------------------------------------------------------------
\* Properties.

InFlight == [who : Users \cup {Stranger}, request : Request, ev : UserPolicy \cup {None}]

Judged(q) == q.who \in Restricted /\ q.request.kind \notin ShellKinds \cup {"public"}

\* Every variable has its type; a restricted user's request is nowhere past the
\* endpoint checks without the evaluator its answer is filtered by.
TypeOK ==
    /\ TripTypeOK
    /\ policies \in [Restricted -> UserPolicy \cup {None}]
    /\ reg \in Snapshot /\ ha \in {"up", "down", "mute"} /\ up \in BOOLEAN
    /\ \A s \in Slots :
         \/ req[s] = Idle
         \/ req[s].pc = "done" /\ req[s].status \in {200, 400, 401, 403, 500, 503}
         \/ /\ req[s].pc \in {"resolving", "reading", "upstream"}
            /\ [who |-> req[s].who, request |-> req[s].request, ev |-> req[s].ev] \in InFlight
            /\ req[s].pc # "resolving" /\ Judged(req[s]) => req[s].ev # None
    /\ canary \in [pc : RestChecks \cup SessionStages \cup {"sleeping"}, failed : BOOLEAN,
                   ev : UserPolicy \cup {None}]
    /\ cause \in BOOLEAN /\ upgraded \in BOOLEAN

Answers(s) == req[s].pc \notin {"idle", "done"} /\ req'[s].pc = "done"

\* A REST answer tells a restricted user nothing its policy could not read at some
\* moment between the lookup of the policy and the answer, whatever happened to the
\* registry while Home Assistant was asked; and never where the home is.
RestTellsOnlyReadable ==
    [][\A s \in Slots : Answers(s) => req'[s].told \subseteq readable[s] \cup
         (IF req[s].ev = None THEN {} ELSE Readable(req[s].ev, reg))]_vars

\* A service call leaves for Home Assistant only if the policy allows it by the
\* registry of that moment, not by the one from before its body arrived.
RestCallsInScope ==
    [][\A s \in Slots :
         req[s].pc = "reading" /\ req'[s].pc = "upstream" =>
           \A e \in CallTargets(reg, req[s].request.call.about) :
             allowed_control(req[s].ev, reg, e)]_vars

Enters(s) ==
    /\ req[s] = Idle /\ req'[s].pc \in {"resolving", "upstream"}
    /\ req'[s].request.kind \notin ShellKinds

\* No API request gets past a trip switch that was thrown: none at all once the
\* canary has thrown it, none after CheckInterval when it was by hand, also not
\* right after a restart.
TripBites == [][\A s \in Slots : Enters(s) => ~file \/ stood < CheckInterval]_vars

\* An edit that saves a policy as it was takes no right away and gives none.
ResaveKeepsRights ==
    [][\A u \in Restricted : Resave(u) => SameRights(policies[u], policies'[u])]_vars

\* The canary trips the gateway only for something of the run that failed, not for
\* what an earlier run saw, nor for what was over before it began.  That is not only
\* a leak: an outage seen by a check, a gateway already tripped, an error of Home
\* Assistant, and an admin's edit of the test user's policy that closes the canary's
\* own session trip the gateway too - although the loop says that it does not trip on
\* an infrastructure error (canary.py:170), _ws_checks records one as a failed check.
TripsForCause ==
    [][canary.pc = "verdict" /\ canary'.pc = "sleeping" /\ file' /\ ~file => cause]_vars

\* A leak that lasts while Home Assistant is up has the gateway tripped, again and
\* again if an operator clears the switch.
LeakTrips ==
    /\ deployment.canary
    /\ \/ <>[](up /\ ha = "up" /\ upgraded)
       \/ <>[](up /\ ha = "up" /\ Shows(policies[Tester]))
    => []<>file
=============================================================================
