------------------------------ MODULE MCCanary ------------------------------
(***************************************************************************)
(* A member, an admin, a stranger and the test user of the canary.  The    *)
(* alarm panel may move into the hall, where the test user may read.       *)
(***************************************************************************)
EXTENDS Canary

CONSTANTS lamp, alarm, light, other, hall, yard, hub, kiosk, lovelace, gps,
          noArea, noDevice, noDashboard, ann, boss, tester, nobody, odd, falsy, annRequest, probe

mcEntities == {lamp, alarm}
mcDomainOf == [e \in mcEntities |-> IF e = lamp THEN light ELSE other]

SnapshotOf(alarmArea, fresh) ==
    [fresh |-> fresh, known |-> mcEntities,
     area |-> [e \in mcEntities |-> IF e = lamp THEN hall ELSE alarmArea],
     device |-> [e \in mcEntities |-> IF e = lamp THEN hub ELSE noDevice]]

mcSnapshots == {SnapshotOf(yard, TRUE), SnapshotOf(hall, TRUE), SnapshotOf(hall, FALSE)}

Item1(id, access) == [id |-> id, access |-> access]

PayloadOf(u, es, ds, as, tokens, allowed) ==
    [user |-> [id |-> u, name |-> nobody], entities |-> es, domains |-> ds, areas |-> as,
     token_creation |-> tokens, default |-> noDashboard, allowed |-> allowed]

\* Ann may control the hall, or one lamp and manage tokens; an edit with a bad
\* access level is refused, one with a token_creation of 0 is not.
annHall == PayloadOf(ann, {}, {}, {Item1(hall, "control")}, falsy, {})
annLamp == PayloadOf(ann, {Item1(lamp, "read"), Item1(lamp, "control")}, {}, {}, TRUE, {kiosk})
annBad == PayloadOf(ann, {Item1(lamp, odd)}, {}, {}, FALSE, {})

testerHall == PayloadOf(tester, {Item1(lamp, "read")}, {}, {Item1(hall, "read")}, FALSE, {})

\* The test user may lose the hall, and get it back.
testerLamp == PayloadOf(tester, {Item1(lamp, "read")}, {}, {}, FALSE, {})

mcPayloads ==
    [u \in {ann, tester} |-> IF u = ann THEN {annHall, annLamp, annBad} ELSE {testerHall, testerLamp}]

PolicyOf(payload) == Validated(payload).policy

mcFirstPolicies == [u \in {ann, tester} |-> PolicyOf(IF u = ann THEN annHall ELSE testerHall)]

CallTo(about) == [kind |-> "service", call |-> [about |-> about, opaque |-> FALSE]]

annReads == <<ann, [kind |-> "state", entity |-> alarm]>>

membersTraffic ==
    ({ann} \X {[kind |-> k] : k \in {"config", "states", "unfilterable"}})
      \cup {annReads, <<ann, CallTo({hall})>>, <<ann, CallTo({lamp})>>,
            <<boss, [kind |-> "states"]>>, <<Stranger, [kind |-> "plain"]>>,
            <<Stranger, [kind |-> "public"]>>, <<Stranger, [kind |-> "frontend"]>>,
            <<Stranger, [kind |-> "write"]>>}

\* No canary and all the traffic; a canary beside a stranger; or a canary whose
\* test user an admin edits.
mcDeployments ==
    {[canary |-> FALSE, traffic |-> membersTraffic, edited |-> {ann}],
     [canary |-> TRUE, traffic |-> {<<Stranger, [kind |-> "public"]>>}, edited |-> {}],
     [canary |-> TRUE, traffic |-> {}, edited |-> {tester}]}
=============================================================================
