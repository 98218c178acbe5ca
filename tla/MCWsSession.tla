---------------------------- MODULE MCWsSession ----------------------------
(***************************************************************************)
(* A small house: three entities of two domains, one of them in an area    *)
(* the policy names, one unknown to the registry at first; two dashboards. *)
(***************************************************************************)
EXTENDS WsSession

CONSTANTS lamp, lock, cam, light, other, hall, yard, hub, home, kiosk, lovelace,
          gps, noArea, noDevice, noDashboard

mcEntities == {lamp, lock, cam}
mcDomainOf == [e \in mcEntities |-> IF e = lamp THEN light ELSE other]

Rules(es, ds, as) == [entities |-> es, domains |-> ds, areas |-> as]
Nothing == Rules({}, {}, {})

Policy(r, c, tokens, default, allowed) ==
    [read |-> r, control |-> c, token_creation |-> tokens,
     default_dashboard |-> default, allowed_dashboards |-> allowed]

\* A guest reads one area and controls one lamp; a viewer reads one domain,
\* controls nothing and may manage tokens; a child controls one area.
guest == Policy(Rules({}, {}, {hall}), Rules({lamp}, {}, {}), FALSE, kiosk, {})
viewer == Policy(Rules({}, {light}, {}), Nothing, TRUE, noDashboard, {})
child == Policy(Nothing, Rules({}, {}, {hall}), FALSE, noDashboard, {lovelace, kiosk})

mcPolicies == {guest, viewer, child}
mcTwoPolicies == {guest, viewer}

SnapshotOf(known, inHall, ofHub) ==
    [fresh |-> TRUE, known |-> known,
     area |-> [e \in mcEntities |-> IF e \in inHall THEN hall
                                    ELSE IF e \in known THEN yard ELSE noArea],
     device |-> [e \in mcEntities |-> IF e \in ofHub THEN hub ELSE noDevice]]

\* The lock moves out of the hall, and the camera appears, in the hall.
mcSnapshots == {SnapshotOf({lamp, lock}, {lock}, {lock}),
                SnapshotOf(mcEntities, {cam}, {lamp, cam})}

mcRequested == {{lock, cam}}

CallTo(about) == [about |-> about, opaque |-> FALSE]
mcCalls == {CallTo({lamp}), CallTo({hall}), CallTo({hub, lamp}), CallTo({}),
            CallTo({yard, lamp}), [about |-> {lamp}, opaque |-> TRUE]}

mcListCommands == FilteredCommands \cup {"plain", "unknown", "system_log.write"}
mcStreamCommands == {"subscribe_entities", "state_changed", "safe_event", "system_data_core",
                     "unsubscribe_events", "get_states"}
mcActCommands == TokenCommands \cup {"call_service", "lovelace/config", "subscribe_entities",
                                     "get_states", "silent_ack", "unknown"}
mcReuseCommands == {"get_states", "call_service", "state_changed", "safe_event"}
=============================================================================
