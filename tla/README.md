# ha-rbac-gateway in TLA+

ha-rbac-gateway stands between Home Assistant and the users an operator wants to
restrict. It forwards a restricted user's own token, so Home Assistant itself would
answer everything: what the user sees and does is whatever the gateway forwards and
filters. This directory holds TLA+ modules of that gateway, TLC configurations that
check them on small instances, and proofs of what matters most for every instance.

Paths below are those of the repository (`src/ha_rbac_gateway/...`). Check a module
with `tlc -config X.cfg M`, a proof with `tlapm M.tla`.

## 1. The system

All code runs in one asyncio event loop: between two awaits nothing else runs, and at
an await anything may. That is the granularity of every model here.

| Part | State it keeps | Operations | What makes it correct |
|---|---|---|---|
| **WebSocket session** `ws_proxy.py` `_Connection` | two sockets; `pending` (request id -> transform of its result); `subs` (subscription id -> kind); the evaluator `ev`, fixed for the session | two pumps; a router with one branch per command class; result transforms; event relay; `close_now` | nothing outside the policy is written to the client, which the code keeps as long as the client does not use an id again that is in use; nothing outside it is forwarded; every command gets one answer; a session ends as a whole |
| **Handshake and registration** `handle_ws` | `gw.live_ws` | trip check, client auth, identity, policy lookup, upstream auth, register, unregister | a session serves the policy its user has |
| **Policy evaluation** `policy.py` `PolicyEvaluator` | none | `allowed_read`, `allowed_control`, enumeration, areas, devices | control implies read; enumeration and reading agree; a stale registry only narrows |
| **Policy files** `policy.py` `parse_policy`, `to_editor_dict`, `admin_api.py` `editor_to_mapping` | none | payload -> mapping -> policy -> payload | a policy that is opened and saved keeps its rights |
| **Policy store and reload** `PolicyStore`, `server.py` `reload_policies` | `gw.policies` | `load_dir`, `find`, swap, `disconnect_user` | a set that does not load never gets into service; a change reaches every session |
| **Admin API** `admin_api.py` | the policy directory | `put_policy`, `delete_policy`, reading | what is accepted can be loaded; a revoked user is locked out |
| **Registry cache** `registry.py` | snapshot of entities and devices, its age | `start`, `refresh` in a background loop, queries | a snapshot is what Home Assistant had; it follows Home Assistant's changes; an outage makes it stale, whatever form it takes; a query never answers from a stale snapshot |
| **Filters, command tables** `filters.py`, `commands.py` | none | one transform per list; the classes of commands | a payload of an unexpected shape becomes an empty one |
| **Trip switch** `trip.py` | the trip file, the answer of the last look, its time | `is_tripped`, `trip` | tripped means denied, at the latest one interval later |
| **Canary** `canary.py` | none between runs | the loop: REST checks, session checks, verdict | trips for a leak that lasts, and only for something of the run that failed |
| **Identity resolver** `identity.py` | cache token -> identity, a lock per token | `resolve` | an answer was true less than a lifetime ago; one question per token at a time; errors are not cached; bounded; nobody waits but for an answer about its own token |
| **REST proxy** `rest_proxy.py` | none | the checks in their order, forwarding, filtering | an answer tells nothing outside the policy; a call goes no further than the policy by the registry of the moment |
| **Wiring, configuration, CLI, audit, panel** | - | - | - |

How they interact. A session asks the evaluator on every command and every frame; the
evaluator asks the registry cache, which a background task replaces under it. The
router asks the trip switch on every client command. The admin API writes the
directory, has the gateway reload it and cuts the sessions of the user in
`gw.live_ws`. Sessions run on the two sockets and know nothing of each other. A
connection, a REST request and an admin request each begin with `resolve`, where calls
for one token take turns. The canary is a client of the gateway's own port; it throws
the trip switch, which REST requests, commands and the handshake ask.

What is hard to test here: answers that arrive in any order, long after the command
and under another registry snapshot; a client that uses an id again while something of it
is under way; a pump that dies while the other waits; a policy
that changes while a handshake waits on one of its awaits; an edit that is valid on its own and
not together with another file; two admins who cut the same sessions; a registry that
changes between the two questions of one refresh; a Home Assistant that holds its
connections and says nothing; a waiter whose predecessor at the lock failed; a file made
while the last look at it still counts; an edit that closes the canary's own session.
`PROJECT.json`
lists each such hazard at its line, with the property that would catch it.

## 2. The modules

```
PolicyRules <-- WsSession <-- MCWsSession        (KeepsContract: refines SessionContract)
     ^   ^          ^-- WsSession_proofs <-- WsContract_proofs
     |   +-- PolicyRules_proofs
     |
     +------ RegistryCache <-- MCRegistry
     |          ^-- RegistryCache_proofs
     |
     +------ PolicyFiles  TripSwitch
                ^    ^       ^
                |    +---- RestProxy <-- Canary <-- MCCanary
                |                          ^
       PolicyFiles_proofs <-------- Canary_proofs

IdentityResolver <-- MCIdentity             LivePolicy <-- MCLivePolicy
     ^-- IdentityResolver_proofs               ^-- LivePolicy_proofs
```

An arrow is EXTENDS. RestProxy is composed of the policy forms, the trip switch and the
decisions of PolicyRules, and Canary is a client beside the others in it.

### PolicyRules

`PolicyEvaluator`, the queries of `RegistryCache` and the call check of `filters.py`
as operators that keep the functions' names. A policy is a record of sets; a registry
snapshot says which entities are known, with the area and device of each, and whether
it is fresh. A payload is the set of *items* it is about: entities, areas, devices,
dashboards, or the home's position. `Visible(p, reg)` is all a user may be told.

### WsSession

One session of a restricted user, from `auth_ok` to its end.

| Code | Model |
|---|---|
| `_route_client_msg`, a branch each | `RouteTripped`, `RoutePlain`, `RouteFiltered`, `RouteLocal`, `RouteUnknown`, `_handle_subscribe_entities`, `_handle_subscribe_events`, `_handle_call_service`, `_handle_token_management`, `_handle_lovelace_config` |
| `_forward`, `_deny`, `_send_client` | `_forward`, `_deny`, `Reply` |
| `WS_FILTERED_LISTS` and the other tables | `ResultKind` and the sets of commands |
| `_route_ha_msg`, `_transform_result`, `_relay_event` | `Deliver` with the operators of the same names |
| `self.pending`, `self.subs` | `pending`, `subs`, with `None` for no entry |
| the `finally` blocks of the pumps, `_Connection.run`, `handle_ws` | `PumpClientEnds`, `PumpHaEnds`, `Unregister` |
| a socket closes, a heartbeat is missed, `close_now` | `ClientCloses`, `UpstreamCloses` |

Around it: `HaAnswers` and `HaEmits` (Home Assistant answers any outstanding request
next, with success, an error or a payload of an unexpected shape, and emits events of
the subscriptions it serves), `RegistryChanges` (a new snapshot, or the old one ages)
and `TripChanges`. What Home Assistant sends is *unfiltered*: a full list, any
entity's `state_changed`.

Modelling decisions a reader should know:

- A command is its class; members of a class are treated alike by the code. `odd`
  stands for every payload a filter does not recognise.
- The client chooses the id of each command and may use any again: Home Assistant wants
  them to rise, `_route_client_msg` asks only for an integer. As an id is only compared with
  others, ids are named in the order of their first use. The commands themselves are numbered
  (`no`), a number that is on no wire: it tells the properties which command a result is of.
- An id is `crossed` once a command uses it while something is `UnderWay` under it: a request
  Home Assistant has still to answer, a subscription it serves, or a frame not yet relayed.
  `crossed` is a history variable. What the gateway's tables promise they promise of the
  other ids (section 5): those are `Vouched`. A client that uses an id again after all
  is over crosses nothing.
- Home Assistant answers a reused id like any other, also with an error, as it does when it
  refuses the id: by then the entry has been overwritten. Under a crossed id a result may
  meet the transform of another command. Of a list of the wrong kind the code may keep
  nothing, raise or keep some; the model keeps what its filter does not remove.
- An event of an odd shape is dropped. Of the system data only the value may be `bare` (not
  a dict), and is then relayed as it is, so such a frame is not `Vouched` either: it says
  what Home Assistant put there. Otherwise the default dashboard in it becomes the user's
  own, or `Lovelace` when it has none (`DefaultPanel`); that built-in name is in
  `Visible` for everyone.
- The `entity_id` of a service call is a set of entities. One string with commas in it, which
  the code takes for one entity of the domain before its dot (filters.py:51-56,
  policy.py:269), is outside the model.
- Frames that are not JSON objects are dropped by the code before any state changes and are left
  out; an array of coalesced frames is its frames one after the other, as in the code.
- Subscriptions to safe event types, system data other than the core's, results of
  plain commands and error messages are about no item. This is what the command tables
  assume of Home Assistant; whether it is so is not decided in this code.
- The two frames that answer an empty `subscribe_entities` are one step: no property
  tells them apart.
- `sent` holds what the last step wrote, `answered` is a history variable like `crossed`; no
  action's guard reads them.
- A pump whose socket is closed may still deliver frames that arrived before, until it
  meets the closing.

### SessionContract

The abstract specification: no pumps, tables or queues. A command is unsent, open or
answered; the user is told only what lies in `scope` at that moment; each command gets
at most one result, and only once it was sent; a session that is over says nothing.
`KeepsContract` in WsSession maps `scope` to `Visible(ev, reg)`, `status` to what was
sent and answered, `told` to the `Vouched` frames of the step and `results` to the numbers of
the commands it answers. That a command gets at most one result holds whatever its id: it is
Home Assistant's answer or the gateway's, never both.

### LivePolicy

Policy changes against sessions. `disk` is the policy directory, `store` the set last
loaded, `pc[c]` the place of `handle_ws` for connection `c`.

| Code | Model |
|---|---|
| `handle_ws` between its awaits | `Connect`, `Resolve` or `RefuseUnassigned`, `UpstreamReady`, `Register`, `SessionEnds`; `HandshakeFails` for each early return |
| `PolicyStore.load_dir`, `find` | `Loadable`, `find` |
| `_existing_file_for`, `_safe_filename` | `_existing_file_for`, the constant `SlugOf` |
| `put_policy`, `delete_policy` with `reload_policies` | `put_policy`, `delete_policy` with `ReloadAndCut` (no await lies between write, reload and the choice of the victims) |
| `disconnect_user`, `close_now` | `Victims`, `CutClient`, `CutUpstream`: one victim after the other, the client's socket before the upstream's, other coroutines in between |
| process end and start | `Crash` (all but the directory is lost), `Boot` (needs a directory that loads) |

`HandEdit` changes the directory and nothing else, as the store is only reloaded by the
admin API or a restart. A PUT may send a policy that names another user than its key, and
two keys may share a file: the code allows both. `missed` remembers that a session's policy
changed where no disconnect could know of it: before it was registered, or by a reload that
served a changed policy of another user than the one addressed (`ChangesOthers`). No
action's guard reads it.

### RegistryCache

`refresh` is two steps with Home Assistant's answers (`EntitiesArrive`, `DevicesArrive`,
the second of which installs the snapshot: no await lies between the answer and the three
assignments), between which `home`, Home Assistant's own registry, may change.

| Code | Model |
|---|---|
| `start`: the first fetch, without which the process ends | `Boot`; `RefreshFails` with `~serving` |
| `_refresh_loop`: sleep, refresh, log what fails | `WakesUp`, `RefreshFails`; the loop goes on with the old snapshot |
| the mapping built from the two lists | `Combine`, `AreaIn` |
| `age`, `_fresh` | `age`, counted up to the first stale value |
| what the queries see | `reg`, a `Snapshot` of PolicyRules |

Home Assistant is up, down (connections break: phase `broken`) or mute: it keeps the
connection and answers nothing, and as a refresh has no timeout the loop then waits.
`era` is history: the registries Home Assistant had since the refresh began.

### IdentityResolver

| Code | Model |
|---|---|
| first look at the cache | `AnswerFromCache` |
| `async with lock`, second look | `AskOrWait`, `Wake`; `queue[t]` is the lock of token `t`: its holder, then the waiters in order |
| `_ask_ha` | `HaSays` (Home Assistant decides) and `Returns` (the answer arrives), or `Fails` |
| `_cache[key] = (now + ttl, identity)`, `clear` | `Put`, `Entry` |

A question may fail, and may also stay open for ever: `ClientTimeout(total=10)` of the
session bounds the opening of the WebSocket, no `receive_json` has a timeout, and there
is no heartbeat. The model leaves that to Home Assistant, which is owed no fairness here.
`word[t]` is what Home Assistant would say of a token now; it changes at any time. Time is
kept as durations that stop at the longest lifetime, so the clock needs no bound. The
lifetime of an entry counts from before the question, as `now` is taken there. `seen` and
`ago` are history.

### TripSwitch, PolicyFiles

TripSwitch has the file, `cached` and `checked` (`_cached`, `_last_check`) as actions that
other modules conjoin: `Looks` is the effect of `is_tripped`, `TripFile` that of `trip`,
`OperatorTrips` and `OperatorClears` a hand on the file, `TripStarts` a new process.

PolicyFiles has the three forms of a policy and the functions between them, under their
names; a list of rules is a set. A `token_creation` is true, false, a value that is
neither (`Unusual`, refused), or one that is neither but counts as false (`Falsy`, say 0),
which `editor_to_mapping` leaves out. `Validated` is what `put_policy` makes of a payload,
`Resaved` what becomes of a policy that is opened and saved. A file written by hand with an
empty id beside a name is taken by `parse_policy` as one for the id "", and is another policy
after a save; names and ids here are never empty.

### RestProxy and Canary

A slot holds one request. `handle` is the code up to the first await; then the request
waits for its identity, perhaps for its body, and for Home Assistant.

| Code | Model |
|---|---|
| `handle`, `_handle_api` to `resolve` | `PassShell`, `RefuseWrite`, `RefuseTripped`, `PassPublic`, `AskIdentity` |
| the identity is known | `Unauthorized`, `PassAdmin`, `RefuseUnassigned`, `RefuseEndpoint`, `Serve`, `ReadBody` |
| `_call_service` after `request.json()` | `DecideCall` |
| `_fetch_json`, `_passthrough`, what the handlers make of the reply | `Reply` with `told`, `ReplyError`, `UpstreamFails` |
| `run_canary` | `Begin`; `Asks` and `Records` for each REST check; `TimesOut` |
| `_ws_checks`, and `handle_ws` for it, an action per await | `Greeted` (the trip switch), `LooksUp` or `Unresolved` (identity and policy), `OpensSession` (upstream, then registered), `SessionChecks`, `Cut` |
| `CanaryRunner._loop` after the run | `Passes`, `Trips`, `TripsInVain` |
| `put_policy`, `delete_policy` with `disconnect_user`, for the canary's session | `Edit`: stage `session` becomes `closing` |

The policy a request is judged by is the one found when its identity was known (`ev`); the
registry is the one of each later moment. Around the requests: edits of every outcome
(`Put`), `Resave`, `Delete`, `RegistryChanges` (what RegistryCache does to the snapshot),
Home Assistant up, down or mute, an operator's hand on the trip file, crash and restart.
The canary's session is judged by the policy of its handshake (`canary.ev`). While it is
`closing` the canary may still get its answers or be cut (`Cut`), which the code records as a
failed check; the same goes for a Home Assistant that is down before or during the
session. Its three commands are one step, as nothing but the registry and the trip switch may
differ between them, and the token of the test user is one Home Assistant knows. `upgraded`
stands for a Home Assistant that has changed so that a session
leaks. The optional first check (`canary_allowed_read_entity`) is always configured.

## 3. Checks

Each property of a passing run has a mutant in its module (marked `Mutant:`), a plausible
bug that breaks it.

| Run | Shows |
|---|---|
| MCWsLists | Two lists, under two ids or one after the other under the same, answered in any order, with errors and odd payloads, under three policies and a registry that changes and ages: `NothingHiddenDelivered`, `FilteredWhileOutstanding`, `PendingAwaitsResult`, and the refinement `KeepsContract`. 759,000 states. |
| MCWsStreams | Every kind of subscription with its events, also odd and bare ones, unsubscription, and a list, under ids that may be used again: `SessionInv` (the inductive invariant of the proofs), `NothingHiddenDelivered`, `ForwardedInScope`, `KeepsContract`. 906,000 states. |
| MCWsActs | Service calls by entity, area, device, wildcard and without target, tokens, dashboards: `ForwardedInScope`, `PendingAwaitsResult`; with fairness, `EveryCommandAnswered` and `SessionTearsDown`. 503,000 states. |
| MCLivePolicy | Two concurrent admin requests, by id and by a name two users share, edits that leave two files claiming one user or go to the key of the other, files removed by hand, two connections, crashes: `OutdatedIsDoomed`, `StoreLoads`; with fairness, `RevokeTakesEffect`. 426,618 states. |
| MCIdentity | Three callers, two tokens: `AnswerWasTrueLately`, `SingleFlight`, `NoNeedlessQuestion`, `CacheBounded`; with fairness of the event loop alone, `StuckOnlyBehindSilence`. 249,952 states. |
| MCRegistry | Three registries Home Assistant may have: `SnapshotOfItsTime`; with fairness, `Converges` and `OutageNarrows`. 5,295 states. |
| MCCanary | Three deployments: no canary, every kind of request of a member, an admin and a stranger, and edits of the member's policy; a canary beside a stranger; a canary whose test user's policy is edited: `RestTellsOnlyReadable`, `RestCallsInScope`, `TripBites`, `ResaveKeepsRights`, `TripsForCause`; with fairness, `LeakTrips`. 224,517 states. |
| MCLiveRace, MCLiveDisk, MCLiveFallback, MCWsTripped, MCWsReuse | Violations, section 5. |

The type invariants are checked in MCWsLists, MCWsStreams (a conjunct of `SessionInv`)
and each of the last four.

**Bounds.** `MaxCommands = 2` per session, under one id or two: every property of the session
relates one command to another at most (a result taken for another's, an event of one
subscription beside a list, an entry overwritten by a second command), and the tables
are indexed by id. `MaxQueue` (1 or 2) bounds only the
frames in flight when Home Assistant *emits an event*; results are always free to queue
up, so two results can be in flight in either order, also behind an event. The house
has three entities in two domains, two areas (one of them in no policy), one device,
two dashboards, and two snapshots between which an entity changes its area and another
becomes known. The three policies use each kind of rule (entity, domain, area; read and
control), both dashboard forms, and the token grant. `EveryCommandAnswered` and
`SessionTearsDown` do not rest on a constraint that cuts behaviours: the client may
stop sending at any time.
LivePolicy needs no counter: edits may go on for ever. Two users with one display name
and three files suffice for every case of `find`; two connections for a disconnect with
more than one victim; two admins for two disconnects that overlap. Its edits are one that
turns the policy of the shared name into one of a user and one that sends that user's policy
under the key of the other, so that each order of the two, with deletions, is an accepted
or a refused edit.
IdentityResolver: three calls, of which two or three share a token, for a waiter behind a
waiter; lifetimes of 2 and 1 so that the two differ and an answer can age between two
looks; a limit of 1 so that the second token empties the cache.
RegistryCache: three registries that differ in the area of a device, in the area and device
of an entity and in what exists; a maximal age of three ticks against an interval of one,
so that a refresh can fail and succeed again before the snapshot is stale.
Canary: one slot for the traffic and the canary's, since requests meet only through policies,
registry and trip switch, which change by themselves; an interval of two ticks; three
snapshots, in one of which the forbidden entity is readable and one of which is stale. The
three deployments are separate initial states: with all of the traffic beside the canary the
instance has millions of states and no property relates the two.

Deadlock is not checked: a session that has ended with its commands used up, and a gateway
that is down on a directory that does not load, really stop.

**Fairness.** The event loop runs every coroutine that can go on, so weak fairness is
given to a pump that has a frame to relay or a closed socket to notice, to the handler
whose pumps have ended, to a disconnect under way, to a session of a closed socket, to a
call whose turn at the lock has come, to the registry loop when its sleep is over and
to the canary's loop.
In a session Home Assistant is assumed to answer each outstanding request as long as the
connection stands; `HaAnswers(no)` is fair for each command. Nothing is owed by a client, an
admin, a closing socket, the registry, the trip file or a boot, and no handshake is owed its end
(neither side's auth message has a timeout). Further assumptions, each on the module where
it is made: a REST request, the identity it needs and the steps of the canary's session
get their answers while Home Assistant is up (a single question lost on a half-open
connection, and the lock of the identity resolver it would hold, is outside `LeakTrips`; IdentityResolver has it);
time passes; a broken registry connection is noticed (heartbeat); a Home Assistant that
stays up does not fail every refresh, and a disk does not refuse every attempt to write the
trip file (strong fairness: either may fail any number of times, not always). Converges
and LeakTrips are about a Home Assistant that in the end stays up, OutageNarrows about one
that stays away, down or mute.

## 4. Proofs

`PolicyRules_proofs` proves, for every policy and every snapshot:

- `EnumerationIsReadable`: every entity `enumerable_read_entities` lists that exists
  passes `allowed_read`. The two are separate pieces of code (one asks per entity, one
  goes through the registry), and lists are filtered with the one, states with the other.
- `StalenessNarrowsRead`, `StalenessNarrowsCalls`: a snapshot that goes stale never
  shows more, and never allows a call it refused.
- `StaleLeavesEntitiesAndDomains`: what exactly is left then. The documentation says static
  entity rules (docs/architecture.md:146-147); it is those and the domain rules, for states and
  events, and the names of dashboards, the user's own and the built-in one. Areas, devices and
  whatever is granted by them are gone.

`WsSession_proofs` proves of `Spec`, for every house, set of policies, snapshots,
commands and calls, and every bound:

- `TypeCorrect`: `[]TypeOK`.
- `SessionInvariant`: `[]SessionInv`.
- `NothingHidden`: `[]NothingHiddenDelivered`, of the frames that are `Vouched`: under ids
  that were not crossed, and not the bare system data.

Nothing is assumed of the client: it may cross as many ids as it likes, and what is proved of
the other ids stands. Of the crossed ones it cannot be proved (section 5).

The argument. What a frame of Home Assistant becomes depends on the entry its id has in
`pending` or `subs`, so that nothing hidden is delivered cannot be seen from the step
that delivers: it must be known that the entry is there and is the right one. Hence
`SessionInv`, the conjunction of

- `TypeOK`: the tables hold only kinds that have a transform;
- `FilteredWhileOutstanding`: under an id that is not crossed, a request still to be answered, and
  a result under way,   whose content the policy might hide has a transform that suits it;
- `EventsAreSorted`: under such an id, a subscription that is or will be served, and an event
  under way,   has its entry, and an entry that relays unlooked has events about nothing;
- `OneResultEach`: at most one result is owed or under way per command, whatever its id, and
  at most one per id that is not crossed - otherwise the first result would take the entry
  out and the second find none;
- `ErrorsSayNothing`: an error, which is relayed as it is, is about nothing.

`SessionInv` is inductive: one lemma per group of actions, and under it one step per
conjunct. A command that uses an id again is the new case: if something is under way under
it, the id becomes crossed by the same step and is out of the invariant; if nothing is, no
frame, request or subscription is left that the overwritten entry was for (`Uncrossed`).
`NothingHidden` then follows with a lemma on `_transform_result` and one on
`_relay_event`, which use the facts of PolicyRules. The assumptions are those on the
constants (`PoliciesAssumption`, `SnapshotsAssumption`, ... and those of PolicyRules);
TLC evaluates them in every run of MCWsSession.

`WsContract_proofs` proves the rest of what the runs check of a session, under the same
assumptions:

- `ForwardsInScope`: `ForwardedInScope`. Of the ten branches of the router each either
  answers at once or forwards one request (`RouteShape`), and what it forwards was looked at
  in the same step; the one request that is rewritten, a subscription to entities, asks for
  what is enumerated, which `EnumerationIsReadable` says is readable.
- `PendingIsAwaited`: `[]PendingAwaitsResult`, for every id, crossed or not. An answer takes
  its entry with it, and an entry is only made together with a request.
- `OutstandingIsFiltered`: `[]FilteredWhileOutstanding`, a conjunct of `SessionInv`, of the
  ids that are not crossed.
- `SessionKeepsContract`: `KeepsContract`, that a session implements SessionContract. The
  initial states map to initial states; a command that is answered at once or forwarded is an
  `Ask`, a frame relayed a `Tell`, a registry change a `Move`, the end of the handler an `End`,
  and every other step a `Rest` or a stutter. A `Tell` needs that the command was open and
  that what is told is in scope, in the state before the step. So the invariant of the
  simulation (`ContractInv`) is `SessionInv` and `NothingHiddenDelivered` with two more:
  a result owed or under way is of a command not yet answered (`OpenUntilAnswered`), and a
  pump that runs belongs to a session that is registered (`LiveWhilePumping`), so that nothing
  is said when all is over.

`PolicyFiles_proofs` proves `ResavedKeepsRights`: for every policy, what the editor shows of
it is accepted by `put_policy` and is parsed to a policy of the same user with the same
rights (`SameRights`). The policy itself may change: a rule that is both read and control
is shown as control, and its read half is gone. That this makes no difference is
`SameRightsSameDecisions`: no decision of PolicyRules tells the two apart, whatever the
registry.

`Canary_proofs` proves of `Spec`, for every number of slots, set of users, policies,
requests, snapshots and every check interval:

- `TrippedStaysShut`: `TripBites`. A look at the trip file is cached, so it must be known
  that a file the last look did not see has stood no longer than that look is old
  (`SwitchInv`): then a request that gets past `is_tripped` either looked itself, or the
  file is younger than the interval.
- `RestNothingHidden`: `RestTellsOnlyReadable`. A list is filtered when it arrives, a
  single state is not: that it was readable when it was let through is carried along
  (`StatesWereChecked`).
- `ResavingKeepsRights`: `ResaveKeepsRights`, from `ResavedKeepsRights` and the fact that
  edits only ever install policies (`PoliciesOK`).
- `RestCallsAreInScope`: `RestCallsInScope`. A call is decided when its body is there; that a
  call that gets so far has an evaluator is part of the type.
- `CanaryTypeCorrect`: `[]TypeOK`, from the type of one request in each of its places.
- `CanaryTripsForCause`: `TripsForCause`. The verdict comes steps after what it rests on,
  so every sign of something wrong must have its cause with it (`CauseKnown`): a check that
  failed, an answer that is not the expected one, and a forbidden request that Home
  Assistant was asked. That needs the slot to hold the request of the check the canary is at
  (`ProbeOK`): nobody else touches it, and an answer to it is as expected, or something
  is wrong at that moment, or was when the request was let through (`ProbeAnswer`).
  What a step of the session can do to the run is `SessionShape`, what an edit can do
  `EditShape`. The causes are named in `Wrong`, and are more than leaks: a Home Assistant that
  is not up, a gateway already tripped, a test user without a policy or without the right it is
  expected to have, an error status from Home Assistant, and an edit, however harmless, that
  closes the canary's own session.

The invariant `Inv` is the conjunction of these with the shape of the requests. Its
preservation is proved per part of the state: one lemma says what a step can do to the
requests, one to the trip switch, one to the policies.

`RegistryCache_proofs` proves `TypeCorrect` (what the evaluators see is a `Snapshot`, which
is what every proof about them assumes) and `FetchedInItsTime` (`SnapshotOfItsTime`), from
an invariant that says the lists a refresh holds are of its time.

`LivePolicy_proofs` proves of `Spec`, for every number of users, files, connections and
admins, every edit, also by hand, and every way keys share files:

- `RevokedIsDoomed`: `OutdatedIsDoomed`. A change of the policies of one key is no change
  for a user the key does not mean (`FindSame`): so whoever is affected is a victim, and
  victims stay on their list until they are cut or have ended by themselves.
- `ServedSetLoads` (`StoreLoads`) and `TypeCorrect` (`TypeOK`).

The invariant adds that a gateway that is down has no sessions, without which a boot on an
edited directory would find some. `FirstDiskAssumption` says what the process itself
checks: it starts with a directory that loads.

`OutdatedIsDoomed` leaves out what hand edits, misaddressed PUTs and shared file names do, and
`DiskLoads` is violated by a PUT of that kind (section 5). Three more theorems say that these
are all there is. Their hypothesis is `PanelAlone`, about the constants: nobody edits
the directory by hand; a policy is sent under the key of its own user, as rbac-panel.js does;
no two keys have one slug, and at first no file has the slug of a key that is not its own. Then

- `PanelKeepsDisk`: the directory always loads and is what is served;
- `PanelRevokesReach`: the step that changes the policy of a registered session puts it on the
  list of a disconnect. No history variable is needed to say it: a handshake is the only way
  to miss a change;
- `PanelDeletes`: after a DELETE no policy is left for its key.

The invariant is `Tidy`: what is on disk is served, loads, and no policy lives in the file made
of another's key, so that a new file never overwrites one.

`IdentityResolver_proofs` proves of `Spec`, for any number of tokens and calls, any
lifetimes and any limit:

- `OneQuestionAtATime` (`SingleFlight`), by `LineInv`: a call under way is in the line of
  its token exactly once, and one that asks is at its head. Exactly once matters: a call
  that returns takes one place out.
- `AnswersAreRecent` (`AnswerWasTrueLately`), by `EntryInv` (the time an entry has left and
  the age of what it says make at most a lifetime) and `WordInv` (an answer on its way is
  no older than its question, and Home Assistant said it since the call began).
- `NobodyAsksInVain`, `CacheStaysSmall`, `TypeCorrect`.

Every safety invariant and every action property of a passing run is the statement of a
theorem. Only model-checked: the liveness properties (`EveryCommandAnswered`,
`SessionTearsDown`, `RevokeTakesEffect`, `StuckOnlyBehindSilence`, `Converges`, `OutageNarrows`,
`LeakTrips`), as the proof system does not handle fairness and ENABLED. Not proved either:
that a payload of a concrete shape is about the items the models say (there are no payloads
in them).

## 5. Where code and documentation disagree

Each is a run whose one property says what a document says, and which TLC violates.

- **A revoke does not reach a session in its handshake** (`LiveSessionsCurrent`).
  `handle_ws` looks the policy up before three awaits and registers after them;
  `disconnect_user` sees registered sessions only. SECURITY.md:106-109 says a revoke
  takes effect immediately.
- **A tripped gateway goes on telling** (`TrippedTellsNothing`). Only commands are
  checked; results under way and events of open sessions are relayed.
  docs/architecture.md:150-151 says all restricted traffic is denied.
- **A reused id takes a filter away** (`NothingHiddenEver`). `pending` and `subs` are kept
  by the id the client chose, and a command under an id in use overwrites the entry: the answer
  to a get_states under way is then relayed as that of a service call, and state events by
  the kind of a later subscription. ws_proxy.py:5-6 says that frames are filtered according
  to what the client was allowed to subscribe to.
- **A refused PUT stays on disk** (`DiskLoads`): validated alone, written, refused by
  the reload, and then in the way of the next boot. admin_api.py:264 says "validate
  exactly as the gateway will". The panel alone cannot bring it about (`PanelKeepsDisk`).
- **Deleting a policy by id uncovers one by name** (`RevokeLocksOut`, of a user who has a
  policy by id). web/rbac-panel.js:298 says the user is now locked out.

Two more disagreements have no run. Entities of domain rules, not only of entity rules, stay
readable under a stale registry, against docs/architecture.md:146-147:
`StaleLeavesEntitiesAndDomains` proves exactly what stays. And canary.py:170 says that the
gateway does not trip on an infrastructure error: one during the canary's session is recorded
as a failed check by `_ws_checks` (canary.py:120) and trips it, and so does an edit of the test
user's policy, which closes that session. `TripsForCause` counts both among the causes.

## 6. Not modelled, and why

- The passthrough session of an admin: relays every frame and keeps no table.
- YAML and the wrong shapes of a policy file other than a bad access level or token grant:
  tests cover the parser's refusals one by one, and a refused text changes nothing.
- The configuration, reading endpoints, audit log, health, command line (also the
  canary's), the browser panel, packaging: no state that another part acts on.
- The shape of payloads and the location fields of a state: `odd` and `HomeLocation`
  stand for them. Headers, compression and hop-by-hop rules of the REST proxy.
- What exactly a client gets under a crossed id: the model says no more than that it may be
  something the policy hides.
- Entity lists in one comma-separated string, and policy files with an empty id.
- Timeouts of connections and heartbeats: a socket may close at any moment. The
  canary's session has no timeout either: while Home Assistant is mute the model gives no
  verdict.
- Backups of policy files: nothing reads them. Two keys with one slug are in the model and
  in its proofs, not in its instance, which gives each key its own file.
- Bytes of REST bodies: a request passed through without an evaluator is no restricted
  user's, or about no item.

## 7. Plan

Written, in this order: PolicyRules, SessionContract and WsSession with its proofs (the
most important behaviour), LivePolicy, IdentityResolver, RegistryCache with its proofs,
TripSwitch, PolicyFiles, RestProxy and Canary with theirs.

Then the proofs of LivePolicy and IdentityResolver, that WsSession implements
SessionContract, and the remaining safety properties of WsSession and Canary.

Next: abstract specifications for IdentityResolver and LivePolicy in the manner of
SessionContract, with their refinements proved; the safety halves of the liveness properties
(that whoever waits is waited for by someone who can go on).

The runs are few on purpose: a new component gets one run of its properties, and
properties of one instance share a run.
