----------------------------- MODULE LivePolicy -----------------------------
(***************************************************************************)
(* Policy changes against open sessions: the admin API writes and deletes  *)
(* policy files, reloads the running PolicyStore and force-closes the      *)
(* sessions of the user (admin_api.py, server.py), while clients connect,  *)
(* pass the handshake with the policy it found, register and leave         *)
(* (handle_ws of ws_proxy.py).  All are coroutines of one event loop: a    *)
(* step here is the code between two awaits.                               *)
(*                                                                         *)
(* A policy is the user it names, by id or by display name, and its rules; *)
(* the traffic of a session is the subject of WsSession.  A crash loses    *)
(* everything but the directory of policy files.                           *)
(***************************************************************************)
EXTENDS Naturals, FiniteSets

CONSTANTS
    Users,          \* Home Assistant users restricted by the gateway
    IdOf, NameOf,   \* their id and their display name
    Keys,           \* the ids and names an admin may address
    Files,          \* policy file names
    SlugOf,         \* _safe_filename: the file name made of a key
    Rules,          \* what a policy may allow
    Edits,          \* the edits admins make: the key addressed, the policy sent
    HandEdits,      \* what an operator may put into a file, None to remove it
    FirstDisk,      \* the policy directory at first boot
    Conns,          \* client connections
    Owner,          \* whose token each of them presents
    Admins,         \* concurrent requests to the admin API
    None            \* no policy, no connection

Policy == [user : Keys, rules : Rules]
Directory == [Files -> Policy \cup {None}]

ASSUME UserAssumption == IdOf \in [Users -> Keys] /\ NameOf \in [Users -> Keys]
ASSUME IdNameAssumption ==
    /\ \A u, v \in Users : IdOf[u] # NameOf[v]
    /\ \A u, v \in Users : IdOf[u] = IdOf[v] => u = v
ASSUME FileAssumption == SlugOf \in [Keys -> Files] /\ FirstDisk \in Directory
ASSUME EditAssumption ==
    Edits \subseteq Keys \X Policy /\ HandEdits \subseteq Policy \cup {None}
ASSUME OwnerAssumption == Owner \in [Conns -> Users]
ASSUME NoneAssumption == None \notin Policy /\ None \notin Conns

VARIABLES
    disk,           \* the policy directory
    store,          \* gw.policies: the directory as last loaded
    up,             \* the gateway process runs
    pc,             \* where handle_ws is for each connection
    held,           \* the policy its evaluator was made with
    client, ups,    \* its two sockets are open
    missed,         \* history: its policy changed where no disconnect could know of it
    op              \* each admin request: its kind, key and connections to cut

conns == <<pc, held, client, ups, missed>>
sockets == <<pc, held, client, ups>>
vars == <<disk, store, up, pc, held, client, ups, missed, op>>

-----------------------------------------------------------------------------
\* PolicyStore and the choice of a policy file.

\* load_dir refuses two policies of one id or of one name.
Loadable(dir) ==
    \A f, g \in Files : f # g /\ dir[f] # None /\ dir[g] # None => dir[f].user # dir[g].user

\* The process starts with a directory that loads, or not at all.
ASSUME FirstDiskAssumption == Loadable(FirstDisk)

FilesFor(dir, key) == {f \in Files : dir[f] # None /\ dir[f].user = key}

\* A policy by id goes before one by name.
find(dir, u) ==
    IF FilesFor(dir, IdOf[u]) # {} THEN dir[CHOOSE f \in FilesFor(dir, IdOf[u]) : TRUE]
    ELSE IF FilesFor(dir, NameOf[u]) # {} THEN dir[CHOOSE f \in FilesFor(dir, NameOf[u]) : TRUE]
    ELSE None

_existing_file_for(key) ==
    IF FilesFor(store, key) # {} THEN CHOOSE f \in FilesFor(store, key) : TRUE ELSE SlugOf[key]

-----------------------------------------------------------------------------
\* handle_ws.

Handshaking == {"resolving", "dialing", "greeting"}

live_ws == {c \in Conns : pc[c] = "live"}

Move(c, from, to) == up /\ pc[c] = from /\ pc' = [pc EXCEPT ![c] = to]

\* Both sockets are closed, nothing is left of the session.  Cutting a session
\* that has ended is a no-op, so it need not be remembered.
Ends(c) ==
    /\ pc' = [pc EXCEPT ![c] = "off"]
    /\ held' = [held EXCEPT ![c] = None]
    /\ client' = [client EXCEPT ![c] = FALSE]
    /\ ups' = [ups EXCEPT ![c] = FALSE]
    /\ missed' = [missed EXCEPT ![c] = FALSE]
    /\ op' = [a \in Admins |-> [op[a] EXCEPT !.victims = @ \ {c},
                                             !.cutting = IF @ = c THEN None ELSE @]]
    /\ UNCHANGED <<disk, store, up>>

\* The client presented its token and the gateway is not tripped.
Connect(c) ==
    /\ Move(c, "off", "resolving")
    /\ client' = [client EXCEPT ![c] = TRUE]
    /\ UNCHANGED <<disk, store, up, held, ups, missed, op>>

\* identity.resolve returned; the policy is looked up without another await.
Resolve(c) ==
    /\ find(store, Owner[c]) # None
    /\ Move(c, "resolving", "dialing")
    /\ held' = [held EXCEPT ![c] = find(store, Owner[c])]
    /\ UNCHANGED <<disk, store, up, client, ups, missed, op>>

RefuseUnassigned(c) ==
    /\ up /\ pc[c] = "resolving" /\ find(store, Owner[c]) = None
    /\ Ends(c)

\* The upstream is connected and has accepted the token.
UpstreamReady(c) ==
    /\ Move(c, "dialing", "greeting")
    /\ ups' = [ups EXCEPT ![c] = TRUE]
    /\ UNCHANGED <<disk, store, up, held, client, missed, op>>

\* auth_ok has been sent; from here on disconnect_user can see the session.
Register(c) ==
    /\ client[c]
    /\ Move(c, "greeting", "live")
    /\ missed' = [missed EXCEPT ![c] = held[c] # find(store, Owner[c])]
    /\ UNCHANGED <<disk, store, up, held, client, ups, op>>

\* No token, tripped, unknown token, upstream down or refusing, client gone.
HandshakeFails(c) == up /\ pc[c] \in Handshaking /\ Ends(c)

\* One socket closed: both pumps end, the session is unregistered.
SessionEnds(c) == up /\ pc[c] = "live" /\ (~client[c] \/ ~ups[c]) /\ Ends(c)

ClientLeaves(c) ==
    /\ client[c] /\ client' = [client EXCEPT ![c] = FALSE]
    /\ UNCHANGED <<disk, store, up, pc, held, ups, missed, op>>

-----------------------------------------------------------------------------
\* The admin API.  Writing the file, reloading and choosing the sessions to cut
\* happen without an await; the sessions are then closed one after the other.

Idle == [kind |-> "idle", key |-> None, victims |-> {}, cutting |-> None]

\* Mutant: the users found are collected, not their sessions.
VictimUsers(key) ==
    {IdOf[Owner[c]] : c \in {d \in live_ws : key \in {IdOf[Owner[d]], NameOf[Owner[d]]}}}

\* Mutant: only the user id of a session is compared.
VictimsById(key) == {c \in live_ws : key = IdOf[Owner[c]]}

Victims(key) == {c \in live_ws : key \in {IdOf[Owner[c]], NameOf[Owner[c]]}}

\* The step changes a policy that is served and is not the one of key.
ChangesOthers(key) ==
    \E f \in Files : /\ store'[f] # store[f]
                     /\ \E p \in {store[f], store'[f]} \ {None} : p.user # key

\* A disconnect knows only its key.  But a reload serves all of the directory, also
\* what a refused PUT or a hand had left there; the policy sent may name another
\* user than the key it is sent under; and the file it goes to may be another's.
Overlooks(key, victims) ==
    missed' = [c \in Conns |->
        \/ missed[c]
        \/ /\ pc[c] = "live" /\ c \notin victims
           /\ find(store', Owner[c]) # find(store, Owner[c])
           /\ ChangesOthers(key)]

Begin(a, kind, key, victims) ==
    /\ op' = [op EXCEPT ![a] = [kind |-> kind, key |-> key, victims |-> victims,
                                cutting |-> None]]
    /\ Overlooks(key, victims)
    /\ UNCHANGED <<up, sockets>>

\* Mutant: the store is swapped before the new set is checked.
SwapAndCut(a, kind, key) == store' = disk' /\ Begin(a, kind, key, Victims(key))

\* A reload that fails keeps the running store, and nobody is disconnected.
ReloadAndCut(a, kind, key) ==
    IF Loadable(disk')
    THEN store' = disk' /\ Begin(a, kind, key, Victims(key))
    ELSE store' = store /\ Begin(a, "failed", key, {})

put_policy(a) ==
    /\ up /\ op[a] = Idle
    /\ \E edit \in Edits :
         /\ disk' = [disk EXCEPT ![_existing_file_for(edit[1])] = edit[2]]
         /\ ReloadAndCut(a, "put", edit[1])

delete_policy(a) ==
    /\ up /\ op[a] = Idle
    /\ \E key \in Keys :
         IF FilesFor(store, key) = {}
         THEN UNCHANGED <<disk, store>> /\ Begin(a, "delete", key, {})
         ELSE /\ disk' = [disk EXCEPT ![_existing_file_for(key)] = None]
              /\ ReloadAndCut(a, "delete", key)

\* Mutant: a disconnect first waits for the others under way.
CutClientAlone(a) ==
    /\ up /\ op[a].cutting = None
    /\ \A b \in Admins \ {a} : op[b].victims = {} /\ op[b].cutting = None
    /\ \E c \in op[a].victims :
         /\ op' = [op EXCEPT ![a].cutting = c, ![a].victims = @ \ {c}]
         /\ client' = [client EXCEPT ![c] = FALSE]
    /\ UNCHANGED <<disk, store, up, pc, held, ups, missed>>

\* disconnect_user goes through its victims; close_now closes the client first.
CutClient(a) ==
    /\ up /\ op[a].cutting = None
    /\ \E c \in op[a].victims :
         /\ op' = [op EXCEPT ![a].cutting = c, ![a].victims = @ \ {c}]
         /\ client' = [client EXCEPT ![c] = FALSE]
    /\ UNCHANGED <<disk, store, up, pc, held, ups, missed>>

CutUpstream(a) ==
    /\ up /\ op[a].cutting # None
    /\ ups' = [ups EXCEPT ![op[a].cutting] = FALSE]
    /\ op' = [op EXCEPT ![a].cutting = None]
    /\ UNCHANGED <<disk, store, up, pc, held, client, missed>>

Respond(a) ==
    /\ up /\ op[a].kind # "idle" /\ op[a].victims = {} /\ op[a].cutting = None
    /\ op' = [op EXCEPT ![a] = Idle]
    /\ UNCHANGED <<disk, store, up, conns>>

\* The directory is edited by hand; nothing happens until the next reload.
HandEdit ==
    /\ \E f \in Files, p \in HandEdits : disk[f] # p /\ disk' = [disk EXCEPT ![f] = p]
    /\ UNCHANGED <<store, up, conns, op>>

-----------------------------------------------------------------------------
\* The process.

AllOff ==
    /\ pc' = [c \in Conns |-> "off"]
    /\ held' = [c \in Conns |-> None]
    /\ client' = [c \in Conns |-> FALSE]
    /\ ups' = [c \in Conns |-> FALSE]
    /\ missed' = [c \in Conns |-> FALSE]
    /\ op' = [a \in Admins |-> Idle]

Crash == up /\ up' = FALSE /\ AllOff /\ UNCHANGED <<disk, store>>

\* A directory that does not load keeps the gateway down.
Boot ==
    /\ ~up /\ Loadable(disk)
    /\ up' = TRUE /\ store' = disk
    /\ UNCHANGED <<disk, conns, op>>

Init ==
    /\ disk = FirstDisk /\ store = FirstDisk
    /\ up = TRUE
    /\ pc = [c \in Conns |-> "off"]
    /\ held = [c \in Conns |-> None]
    /\ client = [c \in Conns |-> FALSE]
    /\ ups = [c \in Conns |-> FALSE]
    /\ missed = [c \in Conns |-> FALSE]
    /\ op = [a \in Admins |-> Idle]

Handle(c) ==
    \/ Connect(c) \/ Resolve(c) \/ RefuseUnassigned(c) \/ UpstreamReady(c) \/ Register(c)
    \/ HandshakeFails(c) \/ SessionEnds(c) \/ ClientLeaves(c)

Administer(a) == put_policy(a) \/ delete_policy(a) \/ CutClient(a) \/ CutUpstream(a) \/ Respond(a)

Next ==
    \/ \E c \in Conns : Handle(c)
    \/ \E a \in Admins : Administer(a)
    \/ HandEdit \/ Crash \/ Boot

Spec == Init /\ [][Next]_vars

(***************************************************************************)
(* Fairness: the event loop resumes a disconnect that is under way and a   *)
(* session whose socket closed.  No client, admin or boot is owed a step.  *)
(***************************************************************************)
Fairness ==
    /\ \A a \in Admins : WF_vars(CutClient(a)) /\ WF_vars(CutUpstream(a))
    /\ \A c \in Conns : WF_vars(SessionEnds(c))

FairSpec == Spec /\ Fairness

-----------------------------------------------------------------------------
\* Properties.

\* Every variable has its type; a session holds one policy, or none.
TypeOK ==
    /\ disk \in Directory /\ store \in Directory
    /\ up \in BOOLEAN
    /\ pc \in [Conns -> Handshaking \cup {"off", "live"}]
    /\ held \in [Conns -> Policy \cup {None}]
    /\ client \in [Conns -> BOOLEAN] /\ ups \in [Conns -> BOOLEAN] /\ missed \in [Conns -> BOOLEAN]
    /\ op \in [Admins -> [kind : {"idle", "put", "delete", "failed"}, key : Keys \cup {None},
                          victims : SUBSET Conns, cutting : Conns \cup {None}]]

Outdated(c) == pc[c] = "live" /\ held[c] # find(store, Owner[c])

Doomed(c) == ~client[c] \/ ~ups[c] \/ \E a \in Admins : c \in op[a].victims \cup {op[a].cutting}

\* A registered session whose policy was changed or removed under it is closed
\* or on the list of a disconnect under way, whichever admin request changed the
\* policy and whether it was addressed by id or by name (disconnect_user).  Left
\* out is what no disconnect can know of: a change before the session registered,
\* and a change of the policy of a user other than the one addressed, because a
\* file was edited by hand, a refused PUT left there, sent under the wrong key or
\* written over the file of another.
OutdatedIsDoomed == \A c \in Conns : Outdated(c) /\ ~missed[c] => Doomed(c)

\* And it does end (or was brought up to date by another edit): the disconnect
\* reaches every session on its list, one at a time.
RevokeTakesEffect == \A c \in Conns : Outdated(c) /\ ~missed[c] ~> ~Outdated(c)

\* No session is served under a policy its user no longer has, once no admin
\* request is under way.
LiveSessionsCurrent ==
    (\A a \in Admins : op[a] = Idle) => \A c \in live_ws : client[c] => ~Outdated(c)

\* The directory always loads, so that a restart brings the gateway back.
DiskLoads == Loadable(disk)

\* What the gateway serves from has one policy per user, whatever is on disk: an
\* edit that does not load is not taken into service (reload_policies).
StoreLoads == Loadable(store)

\* A user whose own policy, the one written for the user's id, an admin deletes
\* has none afterwards: the removal locks the user out (delete_policy).
RevokeLocksOut ==
    [][\A a \in Admins, u \in Users :
         /\ op[a] = Idle /\ op'[a].kind = "delete" /\ op'[a].key = IdOf[u]
         /\ FilesFor(store, IdOf[u]) # {}
         => find(store', u) = None]_vars
=============================================================================
