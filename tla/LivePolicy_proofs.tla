------------------------- MODULE LivePolicy_proofs -------------------------
(***************************************************************************)
(* What LivePolicy promises for every set of users, files, edits,          *)
(* connections and admins: what is served has one policy per user, and a   *)
(* session whose policy changed under it is on its way out.                *)
(***************************************************************************)
EXTENDS LivePolicy, TLAPS

\* A gateway that is down serves nobody, so a boot finds no session to mind.
DownIsEmpty == ~up => \A c \in Conns : pc[c] = "off"

Inv == TypeOK /\ StoreLoads /\ DownIsEmpty /\ OutdatedIsDoomed

-----------------------------------------------------------------------------
\* Policies and files.

\* What find returns is a policy, or none.
LEMMA FindType ==
    ASSUME NEW dir \in Directory, NEW u \in Users
    PROVE  find(dir, u) \in Policy \cup {None}
BY DEF find, FilesFor, Directory

\* A key has a file, whether a policy lives in one already or not.
LEMMA ExistingFileType ==
    ASSUME TypeOK, NEW key \in Keys
    PROVE  _existing_file_for(key) \in Files
BY FileAssumption DEF _existing_file_for, FilesFor

\* A change of the policies of one key is none to a user the key does not mean.
LEMMA FindSame ==
    ASSUME NEW old \in Directory, NEW new \in Directory, NEW u \in Users, NEW key,
           key # IdOf[u], key # NameOf[u],
           \A f \in Files : new[f] # old[f] =>
               \A p \in {old[f], new[f]} \ {None} : p.user = key
    PROVE  find(new, u) = find(old, u)
<1>1. ASSUME NEW k, k # key
      PROVE  /\ FilesFor(new, k) = FilesFor(old, k)
             /\ \A f \in FilesFor(old, k) : new[f] = old[f]
  BY <1>1 DEF FilesFor
<1>2. FilesFor(new, IdOf[u]) = FilesFor(old, IdOf[u])
      /\ \A f \in FilesFor(old, IdOf[u]) : new[f] = old[f]
  BY <1>1
<1>3. FilesFor(new, NameOf[u]) = FilesFor(old, NameOf[u])
      /\ \A f \in FilesFor(old, NameOf[u]) : new[f] = old[f]
  BY <1>1
<1>4. CASE FilesFor(old, IdOf[u]) # {}
  BY <1>2, <1>4 DEF find
<1>5. CASE FilesFor(old, IdOf[u]) = {} /\ FilesFor(old, NameOf[u]) # {}
  BY <1>2, <1>3, <1>5 DEF find
<1>6. CASE FilesFor(old, IdOf[u]) = {} /\ FilesFor(old, NameOf[u]) = {}
  BY <1>2, <1>3, <1>6 DEF find
<1> QED BY <1>4, <1>5, <1>6

-----------------------------------------------------------------------------
\* The invariant holds at first.

LEMMA InitInv == Init => Inv
<1> SUFFICES ASSUME Init PROVE Inv
  OBVIOUS
<1>1. TypeOK
  BY FileAssumption DEF Init, TypeOK, Idle, Handshaking
<1>2. StoreLoads
  BY FirstDiskAssumption DEF Init, StoreLoads
<1>3. DownIsEmpty /\ OutdatedIsDoomed
  BY DEF Init, DownIsEmpty, OutdatedIsDoomed, Outdated
<1> QED BY <1>1, <1>2, <1>3 DEF Inv

-----------------------------------------------------------------------------
\* The steps of a connection.

\* A session that ends leaves the others as they were, on their lists.
LEMMA EndsInv ==
    ASSUME Inv, NEW c \in Conns, up, Ends(c)
    PROVE  Inv'
<1> USE DEF Inv, Ends
<1>1. TypeOK'
  <2>1. op' \in [Admins -> [kind : {"idle", "put", "delete", "failed"}, key : Keys \cup {None},
                            victims : SUBSET Conns, cutting : Conns \cup {None}]]
    <3> SUFFICES ASSUME NEW a \in Admins
                 PROVE  op'[a] \in [kind : {"idle", "put", "delete", "failed"},
                                    key : Keys \cup {None}, victims : SUBSET Conns,
                                    cutting : Conns \cup {None}]
      OBVIOUS
    <3>1. op[a] \in [kind : {"idle", "put", "delete", "failed"}, key : Keys \cup {None},
                     victims : SUBSET Conns, cutting : Conns \cup {None}]
      BY DEF TypeOK
    <3>2. op'[a] = [op[a] EXCEPT !.victims = @ \ {c},
                                 !.cutting = IF @ = c THEN None ELSE @]
      OBVIOUS
    <3> QED BY <3>1, <3>2
  <2> QED BY <2>1 DEF TypeOK
<1>2. StoreLoads' /\ DownIsEmpty'
  BY DEF StoreLoads, DownIsEmpty, TypeOK
<1>3. OutdatedIsDoomed'
  <2> SUFFICES ASSUME NEW d \in Conns, Outdated(d)', ~missed'[d] PROVE Doomed(d)'
    BY DEF OutdatedIsDoomed
  <2>1. d # c /\ Outdated(d) /\ ~missed[d]
    BY DEF Outdated, TypeOK
  <2>2. Doomed(d)
    BY <2>1 DEF OutdatedIsDoomed
  <2>3. ASSUME NEW a \in Admins, d \in op[a].victims \cup {op[a].cutting}
        PROVE  d \in op'[a].victims \cup {op'[a].cutting}
    <3>1. /\ op'[a] = [op[a] EXCEPT !.victims = @ \ {c},
                                    !.cutting = IF @ = c THEN None ELSE @]
          /\ op[a] \in [kind : {"idle", "put", "delete", "failed"}, key : Keys \cup {None},
                        victims : SUBSET Conns, cutting : Conns \cup {None}]
      BY DEF TypeOK
    <3>2. /\ op'[a].victims = op[a].victims \ {c}
          /\ op'[a].cutting = IF op[a].cutting = c THEN None ELSE op[a].cutting
      BY <3>1
    <3> QED BY <2>1, <2>3, <3>2
  <2>4. client'[d] = client[d] /\ ups'[d] = ups[d]
    BY <2>1 DEF TypeOK
  <2> QED BY <2>2, <2>3, <2>4 DEF Doomed
<1> QED BY <1>1, <1>2, <1>3

\* The steps of handle_ws, and a client that leaves.
LEMMA HandleInv ==
    ASSUME Inv, NEW c \in Conns, Handle(c)
    PROVE  Inv'
<1> USE DEF Inv
<1>1. CASE Connect(c)
  BY <1>1
     DEF Connect, Move, TypeOK, StoreLoads, DownIsEmpty, OutdatedIsDoomed, Outdated, Doomed,
         Handshaking
<1>2. CASE Resolve(c)
  <2>1. find(store, Owner[c]) \in Policy
    BY <1>2, FindType, OwnerAssumption DEF Resolve, TypeOK
  <2> QED BY <1>2, <2>1
     DEF Resolve, Move, TypeOK, StoreLoads, DownIsEmpty, OutdatedIsDoomed, Outdated, Doomed,
         Handshaking
<1>3. CASE RefuseUnassigned(c)
  BY <1>3, EndsInv DEF RefuseUnassigned
<1>4. CASE UpstreamReady(c)
  BY <1>4
     DEF UpstreamReady, Move, TypeOK, StoreLoads, DownIsEmpty, OutdatedIsDoomed, Outdated,
         Doomed, Handshaking
<1>5. CASE Register(c)
  BY <1>5
     DEF Register, Move, TypeOK, StoreLoads, DownIsEmpty, OutdatedIsDoomed, Outdated, Doomed,
         Handshaking
<1>6. CASE HandshakeFails(c)
  BY <1>6, EndsInv DEF HandshakeFails
<1>7. CASE SessionEnds(c)
  BY <1>7, EndsInv DEF SessionEnds
<1>8. CASE ClientLeaves(c)
  BY <1>8 DEF ClientLeaves, TypeOK, StoreLoads, DownIsEmpty, OutdatedIsDoomed, Outdated, Doomed
<1> QED BY <1>1, <1>2, <1>3, <1>4, <1>5, <1>6, <1>7, <1>8 DEF Handle

-----------------------------------------------------------------------------
\* The steps of an admin request.

\* A change of what is served reaches every session of the user addressed, or the
\* session is noted as missed.
LEMMA BeginDooms ==
    ASSUME Inv, NEW a \in Admins, NEW kind, NEW key \in Keys, NEW victims \in SUBSET Conns,
           op[a] = Idle, Begin(a, kind, key, victims), store' \in Directory,
           store' # store => victims = Victims(key)
    PROVE  OutdatedIsDoomed'
<1> USE DEF Inv, Begin
<1> SUFFICES ASSUME NEW c \in Conns, Outdated(c)', ~missed'[c] PROVE Doomed(c)'
  BY DEF OutdatedIsDoomed
<1>1. pc[c] = "live" /\ ~missed[c] /\ client'[c] = client[c] /\ ups'[c] = ups[c]
  BY DEF Outdated, Overlooks, sockets
<1>2. CASE find(store', Owner[c]) = find(store, Owner[c])
  <2>1. Doomed(c)
    BY <1>1, <1>2 DEF Outdated, OutdatedIsDoomed, sockets
  <2>2. ASSUME NEW b \in Admins, c \in op[b].victims \cup {op[b].cutting}
        PROVE  b # a /\ op'[b] = op[b]
    BY <2>2, NoneAssumption DEF Idle, TypeOK
  <2> QED BY <1>1, <2>1, <2>2 DEF Doomed
<1>3. CASE find(store', Owner[c]) # find(store, Owner[c]) /\ c \in victims
  BY <1>3 DEF Doomed, TypeOK
<1>4. CASE find(store', Owner[c]) # find(store, Owner[c]) /\ c \notin victims
  <2>1. ~ChangesOthers(key)
    BY <1>1, <1>4 DEF Overlooks
  <2>2. key # IdOf[Owner[c]] /\ key # NameOf[Owner[c]]
    BY <1>1, <1>4 DEF Victims, live_ws
  <2>3. \A f \in Files : store'[f] # store[f] =>
            \A p \in {store[f], store'[f]} \ {None} : p.user = key
    BY <2>1 DEF ChangesOthers
  <2>4. store \in Directory /\ Owner[c] \in Users
    BY OwnerAssumption DEF TypeOK
  <2>5. find(store', Owner[c]) = find(store, Owner[c])
    BY <2>2, <2>3, <2>4, FindSame
  <2> QED BY <1>4, <2>5
<1> QED BY <1>2, <1>3, <1>4

\* The write, the reload and the choice of the victims.
LEMMA ReloadInv ==
    ASSUME Inv, NEW a \in Admins, NEW kind \in {"put", "delete"}, NEW key \in Keys,
           up, op[a] = Idle, disk' \in Directory, ReloadAndCut(a, kind, key)
    PROVE  Inv'
<1> USE DEF Inv
<1>1. Victims(key) \in SUBSET Conns
  BY DEF Victims, live_ws
<1>2. PICK k \in {"put", "delete", "failed"}, victims \in SUBSET Conns :
        /\ Begin(a, k, key, victims)
        /\ store' # store => victims = Victims(key)
        /\ store' \in Directory /\ Loadable(store')
  BY <1>1 DEF ReloadAndCut, TypeOK, StoreLoads
<1>3. TypeOK'
  BY <1>2 DEF Begin, Overlooks, sockets, TypeOK
<1>4. StoreLoads' /\ DownIsEmpty'
  BY <1>2 DEF Begin, sockets, StoreLoads, DownIsEmpty
<1>5. OutdatedIsDoomed'
  BY <1>2, BeginDooms
<1> QED BY <1>3, <1>4, <1>5

LEMMA AdministerInv ==
    ASSUME Inv, NEW a \in Admins, Administer(a)
    PROVE  Inv'
<1> USE DEF Inv
<1>1. CASE put_policy(a)
  <2>1. PICK edit \in Edits :
          /\ disk' = [disk EXCEPT ![_existing_file_for(edit[1])] = edit[2]]
          /\ ReloadAndCut(a, "put", edit[1])
    BY <1>1 DEF put_policy
  <2>2. edit[1] \in Keys /\ edit[2] \in Policy
    BY EditAssumption
  <2>3. disk' \in Directory
    BY <2>1, <2>2, ExistingFileType DEF TypeOK, Directory
  <2> QED BY <1>1, <2>1, <2>2, <2>3, ReloadInv DEF put_policy
<1>2. CASE delete_policy(a)
  <2>1. PICK key \in Keys :
          IF FilesFor(store, key) = {}
          THEN UNCHANGED <<disk, store>> /\ Begin(a, "delete", key, {})
          ELSE /\ disk' = [disk EXCEPT ![_existing_file_for(key)] = None]
               /\ ReloadAndCut(a, "delete", key)
    BY <1>2 DEF delete_policy
  <2>2. CASE FilesFor(store, key) = {}
    <3>1. UNCHANGED <<disk, store>> /\ Begin(a, "delete", key, {})
      BY <2>1, <2>2
    <3>2. TypeOK' /\ StoreLoads' /\ DownIsEmpty'
      BY <3>1 DEF Begin, Overlooks, sockets, TypeOK, StoreLoads, DownIsEmpty
    <3>3. OutdatedIsDoomed'
      BY <1>2, <3>1, BeginDooms DEF delete_policy, TypeOK
    <3> QED BY <3>2, <3>3
  <2>3. CASE FilesFor(store, key) # {}
    <3>1. disk' \in Directory
      BY <2>1, <2>3, ExistingFileType DEF TypeOK, Directory
    <3> QED BY <1>2, <2>1, <2>3, <3>1, ReloadInv DEF delete_policy
  <2> QED BY <2>2, <2>3
<1>3. CASE CutClient(a)
  <2>1. PICK c \in op[a].victims :
          /\ op' = [op EXCEPT ![a].cutting = c, ![a].victims = @ \ {c}]
          /\ client' = [client EXCEPT ![c] = FALSE]
    BY <1>3 DEF CutClient
  <2>2. c \in Conns /\ op[a].cutting = None
    BY <1>3 DEF CutClient, TypeOK
  <2>3. TypeOK' /\ StoreLoads' /\ DownIsEmpty'
    BY <1>3, <2>1, <2>2 DEF CutClient, TypeOK, StoreLoads, DownIsEmpty
  <2>4. ASSUME NEW d \in Conns, Doomed(d)
        PROVE  Doomed(d)'
    <3>1. CASE d = c
      BY <2>1, <3>1 DEF Doomed, TypeOK
    <3>2. CASE d # c
      BY <1>3, <2>1, <2>2, <2>4, <3>2, NoneAssumption DEF CutClient, Doomed, TypeOK
    <3> QED BY <3>1, <3>2
  <2> QED BY <1>3, <2>3, <2>4 DEF CutClient, OutdatedIsDoomed, Outdated
<1>4. CASE CutUpstream(a)
  <2>1. op[a].cutting \in Conns
    BY <1>4 DEF CutUpstream, TypeOK
  <2>2. TypeOK' /\ StoreLoads' /\ DownIsEmpty'
    BY <1>4, <2>1 DEF CutUpstream, TypeOK, StoreLoads, DownIsEmpty
  <2>3. ASSUME NEW d \in Conns, Doomed(d)
        PROVE  Doomed(d)'
    <3>1. CASE d = op[a].cutting
      BY <1>4, <3>1 DEF CutUpstream, Doomed, TypeOK
    <3>2. CASE d # op[a].cutting
      BY <1>4, <2>1, <2>3, <3>2 DEF CutUpstream, Doomed, TypeOK
    <3> QED BY <3>1, <3>2
  <2> QED BY <1>4, <2>2, <2>3 DEF CutUpstream, OutdatedIsDoomed, Outdated
<1>5. CASE Respond(a)
  <2>1. TypeOK' /\ StoreLoads' /\ DownIsEmpty'
    BY <1>5 DEF Respond, conns, Idle, TypeOK, StoreLoads, DownIsEmpty
  <2>2. ASSUME NEW d \in Conns, Doomed(d)
        PROVE  Doomed(d)'
    BY <1>5, <2>2, NoneAssumption DEF Respond, conns, Doomed, TypeOK
  <2> QED BY <1>5, <2>1, <2>2 DEF Respond, conns, OutdatedIsDoomed, Outdated
<1> QED BY <1>1, <1>2, <1>3, <1>4, <1>5 DEF Administer

-----------------------------------------------------------------------------
\* Every step.

LEMMA NextInv == Inv /\ [Next]_vars => Inv'
<1> SUFFICES ASSUME Inv, [Next]_vars PROVE Inv'
  OBVIOUS
<1> USE DEF Inv
<1>1. CASE \E c \in Conns : Handle(c)
  BY <1>1, HandleInv
<1>2. CASE \E a \in Admins : Administer(a)
  BY <1>2, AdministerInv
<1>3. CASE HandEdit
  <2>1. TypeOK'
    BY <1>3, EditAssumption DEF HandEdit, conns, TypeOK, Directory
  <2>2. StoreLoads' /\ DownIsEmpty' /\ OutdatedIsDoomed'
    BY <1>3 DEF HandEdit, conns, StoreLoads, DownIsEmpty, OutdatedIsDoomed, Outdated, Doomed
  <2> QED BY <2>1, <2>2
<1>4. CASE Crash
  BY <1>4
     DEF Crash, AllOff, Idle, Handshaking, TypeOK, StoreLoads, DownIsEmpty, OutdatedIsDoomed,
         Outdated
<1>5. CASE Boot
  BY <1>5 DEF Boot, conns, TypeOK, StoreLoads, DownIsEmpty, OutdatedIsDoomed, Outdated
<1>6. CASE UNCHANGED vars
  BY <1>6 DEF vars, TypeOK, StoreLoads, DownIsEmpty, OutdatedIsDoomed, Outdated, Doomed
<1> QED BY <1>1, <1>2, <1>3, <1>4, <1>5, <1>6 DEF Next

LEMMA Invariance == Spec => []Inv
BY InitInv, NextInv, PTL DEF Spec

\* Every variable of LivePolicy keeps its type.
THEOREM TypeCorrect == Spec => []TypeOK
<1>1. Inv => TypeOK
  BY DEF Inv
<1> QED BY <1>1, Invariance, PTL

\* reload_policies: a directory in which two files claim one user never gets into
\* service, whoever wrote them and however they came about.
THEOREM ServedSetLoads == Spec => []StoreLoads
<1>1. Inv => StoreLoads
  BY DEF Inv
<1> QED BY <1>1, Invariance, PTL

\* disconnect_user: a session whose policy an admin changed or removed is closed or
\* on the list of a disconnect under way.
THEOREM RevokedIsDoomed == Spec => []OutdatedIsDoomed
<1>1. Inv => OutdatedIsDoomed
  BY DEF Inv
<1> QED BY <1>1, Invariance, PTL
-----------------------------------------------------------------------------
(***************************************************************************)
(* The panel alone.  OutdatedIsDoomed leaves out what hand edits, refused  *)
(* PUTs and shared file names do, and a run shows that a refused PUT can   *)
(* keep the gateway from starting.  None of it happens to an operator who  *)
(* works with the panel alone (rbac-panel.js sends a policy under the id   *)
(* of its own user), as long as no two keys have one file name and no file *)
(* has the name made of another's key.                                     *)
(***************************************************************************)
PanelAlone ==
    /\ HandEdits = {}
    /\ \A edit \in Edits : edit[2].user = edit[1]
    /\ \A k, l \in Keys : SlugOf[k] = SlugOf[l] => k = l
    /\ \A f \in Files, k \in Keys : FirstDisk[f] # None /\ SlugOf[k] = f => FirstDisk[f].user = k

\* The directory is what is served, it loads, and no policy lives in the file made
\* of another's key.
Tidy ==
    /\ disk = store
    /\ DiskLoads
    /\ \A f \in Files, k \in Keys : disk[f] # None /\ SlugOf[k] = f => disk[f].user = k

\* A live session whose policy changes is on the list of a disconnect at once: only
\* a session that is still in its handshake can miss a change (disconnect_user).
ChangesAreNoticed ==
    [][\A c \in Conns : pc[c] = "live" /\ ~Outdated(c) /\ Outdated(c)' => Doomed(c)']_vars

\* Once a DELETE has reloaded there is no policy left for the key it named
\* (delete_policy).
DeletedIsGone ==
    [][\A a \in Admins : op[a] = Idle /\ op'[a].kind = "delete" =>
         FilesFor(store', op'[a].key) = {}]_vars

\* A live session keeps the policy it was made with.
LEMMA LiveHolds ==
    ASSUME Inv, [Next]_vars, NEW c \in Conns, pc[c] = "live", pc'[c] = "live"
    PROVE  held'[c] = held[c]
<1>1. ASSUME NEW d \in Conns, Handle(d) PROVE held'[c] = held[c]
  <2>1. ASSUME Ends(d) PROVE held'[c] = held[c]
    BY <2>1 DEF Ends, Inv, TypeOK
  <2> QED BY <1>1, <2>1
     DEF Handle, Connect, Resolve, RefuseUnassigned, UpstreamReady, Register, HandshakeFails,
         SessionEnds, ClientLeaves, Move, Inv, TypeOK
<1>2. ASSUME NEW a \in Admins, Administer(a) PROVE held' = held
  BY <1>2
     DEF Administer, put_policy, delete_policy, ReloadAndCut, Begin, sockets, CutClient,
         CutUpstream, Respond, conns
<1>3. HandEdit \/ Boot => held' = held
  BY DEF HandEdit, Boot, conns
<1>4. ~Crash
  BY DEF Crash, AllOff
<1> QED BY <1>1, <1>2, <1>3, <1>4 DEF Next, vars

\* A request is only begun by a PUT or a DELETE of its own.
LEMMA OpStarts ==
    ASSUME Inv, [Next]_vars, NEW a \in Admins, op[a] = Idle, op'[a].kind # "idle"
    PROVE  put_policy(a) \/ delete_policy(a)
<1>1. op[a].kind = "idle" /\ op[a].victims = {} /\ op[a].cutting = None
  BY DEF Idle
<1>2. ASSUME NEW c \in Conns, Ends(c) PROVE op'[a].kind = "idle"
  BY <1>1, <1>2 DEF Ends, Inv, TypeOK
<1>3. ASSUME NEW c \in Conns, Handle(c) PROVE op'[a].kind = "idle"
  BY <1>1, <1>2, <1>3
     DEF Handle, Connect, Resolve, RefuseUnassigned, UpstreamReady, Register, HandshakeFails,
         SessionEnds, ClientLeaves
<1>4. ASSUME NEW b \in Admins \ {a}, Administer(b) PROVE op'[a] = op[a]
  BY <1>4
     DEF Administer, put_policy, delete_policy, ReloadAndCut, Begin, CutClient, CutUpstream,
         Respond, Inv, TypeOK
<1>5. ~CutClient(a) /\ ~CutUpstream(a) /\ ~Respond(a)
  BY <1>1 DEF CutClient, CutUpstream, Respond
<1>6. HandEdit \/ Crash \/ Boot => op'[a].kind = "idle"
  BY <1>1 DEF HandEdit, Crash, Boot, AllOff, Idle, conns
<1> QED BY <1>1, <1>3, <1>4, <1>5, <1>6 DEF Next, Administer, vars

\* The file a key's policy is written to holds that key's policy, or nothing, and no
\* other file holds one.
LEMMA OwnFile ==
    ASSUME Inv, Tidy, PanelAlone, NEW key \in Keys
    PROVE  /\ _existing_file_for(key) \in Files
           /\ \A g \in FilesFor(store, key) : g = _existing_file_for(key)
           /\ store[_existing_file_for(key)] # None =>
                store[_existing_file_for(key)].user = key
<1> DEFINE f == _existing_file_for(key)
<1>1. f \in Files
  BY ExistingFileType DEF Inv
<1>2. CASE FilesFor(store, key) # {}
  <2>1. f \in FilesFor(store, key)
    BY <1>2 DEF _existing_file_for
  <2>2. \A g \in FilesFor(store, key) : g = f
    BY <2>1 DEF FilesFor, Inv, StoreLoads, Loadable
  <2> QED BY <1>1, <2>1, <2>2 DEF FilesFor
<1>3. CASE FilesFor(store, key) = {}
  <2>1. f = SlugOf[key]
    BY <1>3 DEF _existing_file_for
  <2> QED BY <1>1, <1>3, <2>1 DEF Tidy
<1> QED BY <1>2, <1>3

\* Writing a key's file, or removing it, changes that key's policy and no other's,
\* and leaves the directory tidy.
LEMMA WriteIsTidy ==
    ASSUME Inv, Tidy, PanelAlone, NEW key \in Keys, NEW policy \in Policy \cup {None},
           policy # None => policy.user = key,
           FilesFor(store, key) # {} \/ policy # None,
           disk' = [disk EXCEPT ![_existing_file_for(key)] = policy]
    PROVE  /\ Loadable(disk')
           /\ \A g \in Files, k \in Keys : disk'[g] # None /\ SlugOf[k] = g => disk'[g].user = k
           /\ \A g \in Files : disk'[g] # disk[g] =>
                \A p \in {disk[g], disk'[g]} \ {None} : p.user = key
           /\ policy = None => FilesFor(disk', key) = {}
<1> DEFINE f == _existing_file_for(key)
<1>1. /\ f \in Files /\ disk = store /\ disk \in Directory
      /\ \A g \in Files : disk[g] # None /\ disk[g].user = key => g = f
      /\ disk[f] # None => disk[f].user = key
  BY OwnFile DEF Inv, TypeOK, Tidy, FilesFor
<1>2. disk'[f] = policy /\ \A g \in Files \ {f} : disk'[g] = disk[g]
  BY <1>1 DEF Directory
<1>3. Loadable(disk')
  BY <1>1, <1>2 DEF Loadable, Tidy, DiskLoads
<1>4. ASSUME NEW g \in Files, NEW k \in Keys, disk'[g] # None, SlugOf[k] = g
      PROVE  disk'[g].user = k
  <2>1. CASE g # f
    BY <1>2, <1>4, <2>1 DEF Tidy
  <2>2. CASE g = f /\ disk[f] # None
    BY <1>1, <1>2, <1>4, <2>2 DEF Tidy
  <2>3. CASE g = f /\ disk[f] = None
    <3>1. FilesFor(store, key) = {}
      BY <1>1, <2>3 DEF FilesFor
    <3>2. f = SlugOf[key]
      BY <3>1 DEF _existing_file_for
    <3> QED BY <1>2, <1>4, <2>3, <3>2 DEF PanelAlone
  <2> QED BY <2>1, <2>2, <2>3
<1>5. \A g \in Files : disk'[g] # disk[g] =>
        \A p \in {disk[g], disk'[g]} \ {None} : p.user = key
  BY <1>1, <1>2
<1>6. policy = None => FilesFor(disk', key) = {}
  BY <1>1, <1>2 DEF FilesFor
<1> QED BY <1>3, <1>4, <1>5, <1>6

\* What a PUT or a DELETE does to the directory, to what is served and to the
\* sessions.
LEMMA AdminShape ==
    ASSUME Inv, Tidy, PanelAlone, NEW a \in Admins, put_policy(a) \/ delete_policy(a)
    PROVE  /\ Tidy'
           /\ \E key \in Keys, kind \in {"put", "delete"}, victims \in SUBSET Conns :
                /\ Begin(a, kind, key, victims)
                /\ store' # store => victims = Victims(key)
                /\ ~ChangesOthers(key)
                /\ kind = "delete" => FilesFor(store', key) = {}
<1>1. ASSUME NEW key \in Keys, NEW policy \in Policy \cup {None},
             policy # None => policy.user = key,
             FilesFor(store, key) # {} \/ policy # None,
             NEW kind \in {"put", "delete"}, kind = "delete" => policy = None,
             disk' = [disk EXCEPT ![_existing_file_for(key)] = policy],
             ReloadAndCut(a, kind, key)
      PROVE  /\ Tidy'
             /\ Begin(a, kind, key, Victims(key)) /\ ~ChangesOthers(key)
             /\ kind = "delete" => FilesFor(store', key) = {}
  <2>1. /\ Loadable(disk')
        /\ \A g \in Files, k \in Keys : disk'[g] # None /\ SlugOf[k] = g => disk'[g].user = k
        /\ \A g \in Files : disk'[g] # disk[g] =>
             \A p \in {disk[g], disk'[g]} \ {None} : p.user = key
        /\ policy = None => FilesFor(disk', key) = {}
    BY <1>1, WriteIsTidy
  <2>2. store' = disk' /\ Begin(a, kind, key, Victims(key))
    BY <1>1, <2>1 DEF ReloadAndCut
  <2>3. ~ChangesOthers(key)
    BY <2>1, <2>2 DEF ChangesOthers, Tidy
  <2> QED BY <1>1, <2>1, <2>2, <2>3 DEF Tidy, DiskLoads
<1>2. \A key : Victims(key) \in SUBSET Conns
  BY DEF Victims, live_ws
<1>3. CASE put_policy(a)
  <2>1. PICK edit \in Edits :
          /\ disk' = [disk EXCEPT ![_existing_file_for(edit[1])] = edit[2]]
          /\ ReloadAndCut(a, "put", edit[1])
    BY <1>3 DEF put_policy
  <2>2. edit[1] \in Keys /\ edit[2] \in Policy /\ edit[2].user = edit[1] /\ edit[2] # None
    BY EditAssumption, NoneAssumption DEF PanelAlone
  <2> QED BY <1>1, <1>2, <2>1, <2>2
<1>4. CASE delete_policy(a)
  <2>1. PICK key \in Keys :
          IF FilesFor(store, key) = {}
          THEN UNCHANGED <<disk, store>> /\ Begin(a, "delete", key, {})
          ELSE /\ disk' = [disk EXCEPT ![_existing_file_for(key)] = None]
               /\ ReloadAndCut(a, "delete", key)
    BY <1>4 DEF delete_policy
  <2>2. CASE FilesFor(store, key) = {}
    <3>1. Tidy' /\ ~ChangesOthers(key) /\ FilesFor(store', key) = {}
      BY <2>1, <2>2 DEF Tidy, DiskLoads, Loadable, ChangesOthers, FilesFor
    <3> QED BY <2>1, <2>2, <3>1
  <2>3. CASE FilesFor(store, key) # {}
    BY <1>1, <1>2, <2>1, <2>3
  <2> QED BY <2>2, <2>3
<1> QED BY <1>3, <1>4

\* Every other step leaves the directory and what is served alone.
LEMMA OthersKeepStore ==
    ASSUME Inv, Tidy, PanelAlone, [Next]_vars,
           \A a \in Admins : ~put_policy(a) /\ ~delete_policy(a)
    PROVE  UNCHANGED <<disk, store>>
<1>1. ASSUME NEW c \in Conns, Handle(c) PROVE UNCHANGED <<disk, store>>
  BY <1>1
     DEF Handle, Connect, Resolve, RefuseUnassigned, UpstreamReady, Register, HandshakeFails,
         SessionEnds, ClientLeaves, Ends
<1>2. ASSUME NEW a \in Admins, Administer(a) PROVE UNCHANGED <<disk, store>>
  BY <1>2 DEF Administer, CutClient, CutUpstream, Respond
<1>3. ~HandEdit
  BY DEF HandEdit, PanelAlone
<1>4. Crash \/ Boot => UNCHANGED <<disk, store>>
  BY DEF Crash, Boot, Tidy
<1> QED BY <1>1, <1>2, <1>3, <1>4 DEF Next, vars

LEMMA TidyStays ==
    ASSUME Inv, Tidy, PanelAlone, [Next]_vars
    PROVE  Tidy'
<1>1. CASE \E a \in Admins : put_policy(a) \/ delete_policy(a)
  BY <1>1, AdminShape
<1>2. CASE \A a \in Admins : ~put_policy(a) /\ ~delete_policy(a)
  BY <1>2, OthersKeepStore DEF Tidy, DiskLoads, Loadable
<1> QED BY <1>1, <1>2

LEMMA TidyInvariant == PanelAlone => (Spec => []Tidy)
<1> SUFFICES ASSUME PanelAlone PROVE Spec => []Tidy
  OBVIOUS
<1>1. Init => Tidy
  BY FirstDiskAssumption DEF Init, Tidy, DiskLoads, PanelAlone
<1>2. Inv /\ Tidy /\ [Next]_vars => Tidy'
  BY TidyStays
<1> QED BY <1>1, <1>2, Invariance, PTL DEF Spec

\* An operator who works with the panel alone is never left with a directory that
\* keeps the gateway from starting: each accepted PUT loads, and what is on disk is
\* what is served.
THEOREM PanelKeepsDisk == PanelAlone => (Spec => [](DiskLoads /\ disk = store))
<1>1. Tidy => DiskLoads /\ disk = store
  BY DEF Tidy
<1> QED BY <1>1, TidyInvariant, PTL

\* Nor does any change of a policy pass a registered session by.
THEOREM PanelRevokesReach == PanelAlone => (Spec => ChangesAreNoticed)
<1> SUFFICES ASSUME PanelAlone PROVE Spec => ChangesAreNoticed
  OBVIOUS
<1>1. ASSUME Inv, Tidy, [Next]_vars, NEW c \in Conns,
             pc[c] = "live", ~Outdated(c), Outdated(c)'
      PROVE  Doomed(c)'
  <2>1. pc'[c] = "live" /\ held'[c] # find(store', Owner[c]) /\ held[c] = find(store, Owner[c])
    BY <1>1 DEF Outdated
  <2>2. CASE \A a \in Admins : ~put_policy(a) /\ ~delete_policy(a)
    <3>1. find(store', Owner[c]) = find(store, Owner[c])
      BY <1>1, <2>2, OthersKeepStore
    <3>2. held'[c] # held[c]
      BY <2>1, <3>1
    <3> QED BY <1>1, <2>1, <3>2, LiveHolds
  <2>3. CASE \E a \in Admins : put_policy(a) \/ delete_policy(a)
    <3>1. PICK a \in Admins : put_policy(a) \/ delete_policy(a)
      BY <2>3
    <3>2. PICK key \in Keys, kind \in {"put", "delete"}, victims \in SUBSET Conns :
            /\ Begin(a, kind, key, victims)
            /\ store' # store => victims = Victims(key)
            /\ ~ChangesOthers(key)
      BY <1>1, <3>1, AdminShape
    <3>3. find(store', Owner[c]) # find(store, Owner[c])
      BY <2>1, <3>2 DEF Begin, sockets
    <3>4. store \in Directory /\ store' \in Directory /\ Owner[c] \in Users
      BY <1>1, NextInv, OwnerAssumption DEF Inv, TypeOK
    <3>5. \A f \in Files : store'[f] # store[f] =>
              \A p \in {store[f], store'[f]} \ {None} : p.user = key
      BY <3>2 DEF ChangesOthers
    <3>6. key \in {IdOf[Owner[c]], NameOf[Owner[c]]}
      BY <3>3, <3>4, <3>5, FindSame
    <3>7. c \in victims
      BY <1>1, <3>2, <3>3, <3>6 DEF Victims, live_ws
    <3> QED BY <1>1, <3>2, <3>7 DEF Begin, Doomed, Inv, TypeOK
  <2> QED BY <2>2, <2>3
<1>2. Inv /\ Tidy /\ [Next]_vars =>
        [\A c \in Conns : pc[c] = "live" /\ ~Outdated(c) /\ Outdated(c)' => Doomed(c)']_vars
  BY <1>1
<1> QED BY <1>2, Invariance, TidyInvariant, PTL DEF Spec, ChangesAreNoticed

\* And a policy an admin deletes is gone with the reload (delete_policy).
THEOREM PanelDeletes == PanelAlone => (Spec => DeletedIsGone)
<1> SUFFICES ASSUME PanelAlone PROVE Spec => DeletedIsGone
  OBVIOUS
<1>1. ASSUME Inv, Tidy, [Next]_vars, NEW a \in Admins, op[a] = Idle, op'[a].kind = "delete"
      PROVE  FilesFor(store', op'[a].key) = {}
  <2>1. put_policy(a) \/ delete_policy(a)
    BY <1>1, OpStarts
  <2>2. PICK key \in Keys, kind \in {"put", "delete"}, victims \in SUBSET Conns :
          Begin(a, kind, key, victims) /\ (kind = "delete" => FilesFor(store', key) = {})
    BY <1>1, <2>1, AdminShape
  <2>3. op'[a].kind = kind /\ op'[a].key = key
    BY <1>1, <2>2 DEF Begin, Inv, TypeOK
  <2> QED BY <1>1, <2>2, <2>3
<1>2. Inv /\ Tidy /\ [Next]_vars =>
        [\A a \in Admins : op[a] = Idle /\ op'[a].kind = "delete" =>
           FilesFor(store', op'[a].key) = {}]_vars
  BY <1>1
<1> QED BY <1>2, Invariance, TidyInvariant, PTL DEF Spec, DeletedIsGone
=============================================================================
