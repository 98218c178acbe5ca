--------------------- MODULE IdentityResolver_proofs ---------------------
(***************************************************************************)
(* What IdentityResolver promises for every set of tokens and callers,     *)
(* every lifetime and every limit of the cache.                            *)
(***************************************************************************)
EXTENDS IdentityResolver, FiniteSetTheorems, TLAPS

\* A call is in the line of its token, once, and its head is the one who asks.
LineInv ==
    /\ \A t \in Tokens : \A i, j \in DOMAIN queue[t] : queue[t][i] = queue[t][j] => i = j
    /\ \A c \in Callers : call[c] # Idle =>
         /\ \E i \in DOMAIN queue[TokenOf[c]] : queue[TokenOf[c]][i] = c
         /\ call[c].pc # "waiting" => queue[TokenOf[c]][1] = c

\* What is remembered of Home Assistant's words agrees with the words.
WordInv ==
    /\ \A t \in Tokens : ago[t][word[t]] = 0
    /\ \A c \in Callers : call[c] # Idle => word[TokenOf[c]] \in call[c].seen
    /\ \A c \in Callers : call[c].pc = "told" =>
         /\ call[c].who \in call[c].seen
         /\ ago[TokenOf[c]][call[c].who] <= call[c].asked

\* The time an entry has left and the age of what it says make a lifetime.
EntryInv ==
    \A t \in DOMAIN cache : cache[t].left > 0 =>
        ago[t][cache[t].who] + cache[t].left <= Life(cache[t].who)

SizeInv == IsFiniteSet(DOMAIN cache) /\ CacheBounded

Inv == TypeOK /\ LineInv /\ WordInv /\ EntryInv /\ SizeInv

-----------------------------------------------------------------------------
\* Ages and records.

LEMMA LifeType == \A who : Life(who) \in Ages /\ Life(who) > 0
BY LifetimeAssumption DEF Life, Ages, Longest

LEMMA AgesAreNumbers == Longest \in Nat /\ 0 \in Ages /\ Longest \in Ages
BY LifetimeAssumption DEF Ages, Longest

LEMMA AgesAge ==
    ASSUME NEW a \in Ages
    PROVE  /\ a \in Nat
           /\ Older(a) \in Ages /\ Less(a) \in Ages
           /\ Older(a) <= a + 1
           /\ Less(a) > 0 => Less(a) = a - 1
           /\ \A b \in Ages : b <= a => Older(b) <= Older(a)
           /\ 0 <= Older(a)
BY AgesAreNumbers DEF Ages, Older, Less

\* The states a call can be in, told apart by where it is.
LEMMA CallShape ==
    ASSUME NEW k \in {Idle} \cup Calls
    PROVE  /\ k.pc \in {"idle", "waiting", "asking", "told"}
           /\ k = Idle <=> k.pc = "idle"
           /\ k.pc # "idle" => k.seen \in SUBSET Words
           /\ k.pc \in {"asking", "told"} => k.asked \in Ages
           /\ k.pc = "told" => k.who \in Words
BY DEF Idle, Calls

LEMMA NewCalls ==
    ASSUME NEW seen \in SUBSET Words
    PROVE  /\ Waiting(seen) \in Calls
           /\ Waiting(seen).pc = "waiting" /\ Waiting(seen).seen = seen
           /\ Asking(seen) \in Calls
           /\ Asking(seen).pc = "asking" /\ Asking(seen).seen = seen
BY AgesAreNumbers DEF Waiting, Asking, Calls

LEMMA ToldCall ==
    ASSUME NEW k \in {Idle} \cup Calls, k.pc = "asking", NEW who \in Words
    PROVE  /\ Told(k, who) \in Calls
           /\ Told(k, who).pc = "told" /\ Told(k, who).seen = k.seen
           /\ Told(k, who).asked = k.asked /\ Told(k, who).who = who
BY DEF Told, Calls, Idle

\* An entry made of an answer of that age.
LEMMA EntryType ==
    ASSUME NEW who \in Words, NEW age \in Ages
    PROVE  /\ Entry(who, age) \in [left : Ages, who : Words]
           /\ Entry(who, age).who = who
           /\ Entry(who, age).left > 0 => Entry(who, age).left = Life(who) - age
BY LifeType, AgesAreNumbers DEF Entry, Ages

-----------------------------------------------------------------------------
\* The line.

QueueType ==
    /\ queue \in [Tokens -> Seq(Callers)]
    /\ \A t \in Tokens : \A i \in DOMAIN queue[t] :
         call[queue[t][i]] # Idle /\ TokenOf[queue[t][i]] = t

\* A call that begins stands at the end of its line, and asks if that is the head.
LEMMA JoinsLine ==
    ASSUME Inv, NEW c \in Callers, NEW t \in Tokens, t = TokenOf[c],
           call[c] = Idle, NEW k \in Calls, k.pc = "waiting" \/ queue[t] = <<>>,
           call' = [call EXCEPT ![c] = k],
           queue' = [queue EXCEPT ![t] = Append(@, c)]
    PROVE  QueueType' /\ LineInv'
<1> USE DEF Inv
<1>1. k # Idle
  BY CallShape DEF Calls, Idle
<1>2. /\ \A i \in DOMAIN queue[t] : queue[t][i] # c
      /\ queue \in [Tokens -> Seq(Callers)] /\ queue[t] \in Seq(Callers)
  BY DEF TypeOK
<1>3. /\ queue'[t] = Append(queue[t], c) /\ queue'[t] \in Seq(Callers)
      /\ DOMAIN queue'[t] = DOMAIN queue[t] \cup {Len(queue[t]) + 1}
      /\ queue'[t][Len(queue[t]) + 1] = c
      /\ \A i \in DOMAIN queue[t] : queue'[t][i] = queue[t][i]
  BY <1>2
<1>4. \A u \in Tokens : u # t => queue'[u] = queue[u]
  OBVIOUS
<1>5. /\ call'[c] = k
      /\ \A d \in Callers : d # c => call'[d] = call[d]
  BY DEF TypeOK
<1>6. QueueType'
  <2> SUFFICES ASSUME NEW u \in Tokens
               PROVE  /\ queue'[u] \in Seq(Callers)
                      /\ \A i \in DOMAIN queue'[u] :
                           call'[queue'[u][i]] # Idle /\ TokenOf[queue'[u][i]] = u
    BY DEF QueueType, TypeOK
  <2>1. CASE u = t
    BY <1>1, <1>2, <1>3, <1>5, <2>1 DEF TypeOK
  <2>2. CASE u # t
    BY <1>1, <1>4, <1>5, <2>2 DEF TypeOK
  <2> QED BY <2>1, <2>2
<1>7. \A u \in Tokens : \A i, j \in DOMAIN queue'[u] : queue'[u][i] = queue'[u][j] => i = j
  BY <1>2, <1>3, <1>4 DEF LineInv
<1>8. ASSUME NEW d \in Callers, call'[d] # Idle
      PROVE  /\ \E i \in DOMAIN queue'[TokenOf[d]] : queue'[TokenOf[d]][i] = d
             /\ call'[d].pc # "waiting" => queue'[TokenOf[d]][1] = d
  <2>1. CASE d = c
    BY <1>2, <1>3, <1>5, <2>1
  <2>2. CASE d # c /\ TokenOf[d] = t
    <3>1. call[d] # Idle
      BY <1>5, <1>8, <2>2
    <3>2. PICK i \in DOMAIN queue[t] : queue[t][i] = d
      BY <2>2, <3>1 DEF LineInv
    <3>3. 1 \in DOMAIN queue[t]
      BY <1>2, <3>2
    <3>4. call[d].pc # "waiting" => queue[t][1] = d
      BY <2>2, <3>1 DEF LineInv
    <3> QED BY <1>3, <1>5, <2>2, <3>2, <3>3, <3>4
  <2>3. CASE TokenOf[d] # t
    BY <1>4, <1>5, <1>8, <2>3, TokenAssumption DEF LineInv
  <2> QED BY <2>1, <2>2, <2>3
<1> QED BY <1>6, <1>7, <1>8 DEF LineInv

\* The head of a line returns, and the next one is the head.
LEMMA LeavesLine ==
    ASSUME Inv, NEW c \in Callers, NEW t \in Tokens, t = TokenOf[c],
           call[c] # Idle, Head(queue[t]) = c,
           call' = [call EXCEPT ![c] = Idle],
           queue' = [queue EXCEPT ![t] = Tail(@)]
    PROVE  QueueType' /\ LineInv'
<1> USE DEF Inv
<1>1. /\ queue \in [Tokens -> Seq(Callers)]
      /\ queue[t] \in Seq(Callers) /\ queue[t] # <<>> /\ queue[t][1] = c
  BY DEF LineInv, TypeOK
<1>2. /\ queue'[t] = Tail(queue[t]) /\ queue'[t] \in Seq(Callers)
      /\ \A i \in DOMAIN queue'[t] : i + 1 \in DOMAIN queue[t] /\ queue'[t][i] = queue[t][i + 1]
      /\ \A i \in DOMAIN queue[t] :
           i # 1 => i - 1 \in DOMAIN queue'[t] /\ queue'[t][i - 1] = queue[t][i]
      /\ \A i \in DOMAIN queue'[t] : i \in Nat /\ i > 0
  BY <1>1
<1>3. \A u \in Tokens : u # t => queue'[u] = queue[u]
  OBVIOUS
<1>4. /\ call'[c] = Idle
      /\ \A d \in Callers : d # c => call'[d] = call[d]
  BY DEF TypeOK
<1>5. \A i \in DOMAIN queue'[t] : queue'[t][i] # c
  <2> SUFFICES ASSUME NEW i \in DOMAIN queue'[t], queue'[t][i] = c PROVE FALSE
    OBVIOUS
  <2>1. i + 1 \in DOMAIN queue[t] /\ queue[t][i + 1] = c /\ 1 \in DOMAIN queue[t]
    BY <1>1, <1>2
  <2>2. i + 1 = 1
    BY <1>1, <2>1 DEF LineInv
  <2> QED BY <1>2, <2>2
<1>6. QueueType'
  <2> SUFFICES ASSUME NEW u \in Tokens
               PROVE  /\ queue'[u] \in Seq(Callers)
                      /\ \A i \in DOMAIN queue'[u] :
                           call'[queue'[u][i]] # Idle /\ TokenOf[queue'[u][i]] = u
    BY DEF QueueType, TypeOK
  <2>1. CASE u = t
    <3> SUFFICES ASSUME NEW i \in DOMAIN queue'[t]
                 PROVE  call'[queue'[t][i]] # Idle /\ TokenOf[queue'[t][i]] = t
      BY <1>2, <2>1
    <3>1. i + 1 \in DOMAIN queue[t] /\ queue'[t][i] = queue[t][i + 1] /\ queue'[t][i] # c
      BY <1>2, <1>5
    <3>2. queue[t][i + 1] \in Callers
      BY <1>1, <3>1
    <3> QED BY <1>4, <3>1, <3>2 DEF TypeOK
  <2>2. CASE u # t
    <3> SUFFICES ASSUME NEW i \in DOMAIN queue[u]
                 PROVE  call'[queue[u][i]] # Idle /\ TokenOf[queue[u][i]] = u
      BY <1>3, <2>2 DEF TypeOK
    <3>1. queue[u][i] \in Callers /\ TokenOf[queue[u][i]] = u /\ call[queue[u][i]] # Idle
      BY DEF TypeOK
    <3> QED BY <1>4, <2>2, <3>1
  <2> QED BY <2>1, <2>2
<1>7. ASSUME NEW u \in Tokens, NEW i \in DOMAIN queue'[u], NEW j \in DOMAIN queue'[u],
             queue'[u][i] = queue'[u][j]
      PROVE  i = j
  <2>1. CASE u = t
    <3>1. i + 1 \in DOMAIN queue[t] /\ j + 1 \in DOMAIN queue[t] /\ queue[t][i + 1] = queue[t][j + 1]
      BY <1>2, <1>7, <2>1
    <3>2. i + 1 = j + 1
      BY <3>1 DEF LineInv
    <3> QED BY <1>2, <2>1, <3>2
  <2>2. CASE u # t
    BY <1>3, <1>7, <2>2 DEF LineInv
  <2> QED BY <2>1, <2>2
<1>8. ASSUME NEW d \in Callers, call'[d] # Idle
      PROVE  /\ \E i \in DOMAIN queue'[TokenOf[d]] : queue'[TokenOf[d]][i] = d
             /\ call'[d].pc # "waiting" => queue'[TokenOf[d]][1] = d
  <2>1. d # c /\ call[d] # Idle /\ call'[d] = call[d]
    BY <1>4, <1>8
  <2>2. CASE TokenOf[d] = t
    <3>1. call[d].pc = "waiting"
      BY <1>1, <2>1, <2>2 DEF LineInv
    <3>2. PICK i \in DOMAIN queue[t] : queue[t][i] = d
      BY <2>1, <2>2 DEF LineInv
    <3>3. i # 1
      BY <1>1, <2>1, <3>2
    <3>4. i - 1 \in DOMAIN queue'[t] /\ queue'[t][i - 1] = d
      BY <1>2, <3>2, <3>3
    <3>5. call'[d].pc = "waiting"
      BY <2>1, <3>1
    <3> QED BY <2>2, <3>4, <3>5
  <2>3. CASE TokenOf[d] # t
    BY <1>3, <2>1, <2>3, TokenAssumption DEF LineInv
  <2> QED BY <2>2, <2>3
<1> QED BY <1>6, <1>7, <1>8 DEF LineInv

\* A call goes on where it stands in its line.
LEMMA StaysInLine ==
    ASSUME Inv, UNCHANGED queue,
           \A c \in Callers : call'[c] = Idle <=> call[c] = Idle,
           \A c \in Callers : call'[c].pc = "waiting" \/ call'[c].pc = call[c].pc
                              \/ call[c].pc # "waiting" \/ Head(queue[TokenOf[c]]) = c
    PROVE  QueueType' /\ LineInv'
<1> USE DEF Inv
<1>1. QueueType'
  BY DEF QueueType, TypeOK
<1>2. ASSUME NEW c \in Callers, call'[c] # Idle
      PROVE  /\ \E i \in DOMAIN queue'[TokenOf[c]] : queue'[TokenOf[c]][i] = c
             /\ call'[c].pc # "waiting" => queue'[TokenOf[c]][1] = c
  <2>1. call[c] # Idle /\ queue' = queue /\ queue[TokenOf[c]] \in Seq(Callers)
    BY <1>2, TokenAssumption DEF TypeOK
  <2>2. \E i \in DOMAIN queue[TokenOf[c]] : queue[TokenOf[c]][i] = c
    BY <2>1 DEF LineInv
  <2>3. Head(queue[TokenOf[c]]) = queue[TokenOf[c]][1]
    BY <2>1, <2>2
  <2>4. call'[c].pc # "waiting" => queue[TokenOf[c]][1] = c
    BY <2>1, <2>3 DEF LineInv
  <2> QED BY <2>1, <2>2, <2>4
<1> QED BY <1>1, <1>2 DEF LineInv

-----------------------------------------------------------------------------
\* The cache.

\* An answer goes into the cache, or empties it.
LEMMA Puts ==
    ASSUME Inv, NEW t \in Tokens, NEW who \in Words, NEW age \in Ages,
           ago[t][who] <= age, UNCHANGED ago, Put(t, Entry(who, age))
    PROVE  /\ DOMAIN cache' \subseteq Tokens
           /\ \A u \in DOMAIN cache' : cache'[u] \in [left : Ages, who : Words]
           /\ EntryInv' /\ SizeInv'
<1> DEFINE entry == Entry(who, age)
           new == Cached(t, entry)
<1> USE DEF Inv
<1>1. entry \in [left : Ages, who : Words] /\ entry.who = who
      /\ (entry.left > 0 => entry.left = Life(who) - age)
  BY EntryType
<1>2. CASE cache' = <<>>
  <2>1. DOMAIN cache' = {} /\ IsFiniteSet({}) /\ Cardinality({}) = 0
    BY <1>2, FS_EmptySet
  <2> QED BY <2>1, LimitAssumption DEF EntryInv, SizeInv, CacheBounded
<1>3. CASE cache' = new /\ ~(Cardinality(DOMAIN new) > CacheLimit)
  <2>1. /\ DOMAIN cache' = DOMAIN cache \cup {t}
        /\ cache'[t] = entry
        /\ \A u \in DOMAIN cache : u # t => cache'[u] = cache[u]
    BY <1>3 DEF Cached
  <2>2. ago[t][who] \in Nat /\ age \in Nat /\ Life(who) \in Nat
    <3>1. ago[t][who] \in Ages
      BY DEF TypeOK
    <3> QED BY <3>1, LifeType, AgesAge
  <2>3. entry.left > 0 => ago[t][entry.who] + entry.left <= Life(entry.who)
    BY <1>1, <2>2
  <2>4. EntryInv'
    <3> SUFFICES ASSUME NEW u \in DOMAIN cache', cache'[u].left > 0
                 PROVE  ago[u][cache'[u].who] + cache'[u].left <= Life(cache'[u].who)
      BY DEF EntryInv
    <3>1. CASE u = t
      BY <1>1, <2>1, <2>3, <3>1
    <3>2. CASE u # t
      BY <2>1, <3>2 DEF EntryInv
    <3> QED BY <3>1, <3>2
  <2>5. IsFiniteSet(DOMAIN cache') /\ Cardinality(DOMAIN cache') \in Nat
    BY <2>1, FS_AddElement, FS_CardinalityType DEF SizeInv
  <2>6. SizeInv'
    BY <1>3, <2>5, LimitAssumption DEF SizeInv, CacheBounded
  <2> QED BY <1>1, <2>1, <2>4, <2>6 DEF TypeOK
<1> QED BY <1>2, <1>3 DEF Put

-----------------------------------------------------------------------------
\* The steps of a call.

\* One call changes, Home Assistant's words do not.
LEMMA WordKeeps ==
    ASSUME Inv, NEW c \in Callers, NEW k \in {Idle} \cup Calls, UNCHANGED <<word, ago>>,
           call' = [call EXCEPT ![c] = k],
           k # Idle => word[TokenOf[c]] \in k.seen,
           k.pc = "told" => k.who \in k.seen /\ ago[TokenOf[c]][k.who] <= k.asked
    PROVE  WordInv'
<1> USE DEF Inv
<1>1. /\ call'[c] = k
      /\ \A d \in Callers : d # c => call'[d] = call[d]
  BY DEF TypeOK
<1>2. word' = word /\ ago' = ago
  OBVIOUS
<1> QED BY <1>1, <1>2 DEF WordInv

LEMMA IdleShape == Idle \in {Idle} \cup Calls /\ Idle.pc = "idle"
BY DEF Idle

\* A call that has the lock returns and gives it back; the cache is as it was or
\* holds the answer.
LEMMA LeavesInv ==
    ASSUME Inv, NEW c \in Callers, call[c] # Idle, HasLock(c), Release(TokenOf[c]),
           call' = [call EXCEPT ![c] = Idle], UNCHANGED <<word, ago>>,
           \/ UNCHANGED cache
           \/ call[c].pc = "told" /\ Put(TokenOf[c], Entry(call[c].who, call[c].asked))
    PROVE  Inv'
<1> USE DEF Inv
<1>1. QueueType' /\ LineInv'
  BY LeavesLine, TokenAssumption DEF HasLock, Release
<1>2. WordInv'
  BY WordKeeps, IdleShape
<1>3. /\ DOMAIN cache' \subseteq Tokens
      /\ \A u \in DOMAIN cache' : cache'[u] \in [left : Ages, who : Words]
      /\ EntryInv' /\ SizeInv'
  <2>1. CASE UNCHANGED cache
    BY <2>1 DEF TypeOK, EntryInv, SizeInv, CacheBounded
  <2>2. CASE call[c].pc = "told" /\ Put(TokenOf[c], Entry(call[c].who, call[c].asked))
    <3>1. call[c] \in {Idle} \cup Calls
      BY DEF TypeOK
    <3>2. call[c].who \in Words /\ call[c].asked \in Ages
      BY <2>2, <3>1, CallShape
    <3>3. ago[TokenOf[c]][call[c].who] <= call[c].asked
      BY <2>2 DEF WordInv
    <3> QED BY <2>2, <3>2, <3>3, Puts, TokenAssumption
  <2> QED BY <2>1, <2>2
<1>4. TypeOK'
  BY <1>1, <1>3 DEF TypeOK, QueueType
<1> QED BY <1>1, <1>2, <1>3, <1>4

\* A call goes on, or begins to ask.
LEMMA GoesOnInv ==
    ASSUME Inv, NEW c \in Callers, NEW k \in Calls, call[c] # Idle,
           call' = [call EXCEPT ![c] = k], UNCHANGED <<word, ago, cache, queue>>,
           call[c].pc # "waiting" \/ HasLock(c),
           word[TokenOf[c]] \in k.seen,
           k.pc = "told" => k.who \in k.seen /\ ago[TokenOf[c]][k.who] <= k.asked
    PROVE  Inv'
<1> USE DEF Inv
<1>1. k # Idle
  BY CallShape DEF Calls, Idle
<1>2. /\ call'[c] = k
      /\ \A d \in Callers : d # c => call'[d] = call[d]
  BY DEF TypeOK
<1>3. QueueType' /\ LineInv'
  BY <1>1, <1>2, StaysInLine DEF HasLock
<1>4. WordInv'
  BY <1>1, WordKeeps
<1>5. TypeOK' /\ EntryInv' /\ SizeInv'
  BY <1>3 DEF TypeOK, QueueType, EntryInv, SizeInv, CacheBounded
<1> QED BY <1>3, <1>4, <1>5

\* Whoever asks has the lock.
LEMMA AskerHasLock ==
    ASSUME Inv, NEW c \in Callers, call[c].pc \in {"asking", "told"}
    PROVE  call[c] # Idle /\ HasLock(c)
<1>1. call[c] \in {Idle} \cup Calls /\ queue[TokenOf[c]] \in Seq(Callers)
  BY TokenAssumption DEF Inv, TypeOK
<1>2. call[c] # Idle
  BY <1>1, CallShape
<1> QED BY <1>1, <1>2 DEF Inv, LineInv, HasLock

LEMMA ResolveInv ==
    ASSUME Inv, NEW c \in Callers, Resolve(c)
    PROVE  Inv'
<1> USE DEF Inv
<1>0. /\ call[c] \in {Idle} \cup Calls
      /\ TokenOf[c] \in Tokens /\ word[TokenOf[c]] \in Words
  BY TokenAssumption DEF TypeOK
<1>1. CASE AnswerFromCache(c)
  <2>1. call' = call /\ UNCHANGED <<word, ago, cache, queue>>
    BY <1>1 DEF AnswerFromCache, Return, TypeOK
  <2> QED BY <2>1 DEF TypeOK, LineInv, WordInv, EntryInv, SizeInv, CacheBounded
<1>2. CASE AskOrWait(c)
  <2>1. PICK k \in {Waiting({word[TokenOf[c]]}), Asking({word[TokenOf[c]]})} :
          /\ k.pc = "waiting" \/ queue[TokenOf[c]] = <<>>
          /\ call' = [call EXCEPT ![c] = k]
    BY <1>0, <1>2, NewCalls DEF AskOrWait
  <2>2. /\ k \in Calls /\ k.pc # "told" /\ word[TokenOf[c]] \in k.seen
    BY <1>0, NewCalls
  <2>3. /\ queue' = [queue EXCEPT ![TokenOf[c]] = Append(@, c)] /\ call[c] = Idle
        /\ UNCHANGED <<word, ago, cache>>
    BY <1>2 DEF AskOrWait
  <2>4. QueueType' /\ LineInv'
    BY <1>0, <2>1, <2>2, <2>3, JoinsLine
  <2>5. WordInv'
    BY <2>1, <2>2, <2>3, WordKeeps
  <2>6. TypeOK' /\ EntryInv' /\ SizeInv'
    BY <2>1, <2>2, <2>3, <2>4 DEF TypeOK, QueueType, EntryInv, SizeInv, CacheBounded
  <2> QED BY <2>4, <2>5, <2>6
<1>3. CASE Wake(c)
  <2>0. call[c] # Idle /\ call[c].seen \in SUBSET Words /\ HasLock(c)
        /\ word[TokenOf[c]] \in call[c].seen
    BY <1>0, <1>3, CallShape DEF Wake, WordInv
  <2>1. CASE Hit(TokenOf[c])
    BY <1>3, <2>0, <2>1, LeavesInv DEF Wake, Return
  <2>2. CASE ~Hit(TokenOf[c])
    <3>1. /\ call' = [call EXCEPT ![c] = Asking(call[c].seen)]
          /\ UNCHANGED <<word, ago, cache, queue>>
      BY <1>3, <2>2 DEF Wake
    <3> QED BY <2>0, <3>1, NewCalls, GoesOnInv
  <2> QED BY <2>1, <2>2
<1>4. CASE HaSays(c)
  <2>1. /\ call[c].pc = "asking"
        /\ call' = [call EXCEPT ![c] = Told(call[c], word[TokenOf[c]])]
        /\ UNCHANGED <<word, ago, cache, queue>>
    BY <1>4 DEF HaSays
  <2>2. call[c] # Idle /\ call[c].asked \in Ages /\ word[TokenOf[c]] \in call[c].seen
    BY <1>0, <2>1, CallShape DEF WordInv
  <2>3. ago[TokenOf[c]][word[TokenOf[c]]] <= call[c].asked
    BY <1>0, <2>2, AgesAge DEF WordInv
  <2> QED BY <1>0, <2>1, <2>2, <2>3, ToldCall, GoesOnInv
<1>5. CASE Returns(c)
  BY <1>5, AskerHasLock, LeavesInv DEF Returns, Return
<1>6. CASE Fails(c)
  BY <1>6, AskerHasLock, LeavesInv DEF Fails, Return
<1> QED BY <1>1, <1>2, <1>3, <1>4, <1>5, <1>6 DEF Resolve

-----------------------------------------------------------------------------
\* Time passes, and Home Assistant changes its word.

LEMMA OlderCall ==
    ASSUME NEW k \in {Idle} \cup Calls, k.pc \in {"asking", "told"}
    PROVE  LET new == [k EXCEPT !.asked = Older(@)]
           IN  /\ new \in Calls /\ new.pc = k.pc /\ new.seen = k.seen
               /\ new.asked = Older(k.asked)
               /\ k.pc = "told" => new.who = k.who
<1>1. k.asked \in Ages /\ Older(k.asked) \in Ages
  BY CallShape, AgesAge
<1> QED BY <1>1 DEF Calls, Idle

LEMMA TickInv ==
    ASSUME Inv, Tick
    PROVE  Inv'
<1> USE DEF Inv
<1>1. ASSUME NEW c \in Callers
      PROVE  /\ call'[c] \in {Idle} \cup Calls
             /\ call'[c].pc = call[c].pc
             /\ call'[c] = Idle <=> call[c] = Idle
             /\ call[c] # Idle => call'[c].seen = call[c].seen
             /\ call[c].pc = "told" =>
                  call'[c].who = call[c].who /\ call'[c].asked = Older(call[c].asked)
  <2>1. call[c] \in {Idle} \cup Calls
    BY DEF TypeOK
  <2>2. CASE call[c].pc \in {"asking", "told"}
    <3>1. call'[c] = [call[c] EXCEPT !.asked = Older(@)]
      BY <2>2 DEF Tick
    <3>2. call'[c] \in {Idle} \cup Calls /\ call'[c].pc = call[c].pc
      BY <2>1, <2>2, <3>1, OlderCall
    <3>3. call'[c] = Idle <=> call[c] = Idle
      BY <2>1, <3>2, CallShape
    <3> QED BY <2>1, <2>2, <3>1, <3>2, <3>3, OlderCall
  <2>3. CASE call[c].pc \notin {"asking", "told"}
    BY <2>1, <2>3 DEF Tick
  <2> QED BY <2>2, <2>3
<1>2. word' = word /\ queue' = queue
  BY DEF Tick
<1>3. QueueType' /\ LineInv'
  BY <1>1, <1>2, StaysInLine
<1>4. ASSUME NEW t \in Tokens, NEW w \in Words
      PROVE  /\ ago'[t][w] = IF w = word[t] THEN 0 ELSE Older(ago[t][w])
             /\ ago[t][w] \in Ages /\ ago'[t][w] \in Ages
             /\ ago'[t][w] <= Older(ago[t][w])
  <2>1. ago'[t][w] = IF w = word[t] THEN 0 ELSE Older(ago[t][w])
    BY DEF Tick
  <2>2. ago[t][w] \in Ages
    BY DEF TypeOK
  <2>3. Older(ago[t][w]) \in Ages /\ Older(ago[t][w]) \in Nat /\ 0 \in Ages
    BY <2>2, AgesAge, AgesAreNumbers
  <2> QED BY <2>1, <2>2, <2>3
<1>5. WordInv'
  <2>1. \A t \in Tokens : ago'[t][word'[t]] = 0
    BY <1>2, <1>4 DEF TypeOK
  <2>2. \A c \in Callers : call'[c] # Idle => word'[TokenOf[c]] \in call'[c].seen
    BY <1>1, <1>2 DEF WordInv
  <2>3. ASSUME NEW c \in Callers, call'[c].pc = "told"
        PROVE  /\ call'[c].who \in call'[c].seen
               /\ ago'[TokenOf[c]][call'[c].who] <= call'[c].asked
    <3>1. call[c].pc = "told" /\ call[c] \in {Idle} \cup Calls
      BY <1>1, <2>3 DEF TypeOK
    <3>2. call[c].who \in Words /\ call[c].asked \in Ages /\ TokenOf[c] \in Tokens
          /\ call[c] # Idle
      BY <3>1, CallShape, TokenAssumption
    <3>3. /\ ago[TokenOf[c]][call[c].who] <= call[c].asked
          /\ call[c].who \in call[c].seen
      BY <3>1 DEF WordInv
    <3>4. Older(ago[TokenOf[c]][call[c].who]) <= Older(call[c].asked)
      BY <1>4, <3>2, <3>3, AgesAge
    <3>5. ago'[TokenOf[c]][call[c].who] <= Older(ago[TokenOf[c]][call[c].who])
      BY <1>4, <3>2
    <3>6. /\ ago'[TokenOf[c]][call[c].who] \in Nat /\ Older(call[c].asked) \in Nat
          /\ Older(ago[TokenOf[c]][call[c].who]) \in Nat
      BY <1>4, <3>2, AgesAge
    <3>7. ago'[TokenOf[c]][call[c].who] <= Older(call[c].asked)
      BY <3>4, <3>5, <3>6
    <3> QED BY <1>1, <3>1, <3>2, <3>3, <3>7
  <2> QED BY <2>1, <2>2, <2>3 DEF WordInv
<1>6. ASSUME NEW t \in DOMAIN cache
      PROVE  /\ t \in Tokens /\ cache[t] \in [left : Ages, who : Words]
             /\ cache'[t] \in [left : Ages, who : Words]
             /\ cache'[t].who = cache[t].who /\ cache'[t].left = Less(cache[t].left)
  <2>1. t \in Tokens /\ cache[t] \in [left : Ages, who : Words]
    BY DEF TypeOK
  <2>2. cache'[t] = [cache[t] EXCEPT !.left = Less(@)]
    BY DEF Tick
  <2> QED BY <2>1, <2>2, AgesAge
<1>7. DOMAIN cache' = DOMAIN cache
  BY DEF Tick
<1>8. EntryInv'
  <2> SUFFICES ASSUME NEW t \in DOMAIN cache, cache'[t].left > 0
               PROVE  ago'[t][cache'[t].who] + cache'[t].left <= Life(cache'[t].who)
    BY <1>7 DEF EntryInv
  <2>1. /\ cache[t].left \in Nat /\ cache[t].left - 1 = cache'[t].left
        /\ cache'[t].left \in Nat
    BY <1>6, AgesAge
  <2>2. ago[t][cache[t].who] + cache[t].left <= Life(cache[t].who)
    BY <2>1 DEF EntryInv
  <2>3. /\ ago[t][cache[t].who] \in Nat /\ ago'[t][cache[t].who] \in Nat
        /\ ago'[t][cache[t].who] <= Older(ago[t][cache[t].who])
        /\ Older(ago[t][cache[t].who]) \in Nat
        /\ Older(ago[t][cache[t].who]) <= ago[t][cache[t].who] + 1
    BY <1>4, <1>6, AgesAge
  <2>4. Life(cache[t].who) \in Nat
    BY LifeType, AgesAge
  <2> QED BY <1>6, <2>1, <2>2, <2>3, <2>4
<1>9. SizeInv'
  BY <1>7 DEF SizeInv, CacheBounded
<1>10. TypeOK'
  <2>1. ago' \in [Tokens -> [Words -> Ages]]
    BY <1>4 DEF Tick
  <2>2. call' \in [Callers -> {Idle} \cup Calls]
    BY <1>1 DEF Tick
  <2> QED BY <1>2, <1>3, <1>6, <1>7, <2>1, <2>2 DEF TypeOK, QueueType
<1> QED BY <1>3, <1>5, <1>8, <1>9, <1>10

LEMMA SeesCall ==
    ASSUME NEW k \in Calls, NEW w \in Words
    PROVE  LET new == [k EXCEPT !.seen = @ \cup {w}]
           IN  /\ new \in Calls /\ new.pc = k.pc /\ new.seen = k.seen \cup {w}
               /\ k.pc = "told" => new.who = k.who /\ new.asked = k.asked
BY DEF Calls

LEMMA WordChangesInv ==
    ASSUME Inv, NEW t \in Tokens, WordChanges(t)
    PROVE  Inv'
<1> USE DEF Inv
<1>1. PICK w \in Words :
        /\ word' = [word EXCEPT ![t] = w]
        /\ ago' = [ago EXCEPT ![t][w] = 0]
        /\ call' = [c \in Callers |-> IF call[c] # Idle /\ TokenOf[c] = t
                                      THEN [call[c] EXCEPT !.seen = @ \cup {w}] ELSE call[c]]
  BY DEF WordChanges
<1>2. cache' = cache /\ queue' = queue
  BY DEF WordChanges
<1>3. ASSUME NEW c \in Callers
      PROVE  /\ call'[c] \in {Idle} \cup Calls
             /\ call'[c].pc = call[c].pc
             /\ call'[c] = Idle <=> call[c] = Idle
             /\ call[c] # Idle =>
                  call'[c].seen = IF TokenOf[c] = t THEN call[c].seen \cup {w} ELSE call[c].seen
             /\ call[c].pc = "told" => call'[c].who = call[c].who /\ call'[c].asked = call[c].asked
  <2>1. call[c] \in {Idle} \cup Calls
    BY DEF TypeOK
  <2>2. CASE call[c] # Idle /\ TokenOf[c] = t
    <3>1. call'[c] = [call[c] EXCEPT !.seen = @ \cup {w}] /\ call[c] \in Calls
      BY <1>1, <2>1, <2>2
    <3>2. call'[c] \in Calls /\ call'[c].pc = call[c].pc
      BY <3>1, SeesCall
    <3>3. call'[c] = Idle <=> call[c] = Idle
      BY <2>1, <3>2, CallShape
    <3> QED BY <2>2, <3>1, <3>2, <3>3, SeesCall
  <2>3. CASE ~(call[c] # Idle /\ TokenOf[c] = t)
    BY <1>1, <2>1, <2>3
  <2> QED BY <2>2, <2>3
<1>4. QueueType' /\ LineInv'
  BY <1>2, <1>3, StaysInLine
<1>5. ASSUME NEW u \in Tokens, NEW v \in Words
      PROVE  /\ ago[u][v] \in Ages /\ ago'[u][v] \in Ages
             /\ ago'[u][v] <= ago[u][v]
             /\ u = t /\ v = w => ago'[u][v] = 0
             /\ u # t => ago'[u][v] = ago[u][v]
  <2>0. ago[u][v] \in Ages
    BY DEF TypeOK
  <2>1. ago[u][v] \in Ages /\ ago[u][v] \in Nat
    BY <2>0, AgesAge
  <2>2. ago'[u][v] = IF u = t /\ v = w THEN 0 ELSE ago[u][v]
    BY <1>1 DEF TypeOK
  <2> QED BY <2>1, <2>2, AgesAreNumbers
<1>6. /\ word'[t] = w
      /\ \A u \in Tokens : u # t => word'[u] = word[u]
      /\ \A u \in Tokens : word[u] \in Words
  BY <1>1 DEF TypeOK
<1>7. WordInv'
  <2>1. \A u \in Tokens : ago'[u][word'[u]] = 0
    BY <1>5, <1>6 DEF WordInv
  <2>2. \A c \in Callers : call'[c] # Idle => word'[TokenOf[c]] \in call'[c].seen
    BY <1>3, <1>6, TokenAssumption DEF WordInv
  <2>3. ASSUME NEW c \in Callers, call'[c].pc = "told"
        PROVE  /\ call'[c].who \in call'[c].seen
               /\ ago'[TokenOf[c]][call'[c].who] <= call'[c].asked
    <3>1. call[c].pc = "told" /\ call[c] \in {Idle} \cup Calls
      BY <1>3, <2>3 DEF TypeOK
    <3>2. call[c].who \in Words /\ call[c].asked \in Ages /\ TokenOf[c] \in Tokens
          /\ call[c] # Idle
      BY <3>1, CallShape, TokenAssumption
    <3>3. /\ ago[TokenOf[c]][call[c].who] <= call[c].asked
          /\ call[c].who \in call[c].seen
      BY <3>1 DEF WordInv
    <3>4. /\ ago'[TokenOf[c]][call[c].who] <= ago[TokenOf[c]][call[c].who]
          /\ ago'[TokenOf[c]][call[c].who] \in Nat /\ ago[TokenOf[c]][call[c].who] \in Nat
          /\ call[c].asked \in Nat
      BY <1>5, <3>2, AgesAge
    <3>5. ago'[TokenOf[c]][call[c].who] <= call[c].asked
      BY <3>3, <3>4
    <3> QED BY <1>3, <3>1, <3>2, <3>3, <3>5
  <2> QED BY <2>1, <2>2, <2>3 DEF WordInv
<1>8. EntryInv'
  <2> SUFFICES ASSUME NEW u \in DOMAIN cache, cache[u].left > 0
               PROVE  ago'[u][cache[u].who] + cache[u].left <= Life(cache[u].who)
    BY <1>2 DEF EntryInv
  <2>1. u \in Tokens /\ cache[u].who \in Words /\ cache[u].left \in Nat
    BY AgesAge DEF TypeOK
  <2>2. ago[u][cache[u].who] + cache[u].left <= Life(cache[u].who)
    BY DEF EntryInv
  <2>3. /\ ago'[u][cache[u].who] <= ago[u][cache[u].who]
        /\ ago'[u][cache[u].who] \in Nat /\ ago[u][cache[u].who] \in Nat
        /\ Life(cache[u].who) \in Nat
    BY <1>5, <2>1, LifeType, AgesAge
  <2> QED BY <2>1, <2>2, <2>3
<1>9. SizeInv'
  BY <1>2 DEF SizeInv, CacheBounded
<1>10. TypeOK'
  <2>1. word' \in [Tokens -> Words] /\ ago' \in [Tokens -> [Words -> Ages]]
    BY <1>1, AgesAreNumbers DEF TypeOK
  <2>2. call' \in [Callers -> {Idle} \cup Calls]
    BY <1>1, <1>3
  <2> QED BY <1>2, <1>4, <2>1, <2>2 DEF TypeOK, QueueType
<1> QED BY <1>4, <1>7, <1>8, <1>9, <1>10

-----------------------------------------------------------------------------
\* Every step.

LEMMA InitInv == Init => Inv
<1> SUFFICES ASSUME Init PROVE Inv
  OBVIOUS
<1>1. \A c \in Callers : call[c] = Idle /\ call[c].pc = "idle"
  BY DEF Init, Idle
<1>2. TypeOK
  BY <1>1, AgesAreNumbers DEF Init, TypeOK
<1>3. LineInv
  BY <1>1 DEF Init, LineInv
<1>4. WordInv
  BY <1>1 DEF Init, WordInv
<1>5. DOMAIN cache = {}
  BY DEF Init
<1>6. EntryInv
  BY <1>5 DEF EntryInv
<1>7. SizeInv
  BY <1>5, FS_EmptySet, LimitAssumption DEF SizeInv, CacheBounded
<1> QED BY <1>2, <1>3, <1>4, <1>6, <1>7 DEF Inv

LEMMA NextInv == Inv /\ [Next]_vars => Inv'
<1> SUFFICES ASSUME Inv, [Next]_vars PROVE Inv'
  OBVIOUS
<1>1. CASE \E c \in Callers : Resolve(c)
  BY <1>1, ResolveInv
<1>2. CASE \E t \in Tokens : WordChanges(t)
  BY <1>2, WordChangesInv
<1>3. CASE Tick
  BY <1>3, TickInv
<1>4. CASE UNCHANGED vars
  BY <1>4 DEF vars, Inv, TypeOK, LineInv, WordInv, EntryInv, SizeInv, CacheBounded
<1> QED BY <1>1, <1>2, <1>3, <1>4 DEF Next

LEMMA Invariance == Spec => []Inv
BY InitInv, NextInv, PTL DEF Spec

\* What a usable entry says was said less than a lifetime ago.
LEMMA HitIsRecent ==
    ASSUME Inv, NEW t \in Tokens, Hit(t)
    PROVE  ago[t][cache[t].who] < Life(cache[t].who)
<1>1. /\ t \in DOMAIN cache /\ cache[t] \in [left : Ages, who : Words]
      /\ cache[t].left > 0
  BY DEF Inv, TypeOK, Hit
<1>2. ago[t][cache[t].who] \in Ages
  BY <1>1 DEF Inv, TypeOK
<1>3. /\ ago[t][cache[t].who] \in Nat /\ cache[t].left \in Nat
      /\ Life(cache[t].who) \in Nat
  BY <1>1, <1>2, AgesAge, LifeType
<1>4. ago[t][cache[t].who] + cache[t].left <= Life(cache[t].who)
  BY <1>1 DEF Inv, EntryInv
<1> QED BY <1>1, <1>3, <1>4

\* A step returns what was said lately, or nothing.
LEMMA AnswerStep == Inv /\ AnswerWasTrueLately /\ [Next]_vars => AnswerWasTrueLately'
<1> SUFFICES ASSUME Inv, AnswerWasTrueLately, [Next]_vars PROVE AnswerWasTrueLately'
  OBVIOUS
<1>1. ASSUME answer'.from \notin {"cache", "ha"} PROVE AnswerWasTrueLately'
  BY <1>1 DEF AnswerWasTrueLately
<1>2. ASSUME NEW c \in Callers, Hit(TokenOf[c]), UNCHANGED ago, NEW seen,
             Return(c, "cache", cache[TokenOf[c]].who, seen)
      PROVE  AnswerWasTrueLately'
  <2>1. ago[TokenOf[c]][cache[TokenOf[c]].who] < Life(cache[TokenOf[c]].who)
    BY <1>2, HitIsRecent, TokenAssumption
  <2>2. answer'.token = TokenOf[c] /\ answer'.who = cache[TokenOf[c]].who
    BY <1>2 DEF Return
  <2> QED BY <1>2, <2>1, <2>2 DEF AnswerWasTrueLately
<1>3. NoAnswer.from \notin {"cache", "ha"}
  BY DEF NoAnswer
<1>4. CASE \E c \in Callers : Resolve(c)
  <2>1. PICK c \in Callers : Resolve(c)
    BY <1>4
  <2>2. CASE AnswerFromCache(c)
    BY <1>2, <2>2 DEF AnswerFromCache
  <2>3. CASE AskOrWait(c) \/ HaSays(c)
    BY <1>1, <1>3, <2>3 DEF AskOrWait, HaSays
  <2>4. CASE Wake(c)
    <3>1. CASE Hit(TokenOf[c])
      BY <1>2, <2>4, <3>1 DEF Wake
    <3>2. CASE ~Hit(TokenOf[c])
      BY <1>1, <1>3, <2>4, <3>2 DEF Wake
    <3> QED BY <3>1, <3>2
  <2>5. CASE Returns(c)
    <3>1. answer'.who = call[c].who /\ answer'.seen = call[c].seen
      BY <2>5 DEF Returns, Return
    <3>2. call[c].who \in call[c].seen
      BY <2>5 DEF Returns, Inv, WordInv
    <3> QED BY <3>1, <3>2 DEF AnswerWasTrueLately
  <2>6. CASE Fails(c)
    BY <1>1, <2>6 DEF Fails, Return
  <2> QED BY <2>1, <2>2, <2>3, <2>4, <2>5, <2>6 DEF Resolve
<1>5. CASE Tick \/ \E t \in Tokens : WordChanges(t)
  BY <1>1, <1>3, <1>5 DEF Tick, WordChanges
<1>6. CASE UNCHANGED vars
  BY <1>6 DEF vars, AnswerWasTrueLately
<1> QED BY <1>4, <1>5, <1>6 DEF Next

-----------------------------------------------------------------------------
\* The theorems.

\* Every variable of IdentityResolver keeps its type, and a line holds calls only.
THEOREM TypeCorrect == Spec => []TypeOK
<1>1. Inv => TypeOK
  BY DEF Inv
<1> QED BY <1>1, Invariance, PTL

\* Home Assistant is never asked twice about one token at a time: whoever asks is
\* the head of the token's line (the lock of resolve).
THEOREM OneQuestionAtATime == Spec => []SingleFlight
<1>1. Inv => SingleFlight
  <2> SUFFICES ASSUME Inv, NEW c \in Callers, NEW d \in Callers,
                      call[c].pc \in {"asking", "told"}, call[d].pc \in {"asking", "told"},
                      TokenOf[c] = TokenOf[d]
               PROVE  c = d
    BY DEF SingleFlight
  <2> QED BY AskerHasLock DEF HasLock
<1> QED BY <1>1, Invariance, PTL

\* The cache of resolve holds at most its limit of answers.
THEOREM CacheStaysSmall == Spec => []CacheBounded
<1>1. Inv => CacheBounded
  BY DEF Inv, SizeInv
<1> QED BY <1>1, Invariance, PTL

\* What resolve returns Home Assistant said during the call, or less than a
\* lifetime ago.
THEOREM AnswersAreRecent == Spec => []AnswerWasTrueLately
<1>1. Init => AnswerWasTrueLately
  BY DEF Init, NoAnswer, AnswerWasTrueLately
<1> QED BY <1>1, AnswerStep, Invariance, PTL DEF Spec

\* A call that had to wait looks at the cache again before it asks.
THEOREM NobodyAsksInVain == Spec => NoNeedlessQuestion
<1>1. Inv /\ [Next]_vars =>
        [\A c \in Callers :
           call[c].pc # "asking" /\ call'[c].pc = "asking" => ~Hit(TokenOf[c])]_vars
  <2> SUFFICES ASSUME Inv, Next, NEW c \in Callers,
                      call[c].pc # "asking", call'[c].pc = "asking"
               PROVE  ~Hit(TokenOf[c])
    BY DEF vars
  <2>1. call \in [Callers -> {Idle} \cup Calls]
    BY DEF Inv, TypeOK
  <2>2. CASE \E d \in Callers : Resolve(d)
    <3>1. PICK d \in Callers : Resolve(d)
      BY <2>2
    <3>2. CASE AskOrWait(d)
      BY <2>1, <3>2 DEF AskOrWait
    <3>3. CASE Wake(d)
      BY <2>1, <3>3, IdleShape DEF Wake, Return
    <3>4. CASE HaSays(d)
      BY <2>1, <3>4 DEF HaSays, Told
    <3>5. CASE AnswerFromCache(d) \/ Returns(d) \/ Fails(d)
      BY <2>1, <3>5, IdleShape DEF AnswerFromCache, Returns, Fails, Return
    <3> QED BY <3>1, <3>2, <3>3, <3>4, <3>5 DEF Resolve
  <2>3. CASE Tick
    <3>1. call[c] \in {Idle} \cup Calls
      BY <2>1
    <3>2. call[c].pc \notin {"asking", "told"} => call'[c] = call[c]
      BY <2>3 DEF Tick
    <3>3. call[c].pc \in {"asking", "told"} => call'[c].pc = call[c].pc
      BY <2>3, <3>1, OlderCall DEF Tick
    <3> QED BY <3>2, <3>3
  <2>4. CASE \E t \in Tokens : WordChanges(t)
    <3>1. PICK w \in Words :
            \/ call'[c] = call[c]
            \/ call[c] # Idle /\ call'[c] = [call[c] EXCEPT !.seen = @ \cup {w}]
      BY <2>4 DEF WordChanges
    <3>2. CASE call'[c] = call[c]
      BY <3>2
    <3>3. CASE call[c] # Idle /\ call'[c] = [call[c] EXCEPT !.seen = @ \cup {w}]
      <4>1. call[c] \in Calls
        BY <2>1, <3>3
      <4> QED BY <3>3, <4>1, SeesCall
    <3> QED BY <3>1, <3>2, <3>3
  <2> QED BY <2>2, <2>3, <2>4 DEF Next
<1> QED BY <1>1, Invariance, PTL DEF Spec, NoNeedlessQuestion
=============================================================================
