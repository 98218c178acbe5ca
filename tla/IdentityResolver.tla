-------------------------- MODULE IdentityResolver --------------------------
(***************************************************************************)
(* Whose token is this?  IdentityResolver.resolve (identity.py) has Home   *)
(* Assistant say, and remembers the answer for a while.  Every connection, *)
(* REST request and admin request calls it; the calls for one token take   *)
(* turns on an asyncio.Lock, which is fair: a call that finds others       *)
(* waiting queues up behind them.                                          *)
(*                                                                         *)
(* Home Assistant's own word on a token may change at any moment: a user   *)
(* is renamed, promoted or demoted, a token is revoked.                    *)
(*                                                                         *)
(* Time is kept as durations: what is left of a lifetime, how long ago a   *)
(* question was asked.  They stop at the longest lifetime, past which no   *)
(* comparison of the code tells them apart, so the clock runs for ever.    *)
(***************************************************************************)
EXTENDS Naturals, Sequences, FiniteSets

CONSTANTS
    Tokens,         \* access tokens, by digest
    Callers,        \* coroutines that may call resolve
    TokenOf,        \* the token each of them was given
    Identities,     \* what Home Assistant may say of a token
    None,           \* that it rejects it
    TTL,            \* cache_ttl
    NegativeTTL,    \* _NEGATIVE_TTL
    CacheLimit      \* the size past which the cache is emptied

ASSUME LifetimeAssumption == TTL \in Nat \ {0} /\ NegativeTTL \in Nat \ {0}
ASSUME TokenAssumption == TokenOf \in [Callers -> Tokens]
ASSUME LimitAssumption == CacheLimit \in Nat
ASSUME NoneAssumption == None \notin Identities

Words == Identities \cup {None}

Life(who) == IF who = None THEN NegativeTTL ELSE TTL

Longest == IF TTL < NegativeTTL THEN NegativeTTL ELSE TTL
Ages == 0 .. Longest

Older(age) == IF age < Longest THEN age + 1 ELSE Longest
Less(left) == IF left > 0 THEN left - 1 ELSE 0

VARIABLES
    word,           \* Home Assistant's word on each token
    ago,            \* history: how long ago each word was last its word
    cache,          \* _cache: per token it holds, the answer and the time left
    queue,          \* per token, the calls at its lock: the first one has it
    call,           \* per caller, the call it is in
    answer          \* history: what the last step returned, and to whom

vars == <<word, ago, cache, queue, call, answer>>

Idle == [pc |-> "idle"]
NoAnswer == [from |-> "nowhere"]

Hit(t) == t \in DOMAIN cache /\ cache[t].left > 0

-----------------------------------------------------------------------------
\* resolve.

Return(c, from, who, seen) ==
    /\ call' = [call EXCEPT ![c] = Idle]
    /\ answer' = [from |-> from, token |-> TokenOf[c], who |-> who, seen |-> seen]

\* The lock of the token passes to the next in line.
Release(t) == queue' = [queue EXCEPT ![t] = Tail(@)]

AnswerFromCache(c) ==
    /\ call[c] = Idle /\ Hit(TokenOf[c])
    /\ Return(c, "cache", cache[TokenOf[c]].who, {word[TokenOf[c]]})
    /\ UNCHANGED <<word, ago, cache, queue>>

\* `seen` is history: the words Home Assistant had since the call began.
Waiting(seen) == [pc |-> "waiting", seen |-> seen]
Asking(seen) == [pc |-> "asking", seen |-> seen, asked |-> 0]
Told(question, who) ==
    [pc |-> "told", seen |-> question.seen, asked |-> question.asked, who |-> who]

\* Mutant: nobody waits for anybody.
AskAtOnce(c) ==
    /\ call[c] = Idle /\ ~Hit(TokenOf[c])
    /\ queue' = [queue EXCEPT ![TokenOf[c]] = Append(@, c)]
    /\ call' = [call EXCEPT ![c] = Asking({word[TokenOf[c]]})]
    /\ answer' = NoAnswer
    /\ UNCHANGED <<word, ago, cache>>

\* Nothing usable in the cache: take the lock and ask, or wait for it.  A free
\* lock is taken without an await, so the second look at the cache is the first.
AskOrWait(c) ==
    /\ call[c] = Idle /\ ~Hit(TokenOf[c])
    /\ queue' = [queue EXCEPT ![TokenOf[c]] = Append(@, c)]
    /\ call' = [call EXCEPT ![c] = IF queue[TokenOf[c]] = <<>>
                                   THEN Asking({word[TokenOf[c]]})
                                   ELSE Waiting({word[TokenOf[c]]})]
    /\ answer' = NoAnswer
    /\ UNCHANGED <<word, ago, cache>>

HasLock(c) == Head(queue[TokenOf[c]]) = c

\* Mutant: the cache is not looked at again.
WakeAndAsk(c) ==
    /\ call[c].pc = "waiting" /\ HasLock(c)
    /\ call' = [call EXCEPT ![c] = Asking(@.seen)]
    /\ answer' = NoAnswer
    /\ UNCHANGED <<word, ago, cache, queue>>

\* The lock came free: the one who had it may have left an answer.
Wake(c) ==
    /\ call[c].pc = "waiting" /\ HasLock(c)
    /\ IF Hit(TokenOf[c])
       THEN Return(c, "cache", cache[TokenOf[c]].who, call[c].seen) /\ Release(TokenOf[c])
       ELSE /\ call' = [call EXCEPT ![c] = Asking(@.seen)]
            /\ answer' = NoAnswer /\ UNCHANGED queue
    /\ UNCHANGED <<word, ago, cache>>

\* auth_invalid, or auth_ok and the result of auth/current_user.
HaSays(c) ==
    /\ call[c].pc = "asking"
    /\ call' = [call EXCEPT ![c] = Told(@, word[TokenOf[c]])]
    /\ answer' = NoAnswer
    /\ UNCHANGED <<word, ago, cache, queue>>

Entry(who, age) == [left |-> IF age < Life(who) THEN Life(who) - age ELSE 0, who |-> who]

Cached(t, entry) == [k \in DOMAIN cache \cup {t} |-> IF k = t THEN entry ELSE cache[k]]

\* Mutant: the size is checked before the answer is put in.
CheckThenPut(t, entry) ==
    cache' = IF Cardinality(DOMAIN cache) > CacheLimit
             THEN [k \in {t} |-> entry] ELSE Cached(t, entry)

\* Past its limit the whole cache goes, with the answer just put in.
Put(t, entry) ==
    cache' = IF Cardinality(DOMAIN Cached(t, entry)) > CacheLimit
             THEN <<>> ELSE Cached(t, entry)

\* Mutant: the lifetime starts when the answer arrives.
ReturnsLate(c) ==
    /\ call[c].pc = "told"
    /\ Put(TokenOf[c], Entry(call[c].who, 0))
    /\ Return(c, "ha", call[c].who, call[c].seen)
    /\ Release(TokenOf[c])
    /\ UNCHANGED <<word, ago>>

\* _ask_ha returned.  The lifetime starts when the question was asked.
Returns(c) ==
    /\ call[c].pc = "told"
    /\ Put(TokenOf[c], Entry(call[c].who, call[c].asked))
    /\ Return(c, "ha", call[c].who, call[c].seen)
    /\ Release(TokenOf[c])
    /\ UNCHANGED <<word, ago>>

\* Mutant: the lock is kept.
FailsWithLock(c) ==
    /\ call[c].pc \in {"asking", "told"}
    /\ Return(c, "error", None, call[c].seen)
    /\ UNCHANGED <<word, ago, cache, queue>>

\* Home Assistant is down, closes the connection, does not let it open in ten
\* seconds, or says something else.
Fails(c) ==
    /\ call[c].pc \in {"asking", "told"}
    /\ Return(c, "error", None, call[c].seen)
    /\ Release(TokenOf[c])
    /\ UNCHANGED <<word, ago, cache>>

-----------------------------------------------------------------------------
\* Around it.

Tick ==
    /\ cache' = [t \in DOMAIN cache |-> [cache[t] EXCEPT !.left = Less(@)]]
    /\ call' = [c \in Callers |-> IF call[c].pc \in {"asking", "told"}
                                  THEN [call[c] EXCEPT !.asked = Older(@)] ELSE call[c]]
    /\ ago' = [t \in Tokens |-> [w \in Words |-> IF w = word[t] THEN 0 ELSE Older(ago[t][w])]]
    /\ answer' = NoAnswer
    /\ UNCHANGED <<word, queue>>

WordChanges(t) ==
    /\ \E w \in Words \ {word[t]} :
         /\ word' = [word EXCEPT ![t] = w]
         /\ ago' = [ago EXCEPT ![t][w] = 0]
         /\ call' = [c \in Callers |-> IF call[c] # Idle /\ TokenOf[c] = t
                                       THEN [call[c] EXCEPT !.seen = @ \cup {w}] ELSE call[c]]
    /\ answer' = NoAnswer
    /\ UNCHANGED <<cache, queue>>

Init ==
    /\ word \in [Tokens -> Words]
    /\ ago = [t \in Tokens |-> [w \in Words |-> IF w = word[t] THEN 0 ELSE Longest]]
    /\ cache = <<>>
    /\ queue = [t \in Tokens |-> <<>>]
    /\ call = [c \in Callers |-> Idle]
    /\ answer = NoAnswer

Resolve(c) ==
    \/ AnswerFromCache(c) \/ AskOrWait(c)
    \/ Wake(c) \/ HaSays(c) \/ Returns(c) \/ Fails(c)

Next ==
    \/ \E c \in Callers : Resolve(c)
    \/ \E t \in Tokens : WordChanges(t)
    \/ Tick

Spec == Init /\ [][Next]_vars

(***************************************************************************)
(* Fairness: the event loop resumes a call whose turn at the lock has      *)
(* come.  Nothing is owed by Home Assistant: the timeout of the session    *)
(* ends with the opening of the WebSocket, no receive_json has one, and    *)
(* there is no heartbeat, so a question may stay without an answer for     *)
(* ever.                                                                   *)
(***************************************************************************)
Fairness == \A c \in Callers : WF_vars(Wake(c))

FairSpec == Spec /\ Fairness

-----------------------------------------------------------------------------
\* Properties.

Calls ==
    [pc : {"waiting"}, seen : SUBSET Words]
      \cup [pc : {"asking"}, seen : SUBSET Words, asked : Ages]
      \cup [pc : {"told"}, seen : SUBSET Words, asked : Ages, who : Words]

\* Every variable has its type; the lock of a token is with one of the calls for
\* it, and only its holder asks.
TypeOK ==
    /\ word \in [Tokens -> Words] /\ ago \in [Tokens -> [Words -> Ages]]
    /\ DOMAIN cache \subseteq Tokens
    /\ \A t \in DOMAIN cache : cache[t] \in [left : Ages, who : Words]
    /\ call \in [Callers -> {Idle} \cup Calls]
    /\ queue \in [Tokens -> Seq(Callers)]
    /\ \A t \in Tokens : \A i \in DOMAIN queue[t] :
         call[queue[t][i]] # Idle /\ TokenOf[queue[t][i]] = t

\* What resolve returns is what Home Assistant said of the token at some moment of
\* the call, or less than a lifetime ago: a demotion, a revocation or an outage is
\* never papered over for longer (a cached answer counts from before the question,
\* an infrastructure error is not an answer).
AnswerWasTrueLately ==
    answer.from \in {"cache", "ha"} =>
        \/ answer.who \in answer.seen
        \/ ago[answer.token][answer.who] < Life(answer.who)

\* Home Assistant is never asked twice about one token at the same time, however
\* many of the user's requests arrive at once.
SingleFlight ==
    \A c, d \in Callers :
        /\ c # d
        /\ call[c].pc \in {"asking", "told"} /\ call[d].pc \in {"asking", "told"}
        => TokenOf[c] # TokenOf[d]

\* The cache never outgrows its limit.
CacheBounded == Cardinality(DOMAIN cache) <= CacheLimit

\* Nobody asks while the answer is there, also not one who had to wait for it.
NoNeedlessQuestion ==
    [][\A c \in Callers :
         call[c].pc # "asking" /\ call'[c].pc = "asking" => ~Hit(TokenOf[c])]_vars

\* A call that never returns is behind a question about its own token that Home
\* Assistant leaves open for ever, and behind nothing else: whoever fails or gives
\* up lets the next one go on, and nobody waits for the calls of another token
\* (resolve, the lock per token).
StuckOnlyBehindSilence ==
    \A c \in Callers :
        \/ []<>(call[c] = Idle)
        \/ \E d \in Callers : TokenOf[d] = TokenOf[c] /\ <>[](call[d].pc \in {"asking", "told"})
=============================================================================
