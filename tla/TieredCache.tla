---------------------------- MODULE TieredCache ----------------------------
(***************************************************************************)
(* app/core/cache.py: Redis first, an in-process TTLCache when the Redis   *)
(* call fails or when Redis was unreachable at startup.                    *)
(*                                                                         *)
(* Time is relative: an entry carries its age, and Tick ages every entry   *)
(* and drops the ones that reach the end of their life, so the model runs  *)
(* for any length of time in a finite number of states.  (TTLCache drops an *)
(* expired entry only at the next write, but hides it from readers at once.) *)
(*                                                                         *)
(* The only awaits in get_cached and set_cached are the Redis calls; the   *)
(* critical sections under _fallback_lock contain none, so each is one     *)
(* step.  A Redis call may fail at any time (socket_timeout is 3 seconds), *)
(* also after the server applied it, and a SETEX given up by its caller    *)
(* may still reach the server later.                                       *)
(***************************************************************************)
EXTENDS Naturals, FiniteSets

CONSTANTS
    Clients, Keys, Values, Miss, NoReply, NoKey,
    Absent,    \* no entry under a key
    NoTTL,     \* set_cached called without a ttl argument
    TTLOf,     \* the ttl argument the callers pass with each value
    CacheTTL,  \* settings.cache_ttl_seconds
    MaxSize,   \* maxsize of the TTLCache (1000 in the code)
    MaxLate    \* bound: SETEX commands given up and still under way

ASSUME TieredCacheAssumption ==
    /\ NoTTL \notin Nat
    /\ CacheTTL \in Nat \ {0}
    /\ MaxSize \in Nat \ {0}
    /\ MaxLate \in Nat
    /\ TTLOf \in [Values -> (Nat \ {0}) \cup {NoTTL}]

VARIABLES
    connected, \* _redis_client is not None
    redis,     \* the Redis server's content
    fallback,  \* _fallback_cache
    older,     \* the TTLCache's recency order: <<j, k>> if k was used after j
    op,        \* op[c]: the cache call coroutine c awaits
    late,      \* SETEX commands whose caller gave up before they were applied
    asked,     \* asked[c]: the key argument of the last get_cached of c
    reply      \* reply[c]: what that call returned

vars == <<connected, redis, fallback, older, op, late, asked, reply>>

Entry == [val : Values, age : Nat]
Slot  == Entry \cup {Absent}

ASSUME MarkersAreNotEntries ==
    Absent \notin Entry /\ Miss \notin Entry /\ NoReply \notin Entry

Idle  == [kind |-> "idle"]
Op    == {Idle} \cup [kind : {"get"}, key : Keys]
                \cup [kind : {"set", "applied"}, key : Keys, val : Values]
Setex == [key : Keys, val : Values]

TypeOK ==
    /\ connected \in BOOLEAN
    /\ redis \in [Keys -> Slot]
    /\ fallback \in [Keys -> Slot]
    /\ older \subseteq Keys \X Keys
    /\ op \in [Clients -> Op]
    /\ late \subseteq Setex
    /\ asked \in [Clients -> Keys \cup {NoKey}]
    /\ reply \in [Clients -> Entry \cup {Miss, NoReply}]

Present == {k \in Keys : fallback[k] # Absent}
EffectiveTTL(v) == IF TTLOf[v] = NoTTL THEN CacheTTL ELSE TTLOf[v]

\* Mutant: the TTLCache keeps a lifetime set before the configured one.
FallbackLifeUnset(v) == 2 * CacheTTL

\* Redis expires each entry by its own TTL, the TTLCache all of them by one.
RedisLife(v) == EffectiveTTL(v)
FallbackLife(v) == CacheTTL

Init ==
    /\ connected \in BOOLEAN
    /\ redis = [k \in Keys |-> Absent]
    /\ fallback = [k \in Keys |-> Absent]
    /\ older = {}
    /\ op = [c \in Clients |-> Idle]
    /\ late = {}
    /\ asked = [c \in Clients |-> NoKey]
    /\ reply = [c \in Clients |-> NoReply]

\* Mutant: the in-house marker leaks to the caller.
AnswerRaw(slot) == slot

Answer(slot) == IF slot = Absent THEN Miss ELSE slot

\* The order once k was used, of k and the keys in others.
Touched(k, others) ==
    {p \in older : p[1] \in others /\ p[2] \in others} \cup (others \X {k})

\* _fallback_cache.get(hashed): a hit makes the key the most recently used.
FallbackGet(c, k) ==
    /\ reply' = [reply EXCEPT ![c] = Answer(fallback[k])]
    /\ older' = IF k \in Present THEN Touched(k, Present \ {k}) ELSE older
    /\ op' = [op EXCEPT ![c] = Idle]
    /\ UNCHANGED <<connected, redis, fallback, late>>

LeastRecent == {j \in Present : \A i \in Present : <<i, j>> \notin older}

\* Mutant: room for one entry too many.
VictimsLate(k) ==
    IF k \in Present \/ Cardinality(Present) <= MaxSize THEN {} ELSE LeastRecent

\* The least recently used key, when a new key finds the cache full.
Victims(k) ==
    IF k \in Present \/ Cardinality(Present) < MaxSize THEN {} ELSE LeastRecent

\* _fallback_cache[hashed] = value.
FallbackPut(k, v) ==
    /\ fallback' = [j \in Keys |->
         IF j = k THEN [val |-> v, age |-> 0]
         ELSE IF j \in Victims(k) THEN Absent ELSE fallback[j]]
    /\ older' = Touched(k, Present \ (Victims(k) \cup {k}))

\* get_cached without a Redis client: no await, answered in one step.
GetLocal(c, k) ==
    /\ op[c] = Idle
    /\ ~connected
    /\ asked' = [asked EXCEPT ![c] = k]
    /\ FallbackGet(c, k)

\* get_cached up to its await of the Redis GET.
SendGet(c, k) ==
    /\ op[c] = Idle
    /\ connected
    /\ op' = [op EXCEPT ![c] = [kind |-> "get", key |-> k]]
    /\ asked' = [asked EXCEPT ![c] = k]
    /\ reply' = [reply EXCEPT ![c] = NoReply]
    /\ UNCHANGED <<connected, redis, fallback, older, late>>

\* Mutant: the key is kept in the module, where a lookup that started since
\* has put its own.
RedisGetCrossed(c) ==
    /\ op[c].kind = "get"
    /\ \E d \in Clients :
         /\ op[d].kind = "get"
         /\ reply' = [reply EXCEPT ![c] = Answer(redis[op[d].key])]
    /\ op' = [op EXCEPT ![c] = Idle]
    /\ UNCHANGED <<connected, redis, fallback, older, late, asked>>

\* Redis answers; a miss is final, the fallback is not consulted.
RedisGet(c) ==
    /\ op[c].kind = "get"
    /\ reply' = [reply EXCEPT ![c] = Answer(redis[op[c].key])]
    /\ op' = [op EXCEPT ![c] = Idle]
    /\ UNCHANGED <<connected, redis, fallback, older, late, asked>>

\* Mutant: a GET that timed out is sent again.
FailGetRetried(c) ==
    /\ op[c].kind = "get"
    /\ UNCHANGED vars

\* The GET raises: get_cached falls through to the in-memory tier.
FailGet(c) ==
    /\ op[c].kind = "get"
    /\ FallbackGet(c, op[c].key)
    /\ UNCHANGED asked

\* set_cached without a Redis client.
SetLocal(c, k, v) ==
    /\ op[c] = Idle
    /\ ~connected
    /\ FallbackPut(k, v)
    /\ asked' = [asked EXCEPT ![c] = NoKey]
    /\ reply' = [reply EXCEPT ![c] = NoReply]
    /\ UNCHANGED <<connected, redis, op, late>>

\* set_cached up to its await of the Redis SETEX.
SendSet(c, k, v) ==
    /\ op[c] = Idle
    /\ connected
    /\ op' = [op EXCEPT ![c] = [kind |-> "set", key |-> k, val |-> v]]
    /\ asked' = [asked EXCEPT ![c] = NoKey]
    /\ reply' = [reply EXCEPT ![c] = NoReply]
    /\ UNCHANGED <<connected, redis, fallback, older, late>>

\* The server executes the SETEX; its acknowledgement is still on the way.
RedisSet(c) ==
    /\ op[c].kind = "set"
    /\ redis' = [redis EXCEPT ![op[c].key] = [val |-> op[c].val, age |-> 0]]
    /\ op' = [op EXCEPT ![c] = [@ EXCEPT !.kind = "applied"]]
    /\ UNCHANGED <<connected, fallback, older, late, asked, reply>>

\* The acknowledgement arrives and set_cached returns.
AckSet(c) ==
    /\ op[c].kind = "applied"
    /\ op' = [op EXCEPT ![c] = Idle]
    /\ UNCHANGED <<connected, redis, fallback, older, late, asked, reply>>

\* The SETEX raises, applied or not: the value goes to the in-memory tier.
\* One not yet applied may be lost or still be under way.
FailSet(c) ==
    /\ op[c].kind \in {"set", "applied"}
    /\ FallbackPut(op[c].key, op[c].val)
    /\ \/ late' = late
       \/ /\ op[c].kind = "set"
          /\ Cardinality(late) < MaxLate
          /\ late' = late \cup {[key |-> op[c].key, val |-> op[c].val]}
    /\ op' = [op EXCEPT ![c] = Idle]
    /\ UNCHANGED <<connected, redis, asked, reply>>

\* The server executes a SETEX its caller no longer waits for.
LateSet(m) ==
    /\ m \in late
    /\ redis' = [redis EXCEPT ![m.key] = [val |-> m.val, age |-> 0]]
    /\ late' = late \ {m}
    /\ UNCHANGED <<connected, fallback, older, op, asked, reply>>

\* One time unit older; gone when the tier's lifetime is reached.
Aged(slot, life) ==
    IF slot = Absent \/ slot.age + 1 >= life THEN Absent
    ELSE [slot EXCEPT !.age = @ + 1]
AgedRedis(slot) ==
    IF slot = Absent THEN Absent ELSE Aged(slot, RedisLife(slot.val))
AgedFallback(slot) ==
    IF slot = Absent THEN Absent ELSE Aged(slot, FallbackLife(slot.val))

Tick ==
    /\ redis' = [k \in Keys |-> AgedRedis(redis[k])]
    /\ fallback' = [k \in Keys |-> AgedFallback(fallback[k])]
    /\ older' = {p \in older : fallback'[p[1]] # Absent /\ fallback'[p[2]] # Absent}
    /\ UNCHANGED <<connected, op, late, asked, reply>>

\* The Redis server evicts a key or loses it in a restart of its own.
RedisLoses(k) ==
    /\ redis[k] # Absent
    /\ redis' = [redis EXCEPT ![k] = Absent]
    /\ UNCHANGED <<connected, fallback, older, op, late, asked, reply>>

\* The SETEX commands of callers that still wait for them.
InFlight == {[key |-> op[c].key, val |-> op[c].val] :
               c \in {d \in Clients : op[d].kind = "set"}}

\* close_cache, then init_cache in a new process: its PING decides for the
\* whole life of that process whether Redis is used.  What the old process had
\* sent may be lost with its connection or still be applied.
Restart ==
    /\ connected' \in BOOLEAN
    /\ fallback' = [k \in Keys |-> Absent]
    /\ older' = {}
    /\ op' = [c \in Clients |-> Idle]
    /\ asked' = [c \in Clients |-> NoKey]
    /\ reply' = [c \in Clients |-> NoReply]
    /\ \E sent \in SUBSET InFlight :
         /\ Cardinality(late \cup sent) <= MaxLate
         /\ late' = late \cup sent
    /\ UNCHANGED redis

\* The awaited Redis call of c answers or raises.
Resume(c) == RedisGet(c) \/ FailGet(c) \/ RedisSet(c) \/ AckSet(c) \/ FailSet(c)

Next ==
    \/ \E c \in Clients, k \in Keys : GetLocal(c, k) \/ SendGet(c, k)
    \/ \E c \in Clients, k \in Keys, v \in Values :
          SetLocal(c, k, v) \/ SendSet(c, k, v)
    \/ \E c \in Clients : Resume(c)
    \/ \E m \in Setex : LateSet(m)
    \/ Tick
    \/ \E k \in Keys : RedisLoses(k)
    \/ Restart

Spec == Init /\ [][Next]_vars

\* redis-py raises after socket_timeout; the server owes no answer at all.
FairSpec == Spec /\ \A c \in Clients : WF_vars(FailGet(c) \/ FailSet(c))

-----------------------------------------------------------------------------

\* Refinement: the two tiers together are one ResultCache.
ValuesIn(slot) == IF slot = Absent THEN {} ELSE {slot.val}
Live == [k \in Keys |-> ValuesIn(redis[k]) \cup ValuesIn(fallback[k])]
Replied == [c \in Clients |->
              IF reply[c] \in {Miss, NoReply} THEN reply[c] ELSE reply[c].val]

Promise == INSTANCE ResultCache WITH live <- Live, reply <- Replied

\* Whatever tier answers, and however calls, failures and expiry interleave,
\* get_cached(key) returns None or a value stored under the key it was called
\* with and still held by a tier when the answer was taken (cache.py:153-190, 193-223).
KeepsPromise == Promise!Spec

\* A value is never served beyond the longer of its own TTL and the cache-wide
\* one: an entry that survives in the in-memory tier while Redis moves on can
\* be stale, but only for so long (cache.py:50, 108, 206, 211, 222).
ServedWithinLifetime ==
    \A c \in Clients : reply[c] \notin {Miss, NoReply} =>
        \/ reply[c].age < EffectiveTTL(reply[c].val)
        \/ reply[c].age < CacheTTL

\* The in-memory tier never outgrows maxsize, and its recency order is a total
\* order of exactly its keys, so that eviction always finds one victim
\* (cache.py:50, 222).
FallbackBounded ==
    /\ Cardinality(Present) <= MaxSize
    /\ older \subseteq Present \X Present
    /\ \A i, j \in Present : <<i, j>> \in older <=> (i # j /\ <<j, i>> \notin older)
    /\ \A i, j, k \in Present : <<i, j>> \in older /\ <<j, k>> \in older => <<i, k>> \in older

\* No caller waits on the cache forever, even if Redis never answers again
\* (cache.py:118-120, 179-183, 214-218).
CallsReturn == \A c \in Clients : op[c] # Idle ~> op[c] = Idle

=============================================================================
