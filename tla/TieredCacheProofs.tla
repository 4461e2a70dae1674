------------------------- MODULE TieredCacheProofs -------------------------
(***************************************************************************)
(* For any number of coroutines, keys and values and any lifetimes, the    *)
(* two tiers together are the one ResultCache the pipeline builds on, and  *)
(* nothing outlives its bound.                                             *)
(***************************************************************************)
EXTENDS TieredCache, FiniteSetTheorems, TLAPS

\* The types of everything but the recency order, which only chooses victims.
TypeInv ==
    /\ connected \in BOOLEAN
    /\ redis \in [Keys -> Slot]
    /\ fallback \in [Keys -> Slot]
    /\ op \in [Clients -> Op]
    /\ late \subseteq Setex
    /\ asked \in [Clients -> Keys \cup {NoKey}]
    /\ reply \in [Clients -> Entry \cup {Miss, NoReply}]

\* No tier holds an entry past the lifetime that tier gives it.
LifetimeInv ==
    /\ \A k \in Keys : redis[k] # Absent => redis[k].age < RedisLife(redis[k].val)
    /\ \A k \in Keys : fallback[k] # Absent => fallback[k].age < CacheTTL

Inv == TypeInv /\ LifetimeInv /\ ServedWithinLifetime

LEMMA LifetimesPositive ==
    /\ CacheTTL \in Nat /\ 0 < CacheTTL
    /\ \A v \in Values : EffectiveTTL(v) \in Nat /\ 0 < EffectiveTTL(v)
  BY TieredCacheAssumption DEF EffectiveTTL

\* The four ways the tiers change: a store or an eviction in memory,
\* a store in Redis, the passage of time, a loss.
LEMMA FallbackPutKeeps ==
    ASSUME Inv, NEW k \in Keys, NEW v \in Values, FallbackPut(k, v)
    PROVE  /\ fallback' \in [Keys -> Slot]
           /\ \A j \in Keys : fallback'[j] # Absent => fallback'[j].age < CacheTTL
  <1> DEFINE new == [val |-> v, age |-> 0]
  <1>1. new \in Entry /\ new.age < CacheTTL
    BY LifetimesPositive DEF Entry
  <1>2. \A j \in Keys : fallback'[j] \in {new, Absent, fallback[j]}
    BY DEF FallbackPut
  <1>3. DOMAIN fallback' = Keys
    BY DEF FallbackPut
  <1>4. fallback' = [j \in Keys |-> fallback'[j]]
    BY DEF FallbackPut
  <1> HIDE DEF new
  <1>5. \A j \in Keys : fallback'[j] \in Slot
    BY <1>1, <1>2 DEF Inv, TypeInv, Slot
  <1>6. \A j \in Keys : fallback'[j] # Absent => fallback'[j].age < CacheTTL
    BY <1>1, <1>2 DEF Inv, LifetimeInv
  <1> QED
    BY <1>4, <1>5, <1>6

LEMMA RedisPutKeeps ==
    ASSUME Inv, NEW k \in Keys, NEW v \in Values,
           redis' = [redis EXCEPT ![k] = [val |-> v, age |-> 0]]
    PROVE  /\ redis' \in [Keys -> Slot]
           /\ \A j \in Keys : redis'[j] # Absent =>
                redis'[j].age < RedisLife(redis'[j].val)
  <1> DEFINE new == [val |-> v, age |-> 0]
  <1>1. new \in Entry /\ new.age < RedisLife(new.val)
    BY LifetimesPositive DEF Entry, RedisLife
  <1>2. redis' = [redis EXCEPT ![k] = new]
    OBVIOUS
  <1> HIDE DEF new
  <1> QED
    BY <1>1, <1>2 DEF Inv, TypeInv, LifetimeInv, Slot

LEMMA AgedSlot ==
    ASSUME NEW slot \in Slot, NEW life \in Nat
    PROVE  /\ Aged(slot, life) \in Slot
           /\ Aged(slot, life) # Absent =>
                /\ slot # Absent
                /\ Aged(slot, life).val = slot.val
                /\ Aged(slot, life).age < life
  <1>1. CASE slot = Absent
    BY <1>1 DEF Aged, Slot
  <1>2. CASE slot \in Entry
    BY <1>2 DEF Aged, Slot, Entry
  <1> QED
    BY <1>1, <1>2 DEF Slot

LEMMA TickKeeps ==
    ASSUME Inv, Tick
    PROVE  /\ redis' \in [Keys -> Slot] /\ fallback' \in [Keys -> Slot]
           /\ LifetimeInv'
  <1>1. \A k \in Keys : redis[k] # Absent => RedisLife(redis[k].val) \in Nat
    BY LifetimesPositive DEF RedisLife, Inv, TypeInv, Slot, Entry
  <1>2. \A k \in Keys : /\ AgedRedis(redis[k]) \in Slot
                        /\ AgedRedis(redis[k]) # Absent =>
                             AgedRedis(redis[k]).age < RedisLife(AgedRedis(redis[k]).val)
    BY <1>1, AgedSlot DEF AgedRedis, Inv, TypeInv, Slot
  <1>3. \A k \in Keys : /\ AgedFallback(fallback[k]) \in Slot
                        /\ AgedFallback(fallback[k]) # Absent =>
                             AgedFallback(fallback[k]).age < CacheTTL
    BY LifetimesPositive, AgedSlot DEF AgedFallback, FallbackLife, Inv, TypeInv, Slot
  <1>4. /\ redis' = [k \in Keys |-> AgedRedis(redis[k])]
        /\ fallback' = [k \in Keys |-> AgedFallback(fallback[k])]
    BY DEF Tick
  <1>5. redis' \in [Keys -> Slot] /\ fallback' \in [Keys -> Slot]
    BY <1>2, <1>3, <1>4
  <1>6. LifetimeInv'
    BY <1>2, <1>3, <1>4 DEF LifetimeInv
  <1> QED
    BY <1>5, <1>6

\* An answer read from a tier now is young enough to be served.
LEMMA AnswerIsYoung ==
    ASSUME Inv, NEW c \in Clients, NEW k \in Keys,
           NEW slot \in {redis[k], fallback[k]},
           reply' = [reply EXCEPT ![c] = Answer(slot)]
    PROVE  /\ reply' \in [Clients -> Entry \cup {Miss, NoReply}]
           /\ ServedWithinLifetime'
  <1>1. Answer(slot) \in Entry \cup {Miss}
    BY DEF Answer, Inv, TypeInv, Slot
  <1>2. Answer(slot) # Miss =>
          \/ Answer(slot).age < EffectiveTTL(Answer(slot).val)
          \/ Answer(slot).age < CacheTTL
    BY DEF Answer, Inv, LifetimeInv, RedisLife
  <1>3. reply' \in [Clients -> Entry \cup {Miss, NoReply}]
    BY <1>1 DEF Inv, TypeInv
  <1>4. \A d \in Clients : reply'[d] = IF d = c THEN Answer(slot) ELSE reply[d]
    BY DEF Inv, TypeInv
  <1>5. ServedWithinLifetime'
    BY <1>2, <1>4 DEF Inv, ServedWithinLifetime
  <1> QED
    BY <1>3, <1>5

LEMMA NoReplyKeeps ==
    ASSUME Inv, NEW c \in Clients, reply' = [reply EXCEPT ![c] = NoReply]
    PROVE  /\ reply' \in [Clients -> Entry \cup {Miss, NoReply}]
           /\ ServedWithinLifetime'
  BY DEF Inv, TypeInv, ServedWithinLifetime

LEMMA InitInv == Init => Inv
  BY DEF Init, Inv, TypeInv, LifetimeInv, ServedWithinLifetime, Slot, Op, Idle

LEMMA NextInv == Inv /\ [Next]_vars => Inv'
  <1> SUFFICES ASSUME Inv, [Next]_vars PROVE Inv'
    OBVIOUS
  <1>1. ASSUME NEW c \in Clients, NEW k \in Keys, GetLocal(c, k) PROVE Inv'
    <2>1. op' \in [Clients -> Op]
      BY <1>1 DEF GetLocal, FallbackGet, Inv, TypeInv, Op
    <2>2. /\ reply' = [reply EXCEPT ![c] = Answer(fallback[k])]
          /\ asked' = [asked EXCEPT ![c] = k]
          /\ UNCHANGED <<connected, redis, fallback, late>>
      BY <1>1 DEF GetLocal, FallbackGet
    <2> QED
      BY <2>1, <2>2, AnswerIsYoung DEF Inv, TypeInv, LifetimeInv
  <1>2. ASSUME NEW c \in Clients, NEW k \in Keys, SendGet(c, k) PROVE Inv'
    <2>1. op' \in [Clients -> Op]
      BY <1>2 DEF SendGet, Inv, TypeInv, Op
    <2> QED
      BY <1>2, <2>1, NoReplyKeeps DEF SendGet, Inv, TypeInv, LifetimeInv
  <1>3. ASSUME NEW c \in Clients, NEW k \in Keys, NEW v \in Values, SetLocal(c, k, v)
        PROVE  Inv'
    BY <1>3, FallbackPutKeeps, NoReplyKeeps DEF SetLocal, Inv, TypeInv, LifetimeInv
  <1>4. ASSUME NEW c \in Clients, NEW k \in Keys, NEW v \in Values, SendSet(c, k, v)
        PROVE  Inv'
    <2>1. op' \in [Clients -> Op]
      BY <1>4 DEF SendSet, Inv, TypeInv, Op
    <2> QED
      BY <1>4, <2>1, NoReplyKeeps DEF SendSet, Inv, TypeInv, LifetimeInv
  <1>5. ASSUME NEW c \in Clients, RedisGet(c) PROVE Inv'
    <2>1. op[c].key \in Keys
      BY <1>5 DEF RedisGet, Inv, TypeInv, Op, Idle
    <2>2. op' \in [Clients -> Op]
      BY <1>5 DEF RedisGet, Inv, TypeInv, Op
    <2> QED
      BY <1>5, <2>1, <2>2, AnswerIsYoung DEF RedisGet, Inv, TypeInv, LifetimeInv
  <1>6. ASSUME NEW c \in Clients, FailGet(c) PROVE Inv'
    <2>1. op[c].key \in Keys
      BY <1>6 DEF FailGet, Inv, TypeInv, Op, Idle
    <2>2. op' \in [Clients -> Op]
      BY <1>6 DEF FailGet, FallbackGet, Inv, TypeInv, Op
    <2>3. /\ reply' = [reply EXCEPT ![c] = Answer(fallback[op[c].key])]
          /\ UNCHANGED <<connected, redis, fallback, late, asked>>
      BY <1>6 DEF FailGet, FallbackGet
    <2> QED
      BY <2>1, <2>2, <2>3, AnswerIsYoung DEF Inv, TypeInv, LifetimeInv
  <1>7. ASSUME NEW c \in Clients, RedisSet(c) PROVE Inv'
    <2>1. op[c].key \in Keys /\ op[c].val \in Values
      BY <1>7 DEF RedisSet, Inv, TypeInv, Op, Idle
    <2>2. [op[c] EXCEPT !.kind = "applied"] \in Op
      BY <1>7 DEF RedisSet, Inv, TypeInv, Op, Idle
    <2>3. op' \in [Clients -> Op]
      BY <1>7, <2>2 DEF RedisSet, Inv, TypeInv
    <2> QED
      BY <1>7, <2>1, <2>3, RedisPutKeeps
         DEF RedisSet, Inv, TypeInv, LifetimeInv, ServedWithinLifetime
  <1>8. ASSUME NEW c \in Clients, AckSet(c) PROVE Inv'
    BY <1>8 DEF AckSet, Inv, TypeInv, LifetimeInv, ServedWithinLifetime, Op
  <1>9. ASSUME NEW c \in Clients, FailSet(c) PROVE Inv'
    <2>1. op[c].key \in Keys /\ op[c].val \in Values
      BY <1>9 DEF FailSet, Inv, TypeInv, Op, Idle
    <2>2. op' \in [Clients -> Op] /\ late' \subseteq Setex
      BY <1>9, <2>1 DEF FailSet, Inv, TypeInv, Op, Setex
    <2> QED
      BY <1>9, <2>1, <2>2, FallbackPutKeeps
         DEF FailSet, Inv, TypeInv, LifetimeInv, ServedWithinLifetime
  <1>10. ASSUME NEW m \in Setex, LateSet(m) PROVE Inv'
    <2>1. m.key \in Keys /\ m.val \in Values
      BY DEF Setex
    <2> QED
      BY <1>10, <2>1, RedisPutKeeps
         DEF LateSet, Inv, TypeInv, LifetimeInv, ServedWithinLifetime
  <1>11. ASSUME Tick PROVE Inv'
    <2>1. UNCHANGED <<connected, op, late, asked, reply>>
      BY <1>11 DEF Tick
    <2> QED
      BY <1>11, <2>1, TickKeeps DEF Inv, TypeInv, ServedWithinLifetime
  <1>12. ASSUME NEW k \in Keys, RedisLoses(k) PROVE Inv'
    BY <1>12 DEF RedisLoses, Inv, TypeInv, LifetimeInv, ServedWithinLifetime, Slot
  <1>13. ASSUME Restart PROVE Inv'
    <2>1. InFlight \subseteq Setex
      BY DEF InFlight, Setex, Inv, TypeInv, Op, Idle
    <2>2. late' \subseteq Setex
      BY <1>13, <2>1 DEF Restart, Inv, TypeInv
    <2> QED
      BY <1>13, <2>2 DEF Restart, Inv, TypeInv, LifetimeInv, ServedWithinLifetime, Slot, Op
  <1>14. ASSUME UNCHANGED vars PROVE Inv'
    BY <1>14 DEF vars, Inv, TypeInv, LifetimeInv, ServedWithinLifetime
  <1> QED
    BY <1>1, <1>2, <1>3, <1>4, <1>5, <1>6, <1>7, <1>8, <1>9, <1>10, <1>11, <1>12,
       <1>13, <1>14 DEF Next, Resume

LEMMA InvHolds == Spec => []Inv
  BY InitInv, NextInv, PTL DEF Spec

\* No answer is older than the longer of its own lifetime and the cache-wide
\* one, whichever tier gave it (cache.py:50, 108, 206, 211, 222).
THEOREM AnswersAreYoung == Spec => []ServedWithinLifetime
  <1>1. Inv => ServedWithinLifetime
    BY DEF Inv
  <1> QED
    BY <1>1, InvHolds, PTL

-----------------------------------------------------------------------------
(* The in-memory tier at its limit.                                        *)

\* The keys that were used before j.
Older(j) == {i \in Present : <<i, j>> \in older}

\* The order is one of keys that are there, and total.
Ordered ==
    /\ older \subseteq Present \X Present
    /\ \A i, j \in Present : <<i, j>> \in older <=> (i # j /\ <<j, i>> \notin older)
    /\ \A i, j, k \in Present : <<i, j>> \in older /\ <<j, k>> \in older => <<i, k>> \in older

BoundInv == IsFiniteSet(Present) /\ Cardinality(Present) <= MaxSize /\ Ordered

\* Of two keys, the one used later has more keys before it.
LEMMA OlderGrows ==
    ASSUME BoundInv, NEW i \in Present, NEW j \in Present, i # j
    PROVE  Cardinality(Older(i)) # Cardinality(Older(j))
<1>1. \A a, b \in Present : <<a, b>> \in older =>
        /\ Older(a) \in SUBSET Older(b) /\ a \in Older(b) \ Older(a)
        /\ IsFiniteSet(Older(b))
  <2> SUFFICES ASSUME NEW a \in Present, NEW b \in Present, <<a, b>> \in older
               PROVE  /\ Older(a) \in SUBSET Older(b) /\ a \in Older(b) \ Older(a)
                      /\ IsFiniteSet(Older(b))
    OBVIOUS
  <2>1. Older(a) \in SUBSET Older(b) /\ a \in Older(b) \ Older(a)
    BY DEF BoundInv, Ordered, Older
  <2>2. Older(b) \in SUBSET Present
    BY DEF Older
  <2> QED
    BY <2>1, <2>2, FS_Subset DEF BoundInv
<1>2. \A a, b \in Present : <<a, b>> \in older => Cardinality(Older(a)) # Cardinality(Older(b))
  BY <1>1, FS_Subset
<1>3. <<i, j>> \in older \/ <<j, i>> \in older
  BY DEF BoundInv, Ordered
<1> QED
  BY <1>2, <1>3

\* If every key had one before it, the keys would have too few places: some
\* key is the least recently used.
LEMMA LeastExists ==
    ASSUME BoundInv, Present # {}
    PROVE  LeastRecent # {}
<1> SUFFICES ASSUME LeastRecent = {} PROVE FALSE
  OBVIOUS
<1> DEFINE n == Cardinality(Present)
           place == [j \in Present |-> Cardinality(Older(j))]
<1>1. IsFiniteSet(Present) /\ n \in Nat
  BY FS_CardinalityType DEF BoundInv
<1>2. ASSUME NEW j \in Present PROVE Cardinality(Older(j)) \in 1 .. n - 1
  <2>1. Older(j) \in SUBSET Present /\ j \notin Older(j) /\ Older(j) # {}
    BY DEF Older, LeastRecent, BoundInv, Ordered
  <2>2. /\ IsFiniteSet(Older(j)) /\ Cardinality(Older(j)) <= n
        /\ Cardinality(Older(j)) # n
    BY <1>1, <2>1, FS_Subset
  <2>3. Cardinality(Older(j)) \in Nat /\ Cardinality(Older(j)) # 0
    BY <2>1, <2>2, FS_CardinalityType, FS_EmptySet
  <2> HIDE DEF n
  <2> QED
    BY <1>1, <2>2, <2>3
<1>3. place \in [Present -> 1 .. n - 1]
  BY <1>2
<1>4. IsFiniteSet(1 .. n - 1) /\ Cardinality(1 .. n - 1) < n
  <2>1. n # 0
    BY <1>1, FS_EmptySet
  <2> HIDE DEF n
  <2>2. 1 \in Int /\ n - 1 \in Int
    BY <1>1
  <2>3. /\ IsFiniteSet(1 .. n - 1)
        /\ Cardinality(1 .. n - 1) = IF 1 > n - 1 THEN 0 ELSE (n - 1) - 1 + 1
    BY <2>2, FS_Interval
  <2> QED
    BY <1>1, <2>1, <2>3
<1>5. PICK i, j \in Present : i # j /\ place[i] = place[j]
  <2> HIDE DEF place
  <2> QED
    BY <1>1, <1>3, <1>4, FS_PigeonHole
<1> QED
  BY <1>5, OlderGrows

\* Using a key keeps the order total.
LEMMA TouchedOrdered ==
    ASSUME Ordered, NEW k, NEW others, others \subseteq Present, k \notin others,
           Present' = others \cup {k}, older' = Touched(k, others)
    PROVE  Ordered'
<1>1. \A i, j : <<i, j>> \in older' <=>
         \/ i \in others /\ j \in others /\ <<i, j>> \in older
         \/ i \in others /\ j = k
  BY DEF Touched
<1>2. older' \subseteq Present' \X Present'
  BY DEF Touched, Ordered
<1>3. \A i, j \in Present' : <<i, j>> \in older' <=> (i # j /\ <<j, i>> \notin older')
  BY <1>1 DEF Ordered
<1>4. \A i, j, h \in Present' : <<i, j>> \in older' /\ <<j, h>> \in older' => <<i, h>> \in older'
  BY <1>1 DEF Ordered
<1> QED
  BY <1>2, <1>3, <1>4 DEF Ordered

LEMMA GetBounded ==
    ASSUME BoundInv, NEW c, NEW k \in Keys, FallbackGet(c, k)
    PROVE  BoundInv'
<1>1. Present' = Present
  BY DEF FallbackGet, Present
<1>2. CASE k \in Present
  <2>1. Ordered'
    <3>1. older' = Touched(k, Present \ {k}) /\ Present' = (Present \ {k}) \cup {k}
      BY <1>1, <1>2 DEF FallbackGet
    <3>2. Ordered /\ Present \ {k} \subseteq Present /\ k \notin Present \ {k}
      BY DEF BoundInv
    <3> QED
      BY <3>1, <3>2, TouchedOrdered
  <2> QED
    BY <1>1, <2>1 DEF BoundInv
<1>3. CASE k \notin Present
  BY <1>1, <1>3 DEF FallbackGet, BoundInv, Ordered
<1> QED
  BY <1>2, <1>3

\* A store that finds the tier full evicts before it adds.
LEMMA PutBounded ==
    ASSUME Inv, BoundInv, NEW k \in Keys, NEW v \in Values, FallbackPut(k, v)
    PROVE  BoundInv'
<1> DEFINE others == Present \ (Victims(k) \cup {k})
<1>1. Present' = others \cup {k}
  <2>1. [val |-> v, age |-> 0] # Absent
    BY MarkersAreNotEntries DEF Entry
  <2>2. \A j \in Keys : fallback'[j] =
           IF j = k THEN [val |-> v, age |-> 0]
           ELSE IF j \in Victims(k) THEN Absent ELSE fallback[j]
    BY DEF FallbackPut
  <2>3. Present' = {j \in Keys : fallback'[j] # Absent}
    BY DEF Present
  <2> QED
    BY <2>1, <2>2, <2>3 DEF Present
<1>2. Ordered'
  <2>1. older' = Touched(k, others)
    BY DEF FallbackPut
  <2>2. Ordered /\ others \subseteq Present /\ k \notin others
    BY DEF BoundInv
  <2> HIDE DEF others
  <2> QED
    BY <1>1, <2>1, <2>2, TouchedOrdered
<1>3. IsFiniteSet(Present) /\ Cardinality(Present) \in Nat /\ Cardinality(Present) <= MaxSize
  BY FS_CardinalityType DEF BoundInv
<1>4. MaxSize \in Nat \ {0}
  BY TieredCacheAssumption
<1>5. IsFiniteSet(others) /\ Cardinality(others) \in Nat /\ Cardinality(others) < MaxSize
  <2>1. others \in SUBSET Present
    OBVIOUS
  <2>2. /\ IsFiniteSet(others) /\ Cardinality(others) <= Cardinality(Present)
        /\ Cardinality(Present) = Cardinality(others) => Present = others
    <3> HIDE DEF others
    <3> QED
      BY <1>3, <2>1, FS_Subset
  <2>3. Cardinality(Present) = MaxSize => Present # others
    <3>1. CASE k \in Present
      BY <3>1
    <3>2. CASE k \notin Present /\ Cardinality(Present) = MaxSize
      <4>1. Present # {}
        BY <1>4, <3>2, FS_EmptySet
      <4>2. Victims(k) = LeastRecent
        BY <1>4, <3>2 DEF Victims
      <4>3. Victims(k) # {} /\ Victims(k) \subseteq Present
        BY <4>1, <4>2, LeastExists DEF LeastRecent
      <4> QED
        BY <4>3
    <3> QED
      BY <3>1, <3>2
  <2>4. Cardinality(others) \in Nat
    BY <2>2, FS_CardinalityType
  <2> HIDE DEF others
  <2> QED
    BY <1>3, <1>4, <2>2, <2>3, <2>4
<1>6. IsFiniteSet(Present') /\ Cardinality(Present') <= MaxSize
  <2> HIDE DEF others
  <2>1. /\ IsFiniteSet(others \cup {k})
        /\ Cardinality(others \cup {k}) \in {Cardinality(others), Cardinality(others) + 1}
    BY <1>5, FS_AddElement
  <2> QED
    BY <1>1, <1>4, <1>5, <2>1
<1> QED
  BY <1>2, <1>6 DEF BoundInv

\* Expiry takes keys away and leaves the order of the others.
LEMMA TickBounded ==
    ASSUME Inv, BoundInv, Tick
    PROVE  BoundInv'
<1>1. Present' \in SUBSET Present
  <2>1. \A k \in Keys : fallback[k] = Absent => fallback'[k] = Absent
    BY DEF Tick, AgedFallback
  <2> QED
    BY <2>1 DEF Present
<1>2. \A i, j : <<i, j>> \in older' <=> <<i, j>> \in older /\ i \in Present' /\ j \in Present'
  <2>1. older \subseteq Keys \X Keys
    BY DEF BoundInv, Ordered, Present
  <2>2. \A i, j \in Keys : <<i, j>> \in older' <=>
           <<i, j>> \in older /\ fallback'[i] # Absent /\ fallback'[j] # Absent
    BY DEF Tick
  <2>3. older' \subseteq older
    BY DEF Tick
  <2> QED
    BY <2>1, <2>2, <2>3 DEF Present
<1>3. older' \subseteq Present' \X Present'
  <2>1. older' \subseteq Present \X Present
    BY DEF Tick, BoundInv, Ordered
  <2> QED
    BY <1>2, <2>1
<1>4. Ordered'
  BY <1>1, <1>2, <1>3 DEF BoundInv, Ordered
<1>5. IsFiniteSet(Present') /\ Cardinality(Present') <= Cardinality(Present)
  BY <1>1, FS_Subset DEF BoundInv
<1>6. Cardinality(Present) \in Nat /\ Cardinality(Present') \in Nat /\ MaxSize \in Nat
  BY <1>5, FS_CardinalityType, TieredCacheAssumption DEF BoundInv
<1> QED
  BY <1>4, <1>5, <1>6 DEF BoundInv

LEMMA EmptyBounded ==
    ASSUME Present = {}, older = {}
    PROVE  BoundInv
  BY FS_EmptySet, TieredCacheAssumption DEF BoundInv, Ordered

LEMMA NextBounded == Inv /\ BoundInv /\ [Next]_vars => BoundInv'
<1> SUFFICES ASSUME Inv, BoundInv, [Next]_vars PROVE BoundInv'
  OBVIOUS
<1>1. ASSUME UNCHANGED <<fallback, older>> PROVE BoundInv'
  BY <1>1 DEF BoundInv, Ordered, Present
<1>2. ASSUME NEW c \in Clients, NEW k \in Keys, GetLocal(c, k) \/ SendGet(c, k)
      PROVE  BoundInv'
  BY <1>1, <1>2, GetBounded DEF GetLocal, SendGet
<1>3. ASSUME NEW c \in Clients, NEW k \in Keys, NEW v \in Values,
             SetLocal(c, k, v) \/ SendSet(c, k, v)
      PROVE  BoundInv'
  BY <1>1, <1>3, PutBounded DEF SetLocal, SendSet
<1>4. ASSUME NEW c \in Clients, FailGet(c) PROVE BoundInv'
  <2>1. op[c].key \in Keys
    BY <1>4 DEF FailGet, Inv, TypeInv, Op, Idle
  <2> QED
    BY <1>4, <2>1, GetBounded DEF FailGet
<1>5. ASSUME NEW c \in Clients, FailSet(c) PROVE BoundInv'
  <2>1. op[c].key \in Keys /\ op[c].val \in Values
    BY <1>5 DEF FailSet, Inv, TypeInv, Op, Idle
  <2> QED
    BY <1>5, <2>1, PutBounded DEF FailSet
<1>6. ASSUME NEW c \in Clients, RedisGet(c) \/ RedisSet(c) \/ AckSet(c) PROVE BoundInv'
  BY <1>1, <1>6 DEF RedisGet, RedisSet, AckSet
<1>7. ASSUME NEW m \in Setex, LateSet(m) PROVE BoundInv'
  BY <1>1, <1>7 DEF LateSet
<1>8. ASSUME NEW k \in Keys, RedisLoses(k) PROVE BoundInv'
  BY <1>1, <1>8 DEF RedisLoses
<1>9. ASSUME Restart PROVE BoundInv'
  <2>1. Present' = {} /\ older' = {}
    BY <1>9 DEF Restart, Present
  <2> QED
    BY <2>1, FS_EmptySet, TieredCacheAssumption DEF BoundInv, Ordered
<1>10. ASSUME UNCHANGED vars PROVE BoundInv'
  BY <1>1, <1>10 DEF vars
<1> QED
  BY <1>2, <1>3, <1>4, <1>5, <1>6, <1>7, <1>8, <1>9, <1>10, TickBounded DEF Next, Resume

LEMMA BoundHolds == Spec => []BoundInv
<1>1. Init => BoundInv
  <2>1. Init => Present = {} /\ older = {}
    BY DEF Init, Present
  <2> QED
    BY <2>1, EmptyBounded
<1> QED
  BY <1>1, NextBounded, InvHolds, PTL DEF Spec

\* The in-memory tier never outgrows maxsize, for any size and any number of
\* keys, and eviction always finds its victim (cache.py:50, 222).
THEOREM FallbackStaysBounded == Spec => []FallbackBounded
<1>1. BoundInv => FallbackBounded
  BY DEF BoundInv, Ordered, FallbackBounded
<1> QED
  BY <1>1, BoundHolds, PTL

\* Every variable of the two tiers keeps its type: what a caller is given is an
\* entry or nothing, never a marker of the model for an empty slot (cache.py:153-190).
THEOREM TypeCorrect == Spec => []TypeOK
<1>1. Inv /\ BoundInv => TypeOK
  BY DEF Inv, TypeInv, BoundInv, Ordered, Present, TypeOK
<1> QED
  BY <1>1, InvHolds, BoundHolds, PTL

-----------------------------------------------------------------------------
(* Which key a lookup is of.                                               *)

\* A caller that waits for Redis has not been answered, and waits for the key
\* it asked for.
AskedInv == \A c \in Clients :
    op[c].kind = "get" => asked[c] = op[c].key /\ reply[c] = NoReply

LEMMA NextAsked == Inv /\ AskedInv /\ [Next]_vars => AskedInv'
  <1> SUFFICES ASSUME Inv, AskedInv, [Next]_vars PROVE AskedInv'
    OBVIOUS
  <1> USE DEF AskedInv, Inv, TypeInv
  <1>1. ASSUME NEW c \in Clients, NEW k \in Keys, GetLocal(c, k) PROVE AskedInv'
    BY <1>1 DEF GetLocal, FallbackGet, Idle
  <1>2. ASSUME NEW c \in Clients, NEW k \in Keys, SendGet(c, k) PROVE AskedInv'
    BY <1>2 DEF SendGet
  <1>3. ASSUME NEW c \in Clients, NEW k \in Keys, NEW v \in Values, SetLocal(c, k, v)
        PROVE  AskedInv'
    BY <1>3 DEF SetLocal, Idle
  <1>4. ASSUME NEW c \in Clients, NEW k \in Keys, NEW v \in Values, SendSet(c, k, v)
        PROVE  AskedInv'
    BY <1>4 DEF SendSet
  <1>5. ASSUME NEW c \in Clients, RedisGet(c) PROVE AskedInv'
    BY <1>5 DEF RedisGet, Idle
  <1>6. ASSUME NEW c \in Clients, FailGet(c) PROVE AskedInv'
    BY <1>6 DEF FailGet, FallbackGet, Idle
  <1>7. ASSUME NEW c \in Clients, RedisSet(c) PROVE AskedInv'
    <2>1. \A d \in Clients : op'[d].kind = "get" => op'[d] = op[d]
      BY <1>7 DEF RedisSet, Op, Idle
    <2> QED
      BY <1>7, <2>1 DEF RedisSet
  <1>8. ASSUME NEW c \in Clients, AckSet(c) \/ FailSet(c) PROVE AskedInv'
    BY <1>8 DEF AckSet, FailSet, Idle
  <1>9. ASSUME UNCHANGED <<op, asked, reply>> PROVE AskedInv'
    BY <1>9
  <1>10. ASSUME Restart PROVE AskedInv'
    BY <1>10 DEF Restart, Idle
  <1> QED
    BY <1>1, <1>2, <1>3, <1>4, <1>5, <1>6, <1>7, <1>8, <1>9, <1>10
       DEF Next, Resume, LateSet, Tick, RedisLoses, vars

LEMMA AskedHolds == Spec => []AskedInv
  <1>1. Init => AskedInv
    BY DEF Init, AskedInv, Idle
  <1> QED
    BY <1>1, NextAsked, InvHolds, PTL DEF Spec

-----------------------------------------------------------------------------
(* Refinement: every step of the tiers is a step of ResultCache.           *)

LEMMA LiveAt == \A k \in Keys : Live[k] = ValuesIn(redis[k]) \cup ValuesIn(fallback[k])
  BY DEF Live

\* Taking values away is what Shrunk allows.
LEMMA SubsetIsShrunk ==
    ASSUME NEW kept, kept = [k \in Keys |-> kept[k]],
           \A k \in Keys : kept[k] \subseteq Live[k]
    PROVE  kept \in Promise!Shrunk
  <1>1. \A k \in Keys : kept[k] \in UNION {SUBSET Live[j] : j \in Keys}
    OBVIOUS
  <1>2. kept \in [Keys -> UNION {SUBSET Live[j] : j \in Keys}]
    BY <1>1
  <1> QED
    BY <1>2 DEF Promise!Shrunk

LEMMA StepForgets ==
    ASSUME \A k \in Keys : Live'[k] \subseteq Live[k], asked' = asked, reply' = reply
    PROVE  Promise!Forget
  <1>1. Live' = [k \in Keys |-> Live'[k]]
    BY DEF Live
  <1>2. Live' \in Promise!Shrunk
    BY <1>1, SubsetIsShrunk
  <1>3. Replied' = Replied
    BY DEF Replied
  <1> QED
    BY <1>2, <1>3 DEF Promise!Forget

\* A step after which one key holds one more value, and no key any other.
LEMMA StepPuts ==
    ASSUME NEW k \in Keys, NEW v \in Values, v \in Live'[k],
           \A j \in Keys : \A x \in Live'[j] : x \in Live[j] \/ (j = k /\ x = v),
           \/ asked' = asked /\ Replied' = Replied
           \/ \E c \in Clients : Promise!Release(c)
    PROVE  Promise!Put(k, v)
  <1> DEFINE kept == [j \in Keys |-> Live'[j] \cap Live[j]]
  <1>1. Live' = [j \in Keys |-> Live'[j]]
    BY DEF Live
  <1>2. kept \in Promise!Shrunk
    BY SubsetIsShrunk
  <1>3. Live' = [kept EXCEPT ![k] = @ \cup {v}]
    BY <1>1
  <1> QED
    BY <1>2, <1>3 DEF Promise!Put

\* The abstract answer of one client changes.
LEMMA RepliedUpdate ==
    ASSUME NEW c \in Clients, NEW a,
           \A d \in Clients : Replied'[d] = IF d = c THEN a ELSE Replied[d]
    PROVE  Replied' = [Replied EXCEPT ![c] = a]
  <1>1. /\ Replied' = [d \in Clients |-> Replied'[d]]
        /\ Replied = [d \in Clients |-> Replied[d]]
    BY DEF Replied
  <1> HIDE DEF Replied
  <1>2. [Replied EXCEPT ![c] = a] = [d \in Clients |-> IF d = c THEN a ELSE Replied[d]]
    BY <1>1
  <1> QED
    BY <1>1, <1>2

LEMMA StepAnswers ==
    ASSUME Inv, NEW c \in Clients, NEW k \in Keys,
           NEW slot \in {redis[k], fallback[k]},
           reply' = [reply EXCEPT ![c] = Answer(slot)],
           redis' = redis, fallback' = fallback
    PROVE  /\ Live' = Live
           /\ \E a \in Live[k] \cup {Miss} : Replied' = [Replied EXCEPT ![c] = a]
  <1> DEFINE a == IF slot = Absent THEN Miss ELSE slot.val
  <1>1. Live' = Live
    BY DEF Live
  <1>2. slot \in Slot
    BY DEF Inv, TypeInv
  <1>3. Answer(slot) \in {Miss, NoReply} <=> slot = Absent
    BY <1>2, MarkersAreNotEntries DEF Answer, Slot
  <1>4. a \in Live[k] \cup {Miss}
    BY LiveAt DEF ValuesIn
  <1>5. \A d \in Clients : reply'[d] = IF d = c THEN Answer(slot) ELSE reply[d]
    BY DEF Inv, TypeInv
  <1>6. \A d \in Clients : Replied'[d] = IF d = c THEN a ELSE Replied[d]
    BY <1>3, <1>5 DEF Replied, Answer
  <1>7. Replied' = [Replied EXCEPT ![c] = a]
    BY <1>6, RepliedUpdate
  <1> QED
    BY <1>1, <1>4, <1>7

LEMMA NoReplyReplied ==
    ASSUME Inv, NEW c \in Clients, reply' = [reply EXCEPT ![c] = NoReply]
    PROVE  Replied' = [Replied EXCEPT ![c] = NoReply]
  <1>1. \A d \in Clients : reply'[d] = IF d = c THEN NoReply ELSE reply[d]
    BY DEF Inv, TypeInv
  <1>2. \A d \in Clients : Replied'[d] = IF d = c THEN NoReply ELSE Replied[d]
    BY <1>1 DEF Replied
  <1> QED
    BY <1>2, RepliedUpdate

LEMMA CallerReleases ==
    ASSUME Inv, NEW c \in Clients, reply' = [reply EXCEPT ![c] = NoReply],
           asked' = [asked EXCEPT ![c] = NoKey]
    PROVE  Promise!Release(c)
  BY NoReplyReplied DEF Promise!Release

LEMMA FallbackPutLive ==
    ASSUME Inv, NEW k \in Keys, NEW v \in Values, FallbackPut(k, v), redis' = redis
    PROVE  /\ v \in Live'[k]
           /\ \A j \in Keys : \A x \in Live'[j] : x \in Live[j] \/ (j = k /\ x = v)
  <1> DEFINE new == [val |-> v, age |-> 0]
  <1>1. \A j \in Keys : /\ j = k => fallback'[j] = new
                        /\ j # k => fallback'[j] \in {Absent, fallback[j]}
    BY DEF FallbackPut
  <1>2. new # Absent /\ new.val = v
    BY MarkersAreNotEntries DEF Entry
  <1>3. \A j \in Keys : Live'[j] = ValuesIn(redis[j]) \cup ValuesIn(fallback'[j])
    BY DEF Live, ValuesIn
  <1> HIDE DEF new
  <1> QED
    BY <1>1, <1>2, <1>3, LiveAt DEF ValuesIn

LEMMA RedisPutLive ==
    ASSUME Inv, NEW k \in Keys, NEW v \in Values, fallback' = fallback,
           redis' = [redis EXCEPT ![k] = [val |-> v, age |-> 0]]
    PROVE  /\ v \in Live'[k]
           /\ \A j \in Keys : \A x \in Live'[j] : x \in Live[j] \/ (j = k /\ x = v)
  <1> DEFINE new == [val |-> v, age |-> 0]
  <1>1. \A j \in Keys : redis'[j] = IF j = k THEN new ELSE redis[j]
    BY DEF Inv, TypeInv
  <1>2. new # Absent /\ new.val = v
    BY MarkersAreNotEntries DEF Entry
  <1>3. \A j \in Keys : Live'[j] = ValuesIn(redis'[j]) \cup ValuesIn(fallback[j])
    BY DEF Live, ValuesIn
  <1> HIDE DEF new
  <1> QED
    BY <1>1, <1>2, <1>3, LiveAt DEF ValuesIn

LEMMA InitPromise == Init => Promise!Init
  <1> SUFFICES ASSUME Init PROVE Promise!Init
    OBVIOUS
  <1>1. Live = [k \in Keys |-> {}]
    BY DEF Init, Live, ValuesIn
  <1>2. Replied = [c \in Clients |-> NoReply]
    BY DEF Init, Replied
  <1>3. asked = [c \in Clients |-> NoKey]
    BY DEF Init
  <1> QED
    BY <1>1, <1>2, <1>3 DEF Promise!Init

LEMMA NextPromise ==
    Inv /\ AskedInv /\ [Next]_vars => [Promise!Next]_<<Live, asked, Replied>>
  <1> SUFFICES ASSUME Inv, AskedInv, [Next]_vars PROVE [Promise!Next]_<<Live, asked, Replied>>
    OBVIOUS
  <1> USE DEF Promise!Next
  <1>1. ASSUME NEW c \in Clients, NEW k \in Keys, GetLocal(c, k) PROVE Promise!Next
    <2>1. Promise!Lookup(c, k)
      BY <1>1, StepAnswers DEF GetLocal, FallbackGet, Promise!Lookup
    <2> QED
      BY <2>1
  <1>2. ASSUME NEW c \in Clients, NEW k \in Keys, SendGet(c, k) PROVE Promise!Next
    <2>1. Promise!Begin(c, k)
      BY <1>2, NoReplyReplied DEF SendGet, Promise!Begin, Live
    <2> QED
      BY <2>1
  <1>3. ASSUME NEW c \in Clients, NEW k \in Keys, NEW v \in Values, SetLocal(c, k, v)
        PROVE  Promise!Next
    <2>1. Promise!Put(k, v)
      BY <1>3, FallbackPutLive, CallerReleases, StepPuts DEF SetLocal
    <2> QED
      BY <2>1
  <1>4. ASSUME NEW c \in Clients, NEW k \in Keys, NEW v \in Values, SendSet(c, k, v)
        PROVE  Promise!Next
    <2>1. Promise!Leave(c)
      BY <1>4, CallerReleases DEF SendSet, Promise!Leave, Live
    <2> QED
      BY <2>1
  <1>5. ASSUME NEW c \in Clients, RedisGet(c) PROVE Promise!Next
    <2>1. op[c].key \in Keys
      BY <1>5 DEF RedisGet, Inv, TypeInv, Op, Idle
    <2>2. /\ Live' = Live /\ asked' = asked
          /\ \E a \in Live[op[c].key] \cup {Miss} : Replied' = [Replied EXCEPT ![c] = a]
      BY <1>5, <2>1, StepAnswers DEF RedisGet
    <2>3. asked[c] = op[c].key /\ Replied[c] = NoReply
      BY <1>5 DEF RedisGet, AskedInv, Replied
    <2>4. Promise!Get(c)
      BY <2>1, <2>2, <2>3 DEF Promise!Get
    <2> QED
      BY <2>4
  <1>6. ASSUME NEW c \in Clients, FailGet(c) PROVE Promise!Next
    <2>1. op[c].key \in Keys
      BY <1>6 DEF FailGet, Inv, TypeInv, Op, Idle
    <2>2. /\ Live' = Live /\ asked' = asked
          /\ \E a \in Live[op[c].key] \cup {Miss} : Replied' = [Replied EXCEPT ![c] = a]
      BY <1>6, <2>1, StepAnswers DEF FailGet, FallbackGet
    <2>3. asked[c] = op[c].key /\ Replied[c] = NoReply
      BY <1>6 DEF FailGet, AskedInv, Replied
    <2>4. Promise!Get(c)
      BY <2>1, <2>2, <2>3 DEF Promise!Get
    <2> QED
      BY <2>4
  <1>7. ASSUME NEW c \in Clients, RedisSet(c) PROVE Promise!Next
    <2>1. op[c].key \in Keys /\ op[c].val \in Values
      BY <1>7 DEF RedisSet, Inv, TypeInv, Op, Idle
    <2>2. asked' = asked /\ Replied' = Replied
      BY <1>7 DEF RedisSet, Replied
    <2>3. Promise!Put(op[c].key, op[c].val)
      BY <1>7, <2>1, <2>2, RedisPutLive, StepPuts DEF RedisSet
    <2> QED
      BY <2>1, <2>3
  <1>8. ASSUME NEW c \in Clients, AckSet(c) PROVE UNCHANGED <<Live, asked, Replied>>
    BY <1>8 DEF AckSet, Live, Replied
  <1>9. ASSUME NEW c \in Clients, FailSet(c) PROVE Promise!Next
    <2>1. op[c].key \in Keys /\ op[c].val \in Values
      BY <1>9 DEF FailSet, Inv, TypeInv, Op, Idle
    <2>2. asked' = asked /\ Replied' = Replied
      BY <1>9 DEF FailSet, Replied
    <2>3. Promise!Put(op[c].key, op[c].val)
      BY <1>9, <2>1, <2>2, FallbackPutLive, StepPuts DEF FailSet
    <2> QED
      BY <2>1, <2>3
  <1>10. ASSUME NEW m \in Setex, LateSet(m) PROVE Promise!Next
    <2>1. m.key \in Keys /\ m.val \in Values
      BY DEF Setex
    <2>2. asked' = asked /\ Replied' = Replied
      BY <1>10 DEF LateSet, Replied
    <2>3. Promise!Put(m.key, m.val)
      BY <1>10, <2>1, <2>2, RedisPutLive, StepPuts DEF LateSet
    <2> QED
      BY <2>1, <2>3
  <1>11. ASSUME Tick PROVE Promise!Next
    <2>1. /\ redis' = [k \in Keys |-> AgedRedis(redis[k])]
          /\ fallback' = [k \in Keys |-> AgedFallback(fallback[k])]
          /\ asked' = asked /\ reply' = reply
      BY <1>11 DEF Tick
    <2>2. \A slot \in Slot : /\ ValuesIn(AgedRedis(slot)) \subseteq ValuesIn(slot)
                            /\ ValuesIn(AgedFallback(slot)) \subseteq ValuesIn(slot)
      <3> SUFFICES ASSUME NEW slot \in Slot
                   PROVE  /\ ValuesIn(AgedRedis(slot)) \subseteq ValuesIn(slot)
                          /\ ValuesIn(AgedFallback(slot)) \subseteq ValuesIn(slot)
        OBVIOUS
      <3>1. CASE slot = Absent
        BY <3>1 DEF AgedRedis, AgedFallback, ValuesIn
      <3>2. CASE slot # Absent
        <4>1. RedisLife(slot.val) \in Nat /\ FallbackLife(slot.val) \in Nat
          BY <3>2, LifetimesPositive DEF RedisLife, FallbackLife, Slot, Entry
        <4> QED
          BY <3>2, <4>1, AgedSlot DEF AgedRedis, AgedFallback, ValuesIn
      <3> QED
        BY <3>1, <3>2
    <2>3. \A k \in Keys : /\ redis'[k] = AgedRedis(redis[k])
                          /\ fallback'[k] = AgedFallback(fallback[k])
      BY <2>1
    <2>4. \A k \in Keys : Live'[k] = ValuesIn(redis'[k]) \cup ValuesIn(fallback'[k])
      BY DEF Live, ValuesIn
    <2>5. \A k \in Keys : Live'[k] \subseteq Live[k]
      BY <2>2, <2>3, <2>4, LiveAt DEF Inv, TypeInv
    <2> QED
      BY <2>1, <2>5, StepForgets
  <1>12. ASSUME NEW k \in Keys, RedisLoses(k) PROVE Promise!Next
    <2>1. \A j \in Keys : redis'[j] \in {Absent, redis[j]}
      BY <1>12 DEF RedisLoses, Inv, TypeInv
    <2>2. \A j \in Keys : Live'[j] = ValuesIn(redis'[j]) \cup ValuesIn(fallback[j])
      BY <1>12 DEF Live, ValuesIn, RedisLoses
    <2>3. \A j \in Keys : Live'[j] \subseteq Live[j]
      BY <2>1, <2>2, LiveAt DEF ValuesIn
    <2> QED
      BY <1>12, <2>3, StepForgets DEF RedisLoses
  <1>13. ASSUME Restart PROVE Promise!Next
    <2>1. \A j \in Keys : Live'[j] = ValuesIn(redis[j])
      BY <1>13 DEF Live, ValuesIn, Restart
    <2>2. Live' = [j \in Keys |-> Live'[j]]
      BY DEF Live
    <2>3. Live' \in Promise!Shrunk
      BY <2>1, <2>2, LiveAt, SubsetIsShrunk
    <2>4. /\ asked' = [c \in Clients |-> NoKey]
          /\ Replied' = [c \in Clients |-> NoReply]
      BY <1>13 DEF Restart, Replied
    <2> QED
      BY <2>3, <2>4 DEF Promise!Restart
  <1>14. ASSUME UNCHANGED vars PROVE UNCHANGED <<Live, asked, Replied>>
    BY <1>14 DEF vars, Live, Replied
  <1> QED
    BY <1>1, <1>2, <1>3, <1>4, <1>5, <1>6, <1>7, <1>8, <1>9, <1>10, <1>11, <1>12,
       <1>13, <1>14 DEF Next, Resume

\* Two tiers with different lifetimes, failing calls, lost acknowledgements and
\* restarts are, to every caller, one cache that only forgets, and that answers
\* each lookup from the key the lookup was called with (cache.py:93-223).
THEOREM TiersImplementCache == Spec => KeepsPromise
  BY InitPromise, NextPromise, InvHolds, AskedHolds, PTL DEF Spec, KeepsPromise, Promise!Spec

=============================================================================
