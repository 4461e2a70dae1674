---------------------- MODULE EvidenceRetrievalProofs ----------------------
(***************************************************************************)
(* What EvidenceRetrieval guarantees for any verifications, claims and     *)
(* sources, any numbers of search terms and any size of the pool.          *)
(***************************************************************************)
EXTENDS EvidenceRetrieval, FiniteSetTheorems, SequenceTheorems, TLAPS

-----------------------------------------------------------------------------
(* The inductive invariant.                                                *)

EvidenceIsMap == evidence = [b \in Batches |-> evidence[b]]

\* A task has requests only from its start in a running batch to its end.
RequestsPlaced ==
    \A t \in Tasks :
        /\ ~running[t[1]] => stage[t] = "idle"
        /\ stage[t] \in {"idle", "lookup"} => fetch[t] = <<>>

LookupsMemoised == \A t \in Tasks : stage[t] = "lookup" => Source(t) \in Memoised

\* Only SerpAPI holds terms back: those after one that has not missed.
HeldBackIn(f, s) ==
    \A n \in DOMAIN f : f[n] = "unsent" => s = "serpapi" /\ n > 1 /\ f[n - 1] \notin Misses
HeldBack == \A t \in Tasks : HeldBackIn(fetch[t], Source(t))

\* What CreditsSpared says of one task.
SparedIn(f, s) == s = "serpapi" =>
    \A m, n \in DOMAIN f : (m < n /\ f[n] # "unsent") => f[m] \in Misses

\* A task that asked anybody returned what its requests amount to.
Settled ==
    \A t \in Tasks : (stage[t] = "done" /\ fetch[t] # <<>>) =>
        /\ \A n \in DOMAIN fetch[t] : fetch[t][n] \notin Waiting \cup InFlight
        /\ result[t] = Outcome(t)

\* Results and entries are about the source and the claim they are filed under.
Attributed(x, s, c) == x \in Findings => x.source = s /\ x.claim = c
ResultsAttributed == \A t \in Tasks : Attributed(result[t], Source(t), Claim(t))
MemoAttributed ==
    \A s \in Memoised, c \in Claims : Attributed(memo[MemoKey(s, c)], s, c)

IInv ==
    /\ TypeOK /\ EvidenceIsMap
    /\ RequestsPlaced /\ LookupsMemoised /\ HeldBack /\ CreditsSpared /\ Settled
    /\ ResultsAttributed /\ MemoAttributed
-----------------------------------------------------------------------------
(* Places in a sequence: the k-th exists and they come in order.           *)

LEMMA PlacesFinite ==
    ASSUME NEW m \in Nat, NEW S \in SUBSET (1 .. m)
    PROVE  S \subseteq Nat /\ IsFiniteSet(S) /\ Cardinality(S) \in Nat
  <1>1. IsFiniteSet(1 .. m)
    BY FS_Interval
  <1>2. IsFiniteSet(S)
    BY <1>1, FS_Subset
  <1>3. Cardinality(S) \in Nat
    BY <1>2, FS_CardinalityType
  <1> QED
    BY <1>2, <1>3

\* The number of members before a member is below the size, and grows.
LEMMA PlacesBefore ==
    ASSUME NEW m \in Nat, NEW S \in SUBSET (1 .. m), NEW i \in S
    PROVE  /\ IsFiniteSet(S) /\ Cardinality(S) \in Nat
           /\ Cardinality({j \in S : j < i}) \in 0 .. Cardinality(S) - 1
           /\ \A l \in S : i < l =>
                Cardinality({j \in S : j < i}) < Cardinality({j \in S : j < l})
  <1> DEFINE Before(l) == {j \in S : j < l}
  <1>2. S \subseteq Nat /\ IsFiniteSet(S) /\ Cardinality(S) \in Nat
    BY PlacesFinite
  <1>3. ASSUME NEW T \in SUBSET S, i \in T
        PROVE  Cardinality(Before(i) \cap T) \in Nat /\ Cardinality(T) \in Nat
               /\ Cardinality(Before(i) \cap T) < Cardinality(T)
    <2> DEFINE U == Before(i) \cap T
    <2>1. IsFiniteSet(T) /\ U \in SUBSET T /\ U # T
      <3>1. IsFiniteSet(T)
        BY <1>2, FS_Subset
      <3>2. i \notin U /\ U \subseteq T
        BY <1>2
      <3> QED
        BY <1>3, <3>1, <3>2
    <2> HIDE DEF U, Before
    <2>2. IsFiniteSet(U) /\ Cardinality(U) <= Cardinality(T) /\ Cardinality(U) # Cardinality(T)
      BY <2>1, FS_Subset
    <2>3. Cardinality(U) \in Nat /\ Cardinality(T) \in Nat
      BY <2>1, <2>2, FS_CardinalityType
    <2>4. Cardinality(U) < Cardinality(T)
      BY <2>2, <2>3
    <2> QED
      BY <2>3, <2>4 DEF U
  <1>4. Before(i) \cap S = Before(i)
    OBVIOUS
  <1>5. Cardinality(Before(i)) \in 0 .. Cardinality(S) - 1
    BY <1>2, <1>3, <1>4
  <1>6. ASSUME NEW l \in S, i < l
        PROVE  Cardinality(Before(i)) < Cardinality(Before(l))
    <2>1. \A j \in S : j < i => j < l
      BY <1>2, <1>6
    <2>2. i \in Before(l) /\ Before(l) \subseteq S /\ Before(i) \cap Before(l) = Before(i)
      BY <1>6, <2>1
    <2> QED
      BY <2>2, <1>3
  <1> QED
    BY <1>2, <1>5, <1>6

\* Distinct numbers below the size, as many as the size, are all of them.
LEMMA NthIsThere ==
    ASSUME NEW m \in Nat, NEW S \in SUBSET (1 .. m), NEW k \in 1 .. Cardinality(S)
    PROVE  /\ Nth(S, k) \in S
           /\ Cardinality({j \in S : j < Nth(S, k)}) = k - 1
  <1> DEFINE n == Cardinality(S)
             before == [i \in S |-> Cardinality({j \in S : j < i})]
  <1>1. S \subseteq Nat /\ IsFiniteSet(S) /\ n \in Nat
    BY PlacesFinite
  <1>2. before \in [S -> 0 .. n - 1]
    BY PlacesBefore
  <1>3. ASSUME NEW i \in S, NEW l \in S, before[i] = before[l] PROVE i = l
    <2>1. /\ i < l => before[i] < before[l]
          /\ l < i => before[l] < before[i]
      BY PlacesBefore
    <2> QED
      BY <2>1, <1>1, <1>2, <1>3
  <1>4. before \in Injection(S, 0 .. n - 1)
    BY <1>2, <1>3, Zenon DEF Injection, IsInjective
  <1>5. IsFiniteSet(0 .. n - 1) /\ Cardinality(0 .. n - 1) = n
    <2>1. 0 \in Int /\ n - 1 \in Int /\ (IF 0 > n - 1 THEN 0 ELSE n - 1 - 0 + 1) = n
      BY <1>1
    <2> HIDE DEF n
    <2> QED
      BY <2>1, FS_Interval
  <1> HIDE DEF before
  <1>6. before \in Surjection(S, 0 .. n - 1)
    BY <1>4, <1>5, FS_Injection
  <1>7. PICK i \in S : before[i] = k - 1
    <2>1. k - 1 \in 0 .. n - 1
      BY <1>1
    <2> QED
      BY <2>1, <1>6 DEF Surjection
  <1>8. \E p \in S : Cardinality({j \in S : j < p}) = k - 1
    BY <1>7 DEF before
  <1> QED
    BY <1>8, Zenon DEF Nth

LEMMA NthInOrder ==
    ASSUME NEW m \in Nat, NEW S \in SUBSET (1 .. m),
           NEW k \in 1 .. Cardinality(S), NEW l \in 1 .. Cardinality(S), k < l
    PROVE  Nth(S, k) < Nth(S, l)
  <1>1. /\ Nth(S, k) \in S /\ Cardinality({j \in S : j < Nth(S, k)}) = k - 1
        /\ Nth(S, l) \in S /\ Cardinality({j \in S : j < Nth(S, l)}) = l - 1
    BY NthIsThere
  <1>2. Nth(S, l) < Nth(S, k) => l - 1 < k - 1
    BY <1>1, PlacesBefore
  <1>3. S \subseteq Nat /\ Cardinality(S) \in Nat
    BY PlacesFinite
  <1>4. k - 1 # l - 1 /\ ~(l - 1 < k - 1)
    BY <1>3
  <1>5. Nth(S, k) # Nth(S, l)
    BY <1>1, <1>4
  <1>6. Nth(S, k) \in Nat /\ Nth(S, l) \in Nat
    BY <1>1, <1>3
  <1> QED
    BY <1>2, <1>4, <1>5, <1>6

\* A set of places that is not empty has a first.
LEMMA FirstExists ==
    ASSUME NEW m \in Nat, NEW S \in SUBSET (1 .. m), S # {}
    PROVE  Min(S) \in S /\ \A j \in S : Min(S) <= j
  <1>1. S \subseteq Nat /\ IsFiniteSet(S) /\ Cardinality(S) \in Nat
    BY PlacesFinite
  <1>2. Cardinality(S) # 0
    BY <1>1, FS_EmptySet
  <1>3. 1 \in 1 .. Cardinality(S)
    BY <1>1, <1>2
  <1> DEFINE first == Nth(S, 1)
  <1>4. first \in S /\ Cardinality({j \in S : j < first}) = 0
    BY <1>3, NthIsThere
  <1> HIDE DEF first
  <1>5. {j \in S : j < first} = {}
    BY <1>1, <1>4, FS_EmptySet, FS_Subset
  <1>6. first \in S /\ \A j \in S : first <= j
    BY <1>1, <1>4, <1>5
  <1> QED
    BY <1>6 DEF Min

-----------------------------------------------------------------------------
(* The parts of a task, and what its requests amount to.                   *)

LEMMA TaskParts ==
    ASSUME NEW t \in Tasks
    PROVE  /\ t[1] \in Batches /\ t[2] \in DOMAIN ClaimsOf[t[1]]
           /\ Source(t) \in Sources /\ Claim(t) \in Claims
           /\ Terms[Source(t)][Claim(t)] \in Nat \ {0}
           /\ t = <<t[1], t[2], Source(t)>>
  <1>1. PICK b \in Batches : t \in {b} \X (DOMAIN ClaimsOf[b]) \X Sources
    BY DEF Tasks
  <1>2. t[1] \in Batches /\ t[2] \in DOMAIN ClaimsOf[t[1]] /\ t[3] \in Sources
        /\ t = <<t[1], t[2], t[3]>>
    BY <1>1
  <1>3. ClaimsOf[t[1]] \in Seq(Claims)
    BY <1>2, RetrievalAssumption
  <1>4. Claim(t) \in Claims
    BY <1>2, <1>3 DEF Claim
  <1> QED
    BY <1>2, <1>4, RetrievalAssumption DEF Source

LEMMA TaskAt ==
    ASSUME NEW b \in Batches, NEW i \in DOMAIN ClaimsOf[b], NEW s \in Sources
    PROVE  /\ <<b, i, s>> \in Tasks
           /\ Source(<<b, i, s>>) = s /\ Claim(<<b, i, s>>) = ClaimsOf[b][i]
  BY DEF Tasks, Source, Claim

LEMMA OutcomeIs ==
    ASSUME NEW t \in Tasks, fetch[t] \in Seq(Requests)
    PROVE  /\ Hits(t) = {} => Outcome(t) = Miss
           /\ Hits(t) # {} =>
                /\ Outcome(t) \in Findings
                /\ Outcome(t).term \in Hits(t)
                /\ \A n \in Hits(t) : Outcome(t).term <= n
           /\ Outcome(t) \in Findings \cup {Miss}
           /\ Attributed(Outcome(t), Source(t), Claim(t))
  <1>1. CASE Hits(t) = {}
    BY <1>1, MarkersAreNotFindings DEF Outcome, Attributed
  <1>2. CASE Hits(t) # {}
    <2>1. Len(fetch[t]) \in Nat /\ DOMAIN fetch[t] = 1 .. Len(fetch[t])
      OBVIOUS
    <2>2. Hits(t) \in SUBSET (1 .. Len(fetch[t]))
      BY <2>1 DEF Hits
    <2>3. Min(Hits(t)) \in Hits(t) /\ \A n \in Hits(t) : Min(Hits(t)) <= n
      BY <1>2, <2>1, <2>2, FirstExists
    <2>4. Min(Hits(t)) \in Nat
      BY <2>1, <2>2, <2>3
    <2>5. Outcome(t) = Finding(t, Min(Hits(t)))
      BY <1>2 DEF Outcome
    <2>6. /\ Finding(t, Min(Hits(t))) \in Findings
          /\ Finding(t, Min(Hits(t))).term = Min(Hits(t))
          /\ Finding(t, Min(Hits(t))).source = Source(t)
          /\ Finding(t, Min(Hits(t))).claim = Claim(t)
      BY <2>4, TaskParts DEF Finding, Findings
    <2> QED
      BY <1>2, <2>3, <2>5, <2>6 DEF Attributed
  <1> QED
    BY <1>1, <1>2

\* An outcome is a function of the requests.
LEMMA OutcomeKept ==
    ASSUME NEW t, fetch'[t] = fetch[t]
    PROVE  Outcome(t)' = Outcome(t)
  BY DEF Outcome, Hits, Finding

LEMMA NextTermShape ==
    ASSUME NEW f \in Seq(Requests), NEW n \in DOMAIN f, NEW how \in Misses
    PROVE  /\ NextTerm(f, n, how) \in Seq(Requests)
           /\ DOMAIN NextTerm(f, n, how) = DOMAIN f
           /\ NextTerm(f, n, how)[n] = how
           /\ \A m \in DOMAIN f : m # n =>
                NextTerm(f, n, how)[m] =
                    IF m = n + 1 /\ f[m] = "unsent" THEN "queued" ELSE f[m]
  <1> DEFINE g == NextTerm(f, n, how)
  <1>1. Len(f) \in Nat /\ DOMAIN f = 1 .. Len(f) /\ \A m \in DOMAIN f : f[m] \in Requests
    OBVIOUS
  <1>2. /\ DOMAIN g = DOMAIN f
        /\ g = [m \in 1 .. Len(f) |-> g[m]]
        /\ \A m \in DOMAIN f : g[m] = IF m = n THEN how
              ELSE IF m = n + 1 /\ f[m] = "unsent" THEN "queued" ELSE f[m]
    BY <1>1 DEF NextTerm
  <1> HIDE DEF g
  <1>3. \A m \in DOMAIN f : g[m] \in Requests
    BY <1>1, <1>2 DEF Requests, Waiting, Misses
  <1>4. g \in Seq(Requests)
    BY <1>1, <1>2, <1>3, IsASeq
  <1> QED
    BY <1>2, <1>4 DEF g

LEMMA FirstRequestsShape ==
    ASSUME NEW t \in Tasks
    PROVE  /\ FirstRequests(t) \in Seq(Requests)
           /\ DOMAIN FirstRequests(t) = 1 .. Terms[Source(t)][Claim(t)]
           /\ FirstRequests(t) # <<>>
           /\ \A n \in DOMAIN FirstRequests(t) :
                FirstRequests(t)[n] =
                    IF Source(t) # "serpapi" \/ n = 1 THEN "queued" ELSE "unsent"
  <1> DEFINE m == Terms[Source(t)][Claim(t)]
  <1>1. m \in Nat \ {0}
    BY TaskParts
  <1>2. Source(t) \notin Memoised => m = 1
    BY TaskParts, RetrievalAssumption
  <1>3. FirstRequests(t) = [n \in 1 .. m |->
            IF Source(t) = "wikipedia" \/ n = 1 THEN "queued" ELSE "unsent"]
    BY DEF FirstRequests
  <1> HIDE DEF m
  <1>4. FirstRequests(t) \in Seq(Requests) /\ DOMAIN FirstRequests(t) = 1 .. m
    BY <1>1, <1>3 DEF Requests, Waiting
  <1>5. 1 \in DOMAIN FirstRequests(t)
    BY <1>1, <1>4
  <1>6. ASSUME NEW n \in DOMAIN FirstRequests(t), Source(t) \notin Memoised
        PROVE  n = 1
    BY <1>2, <1>4, <1>6
  <1>7. \A n \in DOMAIN FirstRequests(t) :
            FirstRequests(t)[n] =
                IF Source(t) # "serpapi" \/ n = 1 THEN "queued" ELSE "unsent"
    BY <1>3, <1>4, <1>6 DEF Memoised
  <1>8. FirstRequests(t) # <<>>
    BY <1>5
  <1> QED
    BY <1>4, <1>7, <1>8 DEF m

-----------------------------------------------------------------------------
(* A request moves on, in one of two ways.                                 *)

MovesTo(f, n, g) ==
    \/ \E a \in Requests \ (Misses \cup {"unsent"}) : g = [f EXCEPT ![n] = a]
    \/ \E how \in Misses : g = NextTerm(f, n, how)

LEMMA MoveKeepsOrder ==
    ASSUME NEW f \in Seq(Requests), NEW n \in DOMAIN f, NEW g, NEW s,
           f[n] \in Waiting \cup InFlight, MovesTo(f, n, g),
           HeldBackIn(f, s), SparedIn(f, s)
    PROVE  /\ g \in Seq(Requests) /\ DOMAIN g = DOMAIN f
           /\ HeldBackIn(g, s) /\ SparedIn(g, s)
  <1>1. /\ Len(f) \in Nat /\ DOMAIN f = 1 .. Len(f)
        /\ \A k \in DOMAIN f : f[k] \in Requests
        /\ f[n] # "unsent" /\ f[n] \notin Misses
    <2>1. f[n] # "unsent" /\ f[n] \notin Misses
      BY DEF Waiting, InFlight, Misses
    <2> QED
      BY <2>1
  <1>2. ASSUME NEW a \in Requests \ (Misses \cup {"unsent"}), g = [f EXCEPT ![n] = a]
        PROVE  /\ g \in Seq(Requests) /\ DOMAIN g = DOMAIN f
               /\ HeldBackIn(g, s) /\ SparedIn(g, s)
    <2>1. g \in Seq(Requests) /\ DOMAIN g = DOMAIN f
      BY <1>2
    <2>2. \A k \in DOMAIN f : g[k] = IF k = n THEN a ELSE f[k]
      BY <1>2
    <2>3. HeldBackIn(g, s)
      BY <1>1, <1>2, <2>1, <2>2 DEF HeldBackIn
    <2>4. SparedIn(g, s)
      BY <1>1, <1>2, <2>1, <2>2 DEF SparedIn
    <2> QED
      BY <2>1, <2>3, <2>4
  <1>3. ASSUME NEW how \in Misses, g = NextTerm(f, n, how)
        PROVE  /\ g \in Seq(Requests) /\ DOMAIN g = DOMAIN f
               /\ HeldBackIn(g, s) /\ SparedIn(g, s)
    <2>1. /\ g \in Seq(Requests) /\ DOMAIN g = DOMAIN f /\ g[n] \in Misses
          /\ \A k \in DOMAIN f : k # n =>
               g[k] = IF k = n + 1 /\ f[k] = "unsent" THEN "queued" ELSE f[k]
      BY <1>3, NextTermShape
    <2>2. HeldBackIn(g, s)
      <3> SUFFICES ASSUME NEW k \in DOMAIN g, g[k] = "unsent"
                   PROVE  s = "serpapi" /\ k > 1 /\ g[k - 1] \notin Misses
        BY DEF HeldBackIn
      <3>1. k # n /\ k # n + 1 /\ f[k] = "unsent"
        BY <1>1, <2>1 DEF Misses
      <3>2. s = "serpapi" /\ k > 1 /\ f[k - 1] \notin Misses
        BY <2>1, <3>1 DEF HeldBackIn
      <3>3. k - 1 \in DOMAIN f /\ k - 1 # n
        BY <1>1, <2>1, <3>1, <3>2
      <3>4. g[k - 1] \notin Misses
        BY <2>1, <3>2, <3>3 DEF Misses
      <3> QED
        BY <3>2, <3>4
    <2>3. SparedIn(g, s)
      <3> SUFFICES ASSUME s = "serpapi", NEW k \in DOMAIN g, NEW l \in DOMAIN g,
                          k < l, g[l] # "unsent"
                   PROVE  g[k] \in Misses
        BY DEF SparedIn
      <3>1. \A j \in DOMAIN f : j < n => f[j] \in Misses
        BY <1>1 DEF SparedIn
      <3>2. CASE l <= n
        <4>1. k < n /\ f[k] \in Misses
          BY <1>1, <2>1, <3>1, <3>2
        <4> QED
          BY <1>1, <2>1, <4>1
      <3>3. CASE l = n + 1
        <4>1. k = n \/ (k < n /\ f[k] \in Misses)
          BY <1>1, <2>1, <3>1, <3>3
        <4> QED
          BY <1>1, <2>1, <4>1
      <3>4. CASE l > n + 1
        <4>1. f[l] # "unsent"
          BY <1>1, <2>1, <3>4
        <4>2. f[n] \in Misses
          BY <1>1, <2>1, <3>4, <4>1 DEF SparedIn
        <4> QED
          BY <1>1, <4>2
      <3> QED
        BY <1>1, <2>1, <3>2, <3>3, <3>4
    <2> QED
      BY <2>1, <2>2, <2>3
  <1> QED
    BY <1>2, <1>3 DEF MovesTo

LEMMA RequestStep ==
    ASSUME IInv, NEW t \in Tasks, NEW n \in DOMAIN fetch[t], NEW g,
           fetch[t][n] \in Waiting \cup InFlight, MovesTo(fetch[t], n, g),
           fetch' = [fetch EXCEPT ![t] = g],
           UNCHANGED <<running, stage, result, memo, evidence>>
    PROVE  IInv'
  <1>1. fetch[t] \in Seq(Requests) /\ stage[t] \in Stages /\ fetch[t] # <<>>
    BY DEF IInv, TypeOK
  <1>2. stage[t] = "fetch"
    BY <1>1 DEF IInv, RequestsPlaced, Settled, Stages
  <1>3. HeldBackIn(fetch[t], Source(t)) /\ SparedIn(fetch[t], Source(t))
    BY DEF IInv, HeldBack, CreditsSpared, SparedIn
  <1>4. /\ g \in Seq(Requests) /\ DOMAIN g = DOMAIN fetch[t]
        /\ HeldBackIn(g, Source(t)) /\ SparedIn(g, Source(t))
    BY <1>1, <1>3, MoveKeepsOrder
  <1>5. fetch' \in [Tasks -> Seq(Requests)]
        /\ \A u \in Tasks : fetch'[u] = IF u = t THEN g ELSE fetch[u]
    BY <1>4 DEF IInv, TypeOK
  <1>6. TypeOK' /\ EvidenceIsMap'
    BY <1>5 DEF IInv, TypeOK, EvidenceIsMap
  <1>7. RequestsPlaced' /\ LookupsMemoised'
    BY <1>2, <1>5 DEF IInv, RequestsPlaced, LookupsMemoised, Source
  <1>8. HeldBack'
    BY <1>4, <1>5 DEF IInv, HeldBack, HeldBackIn, Source
  <1>9. CreditsSpared'
    BY <1>4, <1>5 DEF IInv, CreditsSpared, SparedIn, Source
  <1>10. Settled'
    <2> SUFFICES ASSUME NEW u \in Tasks, stage[u] = "done", fetch'[u] # <<>>
                 PROVE  /\ \A k \in DOMAIN fetch'[u] : fetch'[u][k] \notin Waiting \cup InFlight
                        /\ result[u] = Outcome(u)'
      BY DEF Settled
    <2>1. u # t /\ fetch'[u] = fetch[u]
      BY <1>2, <1>5
    <2>2. Outcome(u)' = Outcome(u)
      BY <2>1, OutcomeKept
    <2> QED
      BY <2>1, <2>2 DEF IInv, Settled
  <1>11. ResultsAttributed' /\ MemoAttributed'
    BY DEF IInv, ResultsAttributed, MemoAttributed, Attributed, Source, Claim
  <1> QED
    BY <1>6, <1>7, <1>8, <1>9, <1>10, <1>11 DEF IInv

-----------------------------------------------------------------------------
(* The steps of a batch and of a task.                                     *)

LEMMA InitIInv == Init => IInv
  <1> SUFFICES ASSUME Init PROVE IInv
    OBVIOUS
  <1> USE DEF Init
  <1>1. TypeOK /\ EvidenceIsMap
    BY DEF TypeOK, EvidenceIsMap, Stages
  <1>2. RequestsPlaced /\ LookupsMemoised /\ HeldBack /\ CreditsSpared /\ Settled
    BY DEF RequestsPlaced, LookupsMemoised, HeldBack, HeldBackIn, CreditsSpared, Settled
  <1>3. ResultsAttributed
    BY MarkersAreNotFindings DEF ResultsAttributed, Attributed
  <1>4. MemoAttributed
    BY MarkersAreNotFindings DEF MemoAttributed, Attributed, MemoKeys, MemoKey
  <1> QED
    BY <1>1, <1>2, <1>3, <1>4 DEF IInv

LEMMA CallKeeps ==
    ASSUME IInv, NEW b \in Batches, Call(b) PROVE IInv'
  <1> DEFINE fresh(t) == t \in TasksOf(b) /\ FirstStage(Source(t)) = "fetch"
  <1>1. /\ \A t \in Tasks : stage'[t] =
             IF t \in TasksOf(b) THEN FirstStage(Source(t)) ELSE stage[t]
        /\ \A t \in Tasks : fetch'[t] = IF fresh(t) THEN FirstRequests(t) ELSE fetch[t]
    BY DEF Call
  <1>2. \A t \in TasksOf(b) : stage[t] = "idle" /\ fetch[t] = <<>>
    BY DEF Call, TasksOf, IInv, RequestsPlaced
  <1>3. \A s : FirstStage(s) \in {"done", "lookup", "fetch"}
    BY DEF FirstStage
  <1>4. TypeOK'
    <2>1. running' \in [Batches -> BOOLEAN]
      BY DEF Call, IInv, TypeOK
    <2>2. stage' \in [Tasks -> Stages]
      BY <1>3 DEF Call, IInv, TypeOK, Stages
    <2>3. fetch' \in [Tasks -> Seq(Requests)]
      BY FirstRequestsShape DEF Call, IInv, TypeOK
    <2>4. \A a \in Batches : \A s \in DOMAIN evidence'[a] :
            s \in Sources /\ evidence'[a][s] \in Seq(Findings)
      <3> SUFFICES ASSUME NEW a \in Batches, NEW s \in DOMAIN evidence'[a]
                   PROVE  s \in Sources /\ evidence'[a][s] \in Seq(Findings)
        OBVIOUS
      <3>1. a # b /\ evidence'[a] = evidence[a]
        BY DEF Call, IInv, EvidenceIsMap
      <3> QED
        BY <3>1 DEF IInv, TypeOK
    <2> QED
      BY <2>1, <2>2, <2>3, <2>4 DEF Call, IInv, TypeOK
  <1>5. EvidenceIsMap'
    BY DEF Call, IInv, EvidenceIsMap
  <1>6. RequestsPlaced'
    <2> SUFFICES ASSUME NEW t \in Tasks
                 PROVE  /\ ~running'[t[1]] => stage'[t] = "idle"
                        /\ stage'[t] \in {"idle", "lookup"} => fetch'[t] = <<>>
      BY DEF RequestsPlaced
    <2>1. CASE t \in TasksOf(b)
      BY <1>1, <1>2, <1>3, <2>1 DEF Call, TasksOf, IInv, TypeOK
    <2>2. CASE t \notin TasksOf(b)
      BY <1>1, <2>2, TaskParts DEF Call, TasksOf, IInv, TypeOK, RequestsPlaced
    <2> QED
      BY <2>1, <2>2
  <1>7. \A t \in Tasks : HeldBackIn(fetch'[t], Source(t)) /\ SparedIn(fetch'[t], Source(t))
    <2> SUFFICES ASSUME NEW t \in Tasks
                 PROVE  HeldBackIn(fetch'[t], Source(t)) /\ SparedIn(fetch'[t], Source(t))
      OBVIOUS
    <2>1. CASE fresh(t)
      <3> DEFINE f == FirstRequests(t)
                 m == Terms[Source(t)][Claim(t)]
      <3>1. /\ m \in Nat \ {0} /\ DOMAIN f = 1 .. m
            /\ \A n \in DOMAIN f :
                 f[n] = IF Source(t) # "serpapi" \/ n = 1 THEN "queued" ELSE "unsent"
        BY FirstRequestsShape, TaskParts
      <3> HIDE DEF f, m
      <3>2. HeldBackIn(f, Source(t))
        BY <3>1 DEF HeldBackIn, Misses
      <3>3. SparedIn(f, Source(t))
        BY <3>1 DEF SparedIn
      <3>4. fetch'[t] = f
        BY <1>1, <2>1 DEF f
      <3> QED
        BY <3>2, <3>3, <3>4
    <2>2. CASE ~fresh(t)
      BY <1>1, <2>2 DEF IInv, HeldBack, CreditsSpared, SparedIn
    <2> QED
      BY <2>1, <2>2
  <1>8. HeldBack' /\ CreditsSpared'
    BY <1>7 DEF HeldBack, CreditsSpared, SparedIn, Source
  <1>9. Settled'
    <2> SUFFICES ASSUME NEW t \in Tasks, stage'[t] = "done", fetch'[t] # <<>>
                 PROVE  /\ \A k \in DOMAIN fetch'[t] : fetch'[t][k] \notin Waiting \cup InFlight
                        /\ result'[t] = Outcome(t)'
      BY DEF Settled
    <2>1. t \notin TasksOf(b)
      BY <1>1, <1>2
    <2>2. stage[t] = "done" /\ fetch'[t] = fetch[t] /\ result' = result
      BY <1>1, <2>1 DEF Call
    <2>3. Outcome(t)' = Outcome(t)
      BY <2>2, OutcomeKept
    <2> QED
      BY <2>2, <2>3 DEF IInv, Settled
  <1>10. ResultsAttributed' /\ MemoAttributed'
    BY DEF Call, IInv, ResultsAttributed, MemoAttributed, Attributed, Source, Claim
  <1>11. LookupsMemoised'
    BY <1>1 DEF FirstStage, IInv, LookupsMemoised, Source
  <1> QED
    BY <1>4, <1>5, <1>6, <1>8, <1>9, <1>10, <1>11 DEF IInv

\* The part of Settled about the tasks a step leaves alone.
LEMMA SettledKept ==
    ASSUME IInv, NEW u \in Tasks, stage'[u] = "done", fetch'[u] # <<>>,
           stage[u] = "done", fetch'[u] = fetch[u], result'[u] = result[u]
    PROVE  /\ \A k \in DOMAIN fetch'[u] : fetch'[u][k] \notin Waiting \cup InFlight
           /\ result'[u] = Outcome(u)'
  <1>1. Outcome(u)' = Outcome(u)
    BY OutcomeKept
  <1> QED
    BY <1>1 DEF IInv, Settled

LEMMA LookupHitKeeps ==
    ASSUME IInv, NEW t \in Tasks, LookupHit(t) PROVE IInv'
  <1> DEFINE entry == memo[MemoKey(Source(t), Claim(t))]
  <1>1. fetch[t] = <<>>
    BY DEF LookupHit, IInv, RequestsPlaced
  <1>2. /\ \A u \in Tasks : stage'[u] = IF u = t THEN "done" ELSE stage[u]
        /\ \A u \in Tasks : result'[u] = IF u = t THEN entry ELSE result[u]
        /\ fetch' = fetch /\ running' = running /\ memo' = memo /\ evidence' = evidence
    BY DEF LookupHit, IInv, TypeOK
  <1>3. running[t[1]]
    BY DEF LookupHit, IInv, RequestsPlaced
  <1>4. ASSUME Source(t) \in Memoised
        PROVE  entry \in Findings \cup {Miss} /\ Attributed(entry, Source(t), Claim(t))
    BY <1>4, TaskParts DEF LookupHit, IInv, TypeOK, MemoKeys, MemoAttributed
  <1>5. Source(t) \in Memoised
    BY DEF LookupHit, IInv, LookupsMemoised
  <1>6. TypeOK' /\ EvidenceIsMap'
    <2>1. stage' \in [Tasks -> Stages] /\ result' \in [Tasks -> Findings \cup {Miss}]
      BY <1>4, <1>5 DEF LookupHit, IInv, TypeOK, Stages
    <2> QED
      BY <1>2, <2>1 DEF IInv, TypeOK, EvidenceIsMap
  <1>7. RequestsPlaced'
    BY <1>2, <1>3 DEF IInv, RequestsPlaced
  <1>8. HeldBack' /\ CreditsSpared' /\ MemoAttributed'
    BY <1>2 DEF IInv, HeldBack, HeldBackIn, CreditsSpared, MemoAttributed, Attributed, Source
  <1>9. Settled'
    BY <1>1, <1>2, SettledKept DEF Settled
  <1>10. ResultsAttributed'
    BY <1>2, <1>4, <1>5 DEF IInv, ResultsAttributed, Attributed, Source, Claim
  <1>11. LookupsMemoised'
    BY <1>2 DEF IInv, LookupsMemoised, Source
  <1> QED
    BY <1>6, <1>7, <1>8, <1>9, <1>10, <1>11 DEF IInv

LEMMA LookupMissKeeps ==
    ASSUME IInv, NEW t \in Tasks, LookupMiss(t) PROVE IInv'
  <1> DEFINE f == FirstRequests(t)
             m == Terms[Source(t)][Claim(t)]
  <1>1. /\ f \in Seq(Requests) /\ m \in Nat \ {0} /\ DOMAIN f = 1 .. m
        /\ \A n \in DOMAIN f :
             f[n] = IF Source(t) # "serpapi" \/ n = 1 THEN "queued" ELSE "unsent"
    BY FirstRequestsShape, TaskParts
  <1>2. /\ \A u \in Tasks : stage'[u] = IF u = t THEN "fetch" ELSE stage[u]
        /\ \A u \in Tasks : fetch'[u] = IF u = t THEN f ELSE fetch[u]
        /\ result' = result /\ running' = running /\ memo' = memo /\ evidence' = evidence
    BY DEF LookupMiss, IInv, TypeOK
  <1>3. running[t[1]]
    BY DEF LookupMiss, IInv, RequestsPlaced
  <1>4. TypeOK' /\ EvidenceIsMap'
    <2>1. stage' \in [Tasks -> Stages] /\ fetch' \in [Tasks -> Seq(Requests)]
      BY <1>1 DEF LookupMiss, IInv, TypeOK, Stages
    <2> QED
      BY <1>2, <2>1 DEF IInv, TypeOK, EvidenceIsMap
  <1>5. RequestsPlaced'
    BY <1>2, <1>3 DEF IInv, RequestsPlaced
  <1> HIDE DEF f, m
  <1>6. HeldBackIn(f, Source(t)) /\ SparedIn(f, Source(t))
    <2>1. HeldBackIn(f, Source(t))
      BY <1>1 DEF HeldBackIn, Misses
    <2>2. SparedIn(f, Source(t))
      BY <1>1 DEF SparedIn
    <2> QED
      BY <2>1, <2>2
  <1>7. HeldBack' /\ CreditsSpared'
    <2>1. HeldBack'
      BY <1>2, <1>6 DEF IInv, HeldBack, HeldBackIn, Source
    <2>2. CreditsSpared'
      BY <1>2, <1>6 DEF IInv, CreditsSpared, SparedIn, Source
    <2> QED
      BY <2>1, <2>2
  <1>8. Settled'
    BY <1>2, SettledKept DEF Settled
  <1>9. ResultsAttributed' /\ MemoAttributed' /\ LookupsMemoised'
    BY <1>2 DEF IInv, ResultsAttributed, MemoAttributed, LookupsMemoised, Attributed,
       Source, Claim
  <1> QED
    BY <1>4, <1>5, <1>7, <1>8, <1>9 DEF IInv

LEMMA FinishKeeps ==
    ASSUME IInv, NEW t \in Tasks, Finish(t) PROVE IInv'
  <1> DEFINE out == Outcome(t)
  <1>1. /\ out \in Findings \cup {Miss} /\ Attributed(out, Source(t), Claim(t))
    BY OutcomeIs DEF IInv, TypeOK
  <1>2. /\ \A u \in Tasks : stage'[u] = IF u = t THEN "done" ELSE stage[u]
        /\ \A u \in Tasks : result'[u] = IF u = t THEN out ELSE result[u]
        /\ fetch' = fetch /\ running' = running /\ evidence' = evidence
        /\ \/ /\ Source(t) \in Memoised
              /\ memo' = [memo EXCEPT ![MemoKey(Source(t), Claim(t))] = out]
           \/ memo' = memo
    BY DEF Finish, IInv, TypeOK
  <1>3. running[t[1]]
    BY DEF Finish, IInv, RequestsPlaced
  <1> HIDE DEF out
  <1>4. TypeOK' /\ EvidenceIsMap'
    <2>1. stage' \in [Tasks -> Stages] /\ result' \in [Tasks -> Findings \cup {Miss}]
      BY <1>1 DEF Finish, IInv, TypeOK, Stages, out
    <2>2. memo' \in [MemoKeys -> Findings \cup {Miss, Unknown}]
      BY <1>1, <1>2 DEF IInv, TypeOK
    <2> QED
      BY <1>2, <2>1, <2>2 DEF IInv, TypeOK, EvidenceIsMap
  <1>5. RequestsPlaced'
    BY <1>2, <1>3 DEF IInv, RequestsPlaced
  <1>6. HeldBack' /\ CreditsSpared' /\ LookupsMemoised'
    BY <1>2 DEF IInv, HeldBack, HeldBackIn, CreditsSpared, LookupsMemoised, Source
  <1>7. Settled'
    <2> SUFFICES ASSUME NEW u \in Tasks, stage'[u] = "done", fetch'[u] # <<>>
                 PROVE  /\ \A k \in DOMAIN fetch'[u] : fetch'[u][k] \notin Waiting \cup InFlight
                        /\ result'[u] = Outcome(u)'
      BY DEF Settled
    <2>1. CASE u = t
      <3>1. Outcome(t)' = out
        BY <1>2, OutcomeKept DEF out
      <3> QED
        BY <1>2, <2>1, <3>1 DEF Finish
    <2>2. CASE u # t
      BY <1>2, <2>2, SettledKept
    <2> QED
      BY <2>1, <2>2
  <1>8. ResultsAttributed'
    BY <1>1, <1>2 DEF IInv, ResultsAttributed, Attributed, Source, Claim
  <1>9. MemoAttributed'
    <2> SUFFICES ASSUME NEW s \in Memoised, NEW c \in Claims
                 PROVE  Attributed(memo'[MemoKey(s, c)], s, c)
      BY DEF MemoAttributed, Attributed, MemoKey
    <2>1. MemoKey(s, c) \in MemoKeys
      BY DEF MemoKeys
    <2>2. \/ memo'[MemoKey(s, c)] = memo[MemoKey(s, c)]
          \/ memo'[MemoKey(s, c)] = out /\ s = Source(t) /\ c = Claim(t)
      BY <1>2, <2>1 DEF IInv, TypeOK, MemoKey
    <2> QED
      BY <1>1, <2>2 DEF IInv, MemoAttributed
  <1> QED
    BY <1>4, <1>5, <1>6, <1>7, <1>8, <1>9 DEF IInv

-----------------------------------------------------------------------------
(* What a batch returns.                                                   *)

LEMMA PiecesAttributed ==
    ASSUME IInv, NEW b \in Batches, NEW s \in Sources
    PROVE  Pieces(b, s) \in Seq(Findings) /\ Promise!Supports(Pieces(b, s), b, s)
  <1> DEFINE S == Given(b, s)
             m == Len(ClaimsOf[b])
             n == Cardinality(S)
             nth == [k \in 1 .. n |-> Nth(S, k)]
             pieces == Pieces(b, s)
  <1>1. ClaimsOf[b] \in Seq(Claims) /\ m \in Nat /\ DOMAIN ClaimsOf[b] = 1 .. m
    BY RetrievalAssumption
  <1>2. S \in SUBSET (1 .. m)
    BY <1>1 DEF Given
  <1>3. n \in Nat
    BY <1>1, <1>2, PlacesFinite
  <1>4. ASSUME NEW i \in S
        PROVE  /\ result[<<b, i, s>>] \in Findings /\ result[<<b, i, s>>].text
               /\ result[<<b, i, s>>].source = s
               /\ result[<<b, i, s>>].claim = ClaimsOf[b][i]
    <2>1. i \in DOMAIN ClaimsOf[b] /\ HasText(result[<<b, i, s>>])
      BY DEF Given
    <2>2. <<b, i, s>> \in Tasks
          /\ Source(<<b, i, s>>) = s /\ Claim(<<b, i, s>>) = ClaimsOf[b][i]
      BY <2>1, TaskAt
    <2>3. result[<<b, i, s>>] \in Findings /\ result[<<b, i, s>>].text
      BY <2>1, <2>2 DEF HasText, IInv, TypeOK
    <2> QED
      BY <2>2, <2>3 DEF IInv, ResultsAttributed, Attributed
  <1>5. \A k \in 1 .. n : nth[k] \in S
    BY <1>1, <1>2, NthIsThere
  <1>6. \A k, l \in 1 .. n : k < l => nth[k] < nth[l]
    BY <1>1, <1>2, NthInOrder
  <1>7. pieces = [k \in 1 .. n |-> result[<<b, nth[k], s>>]]
    BY DEF Pieces
  <1> HIDE DEF S, m, n, nth, pieces
  <1>8. pieces \in Seq(Findings) /\ DOMAIN pieces = 1 .. n
    BY <1>3, <1>4, <1>5, <1>7
  <1>9. \A k \in 1 .. n : /\ pieces[k].source = s /\ pieces[k].text
                          /\ pieces[k].claim = ClaimsOf[b][nth[k]]
    BY <1>4, <1>5, <1>7
  <1>10. nth \in [DOMAIN pieces -> DOMAIN ClaimsOf[b]]
    BY <1>1, <1>2, <1>5, <1>8 DEF nth
  <1>11. Promise!Supports(pieces, b, s)
    BY <1>6, <1>8, <1>9, <1>10 DEF Promise!Supports
  <1> QED
    BY <1>8, <1>11 DEF pieces

LEMMA GatherKeeps ==
    ASSUME IInv, NEW b \in Batches, Gather(b) PROVE IInv'
  <1>1. /\ \A t \in Tasks : stage'[t] = IF t \in TasksOf(b) THEN "idle" ELSE stage[t]
        /\ \A t \in Tasks : fetch'[t] = IF t \in TasksOf(b) THEN <<>> ELSE fetch[t]
        /\ \A t \in Tasks : result'[t] = IF t \in TasksOf(b) THEN Miss ELSE result[t]
        /\ memo' = memo
    BY DEF Gather
  <1>2. TypeOK'
    <2>1. stage' \in [Tasks -> Stages] /\ fetch' \in [Tasks -> Seq(Requests)]
          /\ result' \in [Tasks -> Findings \cup {Miss}]
      BY DEF Gather, IInv, TypeOK, Stages
    <2>2. running' \in [Batches -> BOOLEAN]
      BY DEF Gather, IInv, TypeOK
    <2>3. \A a \in Batches : \A s \in DOMAIN evidence'[a] :
            s \in Sources /\ evidence'[a][s] \in Seq(Findings)
      <3> SUFFICES ASSUME NEW a \in Batches, NEW s \in DOMAIN evidence'[a]
                   PROVE  s \in Sources /\ evidence'[a][s] \in Seq(Findings)
        OBVIOUS
      <3>1. CASE a # b
        BY <3>1 DEF Gather, IInv, TypeOK, EvidenceIsMap
      <3>2. CASE a = b
        <4>1. evidence'[b] = [x \in {x \in Sources : Pieces(b, x) # <<>>} |-> Pieces(b, x)]
          BY DEF Gather, Answer, IInv, EvidenceIsMap
        <4>2. s \in Sources /\ evidence'[b][s] = Pieces(b, s)
          BY <3>2, <4>1
        <4> QED
          BY <3>2, <4>2, PiecesAttributed
      <3> QED
        BY <3>1, <3>2
    <2> QED
      BY <1>1, <2>1, <2>2, <2>3 DEF IInv, TypeOK
  <1>3. EvidenceIsMap'
    BY DEF Gather, Answer, IInv, EvidenceIsMap
  <1>4. RequestsPlaced'
    BY <1>1 DEF Gather, TasksOf, IInv, TypeOK, RequestsPlaced
  <1>5. LookupsMemoised' /\ HeldBack' /\ CreditsSpared'
    BY <1>1 DEF IInv, LookupsMemoised, HeldBack, HeldBackIn, CreditsSpared, Source
  <1>6. Settled'
    BY <1>1, SettledKept DEF Settled
  <1>7. ResultsAttributed' /\ MemoAttributed'
    BY <1>1, MarkersAreNotFindings
       DEF IInv, ResultsAttributed, MemoAttributed, Attributed, Source, Claim
  <1> QED
    BY <1>2, <1>3, <1>4, <1>5, <1>6, <1>7 DEF IInv

LEMMA ExpireKeeps ==
    ASSUME IInv, NEW k \in MemoKeys, Expire(k) PROVE IInv'
  <1>1. TypeOK' /\ EvidenceIsMap'
    BY DEF Expire, tasks, IInv, TypeOK, EvidenceIsMap
  <1>2. RequestsPlaced' /\ LookupsMemoised' /\ HeldBack' /\ CreditsSpared'
    BY DEF Expire, tasks, IInv, RequestsPlaced, LookupsMemoised, HeldBack, HeldBackIn,
       CreditsSpared, Source
  <1>3. Settled'
    BY SettledKept DEF Expire, tasks, Settled
  <1>4. ResultsAttributed'
    BY DEF Expire, tasks, IInv, ResultsAttributed, Attributed, Source, Claim
  <1>5. MemoAttributed'
    BY MarkersAreNotFindings DEF Expire, IInv, TypeOK, MemoAttributed, Attributed, MemoKey, MemoKeys
  <1> QED
    BY <1>1, <1>2, <1>3, <1>4, <1>5 DEF IInv

LEMMA NextIInv == IInv /\ [Next]_vars => IInv'
  <1> SUFFICES ASSUME IInv, [Next]_vars PROVE IInv'
    OBVIOUS
  <1>1. ASSUME NEW b \in Batches, Call(b) \/ Gather(b) PROVE IInv'
    BY <1>1, CallKeeps, GatherKeeps
  <1>2. ASSUME NEW t \in Tasks, LookupHit(t) \/ LookupMiss(t) \/ Finish(t) PROVE IInv'
    BY <1>2, LookupHitKeeps, LookupMissKeeps, FinishKeeps
  <1>3. ASSUME NEW t \in Tasks, NEW n \in DOMAIN fetch[t],
               Send(t, n) \/ PoolTimeout(t, n) \/ Answered(t, n) \/ Empty(t, n)
               \/ Failed(t, n)
        PROVE  IInv'
    <2>1. fetch \in [Tasks -> Seq(Requests)]
      BY DEF IInv, TypeOK
    <2>2. fetch[t][n] \in Waiting \cup InFlight
          /\ UNCHANGED <<running, stage, result, memo, evidence>>
      BY <1>3 DEF Send, PoolTimeout, Answered, Empty, Failed
    <2>3. CASE PoolTimeout(t, n) \/ Empty(t, n) \/ Failed(t, n)
      <3>1. \E how \in Misses : fetch' = [fetch EXCEPT ![t] = NextTerm(fetch[t], n, how)]
        BY <2>1, <2>3 DEF PoolTimeout, Empty, Failed, Misses
      <3> QED
        BY <2>2, <3>1, RequestStep DEF MovesTo
    <2>4. CASE Send(t, n) \/ Answered(t, n)
      <3>1. \E a \in {"asked", "asked again", "queued again", "found", "bare"} :
                fetch' = [fetch EXCEPT ![t] = [fetch[t] EXCEPT ![n] = a]]
        <4>1. CASE Send(t, n)
          BY <2>1, <4>1 DEF Send
        <4>2. CASE Answered(t, n)
          <5>1. PICK a \in Answers(t, n) :
                   fetch' = [fetch EXCEPT ![t] = [fetch[t] EXCEPT ![n] = a]]
            BY <2>1, <4>2 DEF Answered
          <5>2. a \in {"queued again", "found", "bare"}
            BY DEF Answers
          <5> QED
            BY <5>1, <5>2
        <4> QED
          BY <2>4, <4>1, <4>2
      <3>2. PICK a \in {"asked", "asked again", "queued again", "found", "bare"} :
                fetch' = [fetch EXCEPT ![t] = [fetch[t] EXCEPT ![n] = a]]
        BY <3>1
      <3>3. a \in Requests \ (Misses \cup {"unsent"})
        BY DEF Requests, Waiting, InFlight, Misses
      <3>4. MovesTo(fetch[t], n, [fetch[t] EXCEPT ![n] = a])
        BY <3>3 DEF MovesTo
      <3> QED
        BY <2>2, <3>2, <3>4, RequestStep
    <2> QED
      BY <1>3, <2>3, <2>4
  <1>4. ASSUME NEW k \in MemoKeys, Expire(k) PROVE IInv'
    BY <1>4, ExpireKeeps
  <1>5. CASE UNCHANGED vars
    <2>1. TypeOK' /\ EvidenceIsMap' /\ RequestsPlaced' /\ LookupsMemoised' /\ HeldBack'
          /\ CreditsSpared' /\ ResultsAttributed' /\ MemoAttributed'
      BY <1>5 DEF vars, tasks, IInv, TypeOK, EvidenceIsMap, RequestsPlaced,
         LookupsMemoised, HeldBack, HeldBackIn, CreditsSpared, ResultsAttributed,
         MemoAttributed, Attributed, Source, Claim
    <2>2. Settled'
      BY <1>5, SettledKept DEF vars, tasks, Settled
    <2> QED
      BY <2>1, <2>2 DEF IInv
  <1> QED
    BY <1>1, <1>2, <1>3, <1>4, <1>5 DEF Next

LEMMA IInvHolds == Spec => []IInv
  BY InitIInv, NextIInv, PTL DEF Spec

-----------------------------------------------------------------------------
(* The theorems.                                                           *)

\* Every variable has its type, whatever the services answer
\* (source_router.py:71-164).
THEOREM TypeCorrect == Spec => []TypeOK
  <1>1. IInv => TypeOK
    BY DEF IInv
  <1> QED
    BY <1>1, IInvHolds, PTL

\* SerpAPI is asked for a broader term only after every narrower one ended,
\* empty or with an error, never while one that may find something is out
\* (serp_retriever.py:75-77, 89-139).
THEOREM CreditsAreSpared == Spec => []CreditsSpared
  <1>1. IInv => CreditsSpared
    BY DEF IInv
  <1> QED
    BY <1>1, IInvHolds, PTL

\* "Nothing found" means that every term was tried and missed: the first that
\* did not would have been held back although the one before it had missed
\* (serp_retriever.py:134-141, wikipedia_retriever.py:186-191, 222-232).
THEOREM NoSearchGivesUp == Spec => []MissesAreExhaustive
  <1>1. ASSUME IInv PROVE MissesAreExhaustive
    <2> SUFFICES ASSUME NEW t \in Tasks, stage[t] = "done", fetch[t] # <<>>, result[t] = Miss,
                        {n \in DOMAIN fetch[t] : fetch[t][n] \notin Misses} # {}
                 PROVE  FALSE
      BY DEF MissesAreExhaustive
    <2> DEFINE S == {n \in DOMAIN fetch[t] : fetch[t][n] \notin Misses}
    <2>1. fetch[t] \in Seq(Requests)
      BY <1>1 DEF IInv, TypeOK
    <2>2. /\ Len(fetch[t]) \in Nat /\ DOMAIN fetch[t] = 1 .. Len(fetch[t])
          /\ \A n \in DOMAIN fetch[t] : fetch[t][n] \in Requests
      BY <2>1
    <2>3. S \in SUBSET (1 .. Len(fetch[t])) /\ S # {}
      BY <2>2
    <2> DEFINE first == Min(S)
    <2>4. first \in S /\ \A n \in S : first <= n
      BY <2>2, <2>3, FirstExists
    <2> HIDE DEF first
    <2>5. first \in DOMAIN fetch[t] /\ fetch[t][first] \notin Misses
      BY <2>4
    <2>6. Hits(t) = {}
      BY <1>1, <2>1, OutcomeIs, MarkersAreNotFindings DEF IInv, Settled
    <2>7. fetch[t][first] = "unsent"
      BY <1>1, <2>2, <2>5, <2>6 DEF IInv, Settled, Hits, Requests
    <2>8. first > 1 /\ fetch[t][first - 1] \notin Misses
      BY <1>1, <2>5, <2>7 DEF IInv, HeldBack, HeldBackIn
    <2>9. first - 1 \in S /\ ~(first <= first - 1)
      BY <2>2, <2>5, <2>8
    <2> QED
      BY <2>4, <2>9
  <1> QED
    BY <1>1, IInvHolds, PTL

\* A task that asks anybody has one request for each search term of its claim, so
\* that what is said above of its requests is said of all terms
\* (wikipedia_retriever.py:216-229, serp_retriever.py:89-139).
EveryTermPlaced ==
    \A t \in Tasks : fetch[t] # <<>> => DOMAIN fetch[t] = 1 .. Terms[Source(t)][Claim(t)]

THEOREM EveryTermHasItsPlace == Spec => []EveryTermPlaced
  <1>1. Init => EveryTermPlaced
    BY DEF Init, EveryTermPlaced
  <1>2. IInv /\ EveryTermPlaced /\ [Next]_vars => EveryTermPlaced'
    <2> SUFFICES ASSUME IInv, EveryTermPlaced, [Next]_vars,
                        NEW u \in Tasks, fetch'[u] # <<>>
                 PROVE  DOMAIN fetch'[u] = 1 .. Terms[Source(u)][Claim(u)]
      BY DEF EveryTermPlaced, Source, Claim
    <2>1. fetch \in [Tasks -> Seq(Requests)]
      BY DEF IInv, TypeOK
    <2>2. CASE fetch'[u] = fetch[u]
      BY <2>2 DEF EveryTermPlaced
    <2>3. CASE fetch'[u] = FirstRequests(u)
      BY <2>3 DEF FirstRequests
    <2>4. ASSUME NEW b \in Batches, Call(b) \/ Gather(b)
          PROVE  fetch'[u] \in {fetch[u], FirstRequests(u), <<>>}
      BY <2>4 DEF Call, Gather
    <2>5. ASSUME NEW t \in Tasks, LookupHit(t) \/ LookupMiss(t) \/ Finish(t)
          PROVE  fetch'[u] \in {fetch[u], FirstRequests(u)}
      BY <2>1, <2>5 DEF LookupHit, LookupMiss, Finish
    <2>6. ASSUME NEW t \in Tasks, NEW n \in DOMAIN fetch[t],
                 Send(t, n) \/ PoolTimeout(t, n) \/ Answered(t, n) \/ Empty(t, n)
               \/ Failed(t, n)
          PROVE  fetch'[u] = fetch[u] \/ (u = t /\ DOMAIN fetch'[u] = DOMAIN fetch[u])
      BY <2>1, <2>6 DEF Send, PoolTimeout, Answered, Empty, Failed, NextTerm
    <2>7. ASSUME NEW t \in Tasks, NEW n \in DOMAIN fetch[t], t = u,
                 DOMAIN fetch'[u] = DOMAIN fetch[u]
          PROVE  DOMAIN fetch'[u] = 1 .. Terms[Source(u)][Claim(u)]
      <3>1. fetch[u] # <<>>
        BY <2>7
      <3> QED
        BY <2>7, <3>1 DEF EveryTermPlaced
    <2>8. CASE \E k \in MemoKeys : Expire(k)
      BY <2>2, <2>8 DEF Expire, tasks
    <2>9. CASE UNCHANGED vars
      BY <2>2, <2>9 DEF vars, tasks
    <2> QED
      BY <2>2, <2>3, <2>4, <2>5, <2>6, <2>7, <2>8, <2>9 DEF Next
  <1> QED
    BY <1>1, <1>2, IInvHolds, PTL DEF Spec

\* What a task returns is the find of its most precise term: the terms before
\* it have ended, none with a find, and SerpAPI has not skipped one
\* (wikipedia_retriever.py:216-229).
THEOREM MostPreciseTermWins == Spec => []PreciseTermWins
  <1>1. ASSUME IInv PROVE PreciseTermWins
    <2> SUFFICES ASSUME NEW t \in Tasks, stage[t] = "done", fetch[t] # <<>>, result[t] # Miss,
                        NEW n \in DOMAIN fetch[t], n < result[t].term
                 PROVE  fetch[t][n] \in Misses
      BY DEF PreciseTermWins
    <2>1. fetch[t] \in Seq(Requests) /\ result[t] = Outcome(t)
          /\ fetch[t][n] \notin Waiting \cup InFlight
      BY <1>1 DEF IInv, TypeOK, Settled
    <2>2. DOMAIN fetch[t] = 1 .. Len(fetch[t]) /\ Len(fetch[t]) \in Nat
          /\ fetch[t][n] \in Requests
      BY <2>1
    <2> DEFINE term == result[t].term
    <2>3. term \in Hits(t) /\ \A m \in Hits(t) : term <= m
      BY <2>1, OutcomeIs
    <2> HIDE DEF term
    <2>4. n < term
      BY DEF term
    <2>5. term \in DOMAIN fetch[t] /\ fetch[t][term] # "unsent"
      BY <2>3 DEF Hits
    <2>6. n \notin Hits(t)
      BY <2>2, <2>3, <2>4, <2>5
    <2>7. fetch[t][n] \in Misses \cup {"unsent"}
      BY <2>1, <2>2, <2>6 DEF Hits, Requests
    <2>8. CASE fetch[t][n] = "unsent"
      <3>1. Source(t) = "serpapi"
        BY <1>1, <2>8 DEF IInv, HeldBack, HeldBackIn
      <3> QED
        BY <1>1, <2>4, <2>5, <3>1 DEF IInv, CreditsSpared
    <2> QED
      BY <2>7, <2>8
  <1> QED
    BY <1>1, IInvHolds, PTL

-----------------------------------------------------------------------------
(* The promise of SourceRouter, step by step.                              *)

\* A call that returns has an answer of its own, and leaves the others theirs.
LEMMA GatherAnswers ==
    ASSUME IInv, NEW b \in Batches, Gather(b)
    PROVE  /\ evidence' = [evidence EXCEPT ![b] = evidence'[b]]
           /\ Promise!Answer(b, evidence'[b])
  <1>1. evidence' = [evidence EXCEPT ![b] = Answer(b)] /\ evidence'[b] = Answer(b)
    BY DEF Gather, IInv, EvidenceIsMap
  <1>2. ASSUME NEW s \in DOMAIN Answer(b)
        PROVE  /\ s \in Sources /\ Answer(b)[s] \in Seq(Findings) \ {<<>>}
               /\ Promise!Supports(Answer(b)[s], b, s)
    <2>1. s \in Sources /\ Answer(b)[s] = Pieces(b, s) /\ Pieces(b, s) # <<>>
      BY DEF Answer
    <2> QED
      BY <2>1, PiecesAttributed
  <1>3. Promise!Answer(b, Answer(b))
    BY <1>2 DEF Promise!Answer
  <1> QED
    BY <1>1, <1>3

\* Between call and return, the tasks change nothing that the caller sees.
LEMMA TasksAreHidden ==
    [Next]_vars => \/ \E b \in Batches : Call(b) \/ Gather(b)
                   \/ UNCHANGED <<running, evidence>>
  BY DEF Next, LookupHit, LookupMiss, Finish, Send, PoolTimeout, Answered, Empty, Failed,
     Expire, vars

\* However the tasks of the calls interleave and fail, each call is answered
\* once, with an evidence_map of its own that names no source without a text
\* (source_router.py:130-164, verify.py:234-241).
THEOREM RouterKeepsPromise == Spec => KeepsPromise
  <1>1. Init => Promise!Init
    BY DEF Init, Promise!Init
  <1>2. IInv /\ [Next]_vars => [Promise!Next]_<<running, evidence>>
    <2> SUFFICES ASSUME IInv, [Next]_vars
                 PROVE  [Promise!Next]_<<running, evidence>>
      OBVIOUS
    <2>1. ASSUME NEW b \in Batches, Call(b) PROVE Promise!Call(b)
      BY <2>1 DEF Call, Promise!Call
    <2>2. ASSUME NEW b \in Batches, Gather(b) PROVE Promise!Return(b)
      BY <2>2, GatherAnswers DEF Gather, Promise!Return
    <2> QED
      BY <2>1, <2>2, TasksAreHidden DEF Promise!Next
  <1> QED
    BY <1>1, <1>2, IInvHolds, PTL DEF Spec, KeepsPromise, Promise!Spec

\* What a caller holds is nothing yet, or an answer.
AnswersStand == \A b \in Batches : Promise!Answer(b, evidence[b])

LEMMA AnswersStandHolds == Spec => []AnswersStand
  <1>1. Init => AnswersStand
    BY DEF Init, AnswersStand, Promise!Answer
  <1>2. IInv /\ AnswersStand /\ [Next]_vars => AnswersStand'
    <2> SUFFICES ASSUME IInv, AnswersStand, [Next]_vars, NEW a \in Batches
                 PROVE  Promise!Answer(a, evidence'[a])
      BY DEF AnswersStand, Promise!Answer, Promise!Supports
    <2>1. CASE evidence'[a] = evidence[a]
      BY <2>1 DEF AnswersStand
    <2>2. ASSUME NEW b \in Batches, Call(b) PROVE Promise!Answer(a, evidence'[a])
      <3>1. CASE a # b
        BY <2>1, <2>2, <3>1 DEF Call, IInv, EvidenceIsMap
      <3>2. CASE a = b
        BY <2>2, <3>2 DEF Call, IInv, EvidenceIsMap, Promise!Answer
      <3> QED
        BY <3>1, <3>2
    <2>3. ASSUME NEW b \in Batches, Gather(b) PROVE Promise!Answer(a, evidence'[a])
      <3>1. CASE a # b
        BY <2>1, <2>3, <3>1 DEF Gather, IInv, EvidenceIsMap
      <3>2. CASE a = b
        BY <2>3, <3>2, GatherAnswers
      <3> QED
        BY <3>1, <3>2
    <2> QED
      BY <2>1, <2>2, <2>3, TasksAreHidden
  <1> QED
    BY <1>1, <1>2, IInvHolds, PTL DEF Spec

\* Evidence is shown under the source that found it, for a claim of the
\* verification that shows it, in the order of the claims
\* (source_router.py:77-78, 151-164; cache.py:81-88).
THEOREM EvidenceIsAttributed == Spec => []EvidenceAttributed
  <1>1. AnswersStand => EvidenceAttributed
    BY DEF AnswersStand, EvidenceAttributed, Promise!Answer
  <1> QED
    BY <1>1, AnswersStandHolds, PTL

\* The sources of a map number at most the routed ones, and none without a
\* claim: all that VerifyPipeline takes of this layer (verify.py:214-241).
AsCounted ==
    \A b \in Batches : Cardinality(DOMAIN evidence[b])
                         \in 0 .. (IF ClaimsOf[b] = <<>> THEN 0 ELSE Cardinality(Sources))

THEOREM CountsAgree == Spec => []AsCounted
  <1>1. AnswersStand => AsCounted
    <2> SUFFICES ASSUME AnswersStand, NEW b \in Batches
                 PROVE  Cardinality(DOMAIN evidence[b])
                          \in 0 .. (IF ClaimsOf[b] = <<>> THEN 0 ELSE Cardinality(Sources))
      BY DEF AsCounted
    <2> DEFINE S == DOMAIN evidence[b]
    <2>1. S \subseteq Sources
      BY DEF AnswersStand, Promise!Answer
    <2>2. IsFiniteSet(Sources) /\ Cardinality(Sources) \in Nat
      BY FS_CardinalityType, RetrievalAssumption
    <2>3. Cardinality(S) \in Nat /\ Cardinality(S) <= Cardinality(Sources)
      BY <2>1, <2>2, FS_Subset, FS_CardinalityType
    <2>4. ASSUME ClaimsOf[b] = <<>> PROVE S = {}
      <3> SUFFICES ASSUME NEW s \in S PROVE FALSE
        OBVIOUS
      <3>1. evidence[b][s] \in Seq(Findings) \ {<<>>} /\ Promise!Supports(evidence[b][s], b, s)
        BY DEF AnswersStand, Promise!Answer
      <3>2. 1 \in DOMAIN evidence[b][s]
        BY <3>1
      <3>3. PICK place \in [DOMAIN evidence[b][s] -> DOMAIN ClaimsOf[b]] : TRUE
        BY <3>1 DEF Promise!Supports
      <3>4. place[1] \in DOMAIN ClaimsOf[b]
        BY <3>2, <3>3
      <3> QED
        BY <2>4, <3>4
    <2>5. CASE ClaimsOf[b] = <<>>
      <3>1. Cardinality(S) = 0
        BY <2>4, <2>5, FS_EmptySet
      <3> QED
        BY <2>5, <3>1
    <2>6. CASE ClaimsOf[b] # <<>>
      BY <2>2, <2>3, <2>6
    <2> QED
      BY <2>5, <2>6
  <1> QED
    BY <1>1, AnswersStandHolds, PTL

=============================================================================
