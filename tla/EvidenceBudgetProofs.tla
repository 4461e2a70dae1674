------------------------ MODULE EvidenceBudgetProofs ------------------------
(***************************************************************************)
(* What EvidenceBudget guarantees for any texts, budget and phrases.       *)
(*                                                                         *)
(* Induction over data is done with a least counterexample: the set of     *)
(* those below a bound is finite, and that a finite set of numbers has a   *)
(* least follows from counting.                                            *)
(***************************************************************************)
EXTENDS EvidenceBudget, FiniteSetTheorems, SequenceTheorems, TLAPS

-----------------------------------------------------------------------------
(* A finite set in a strict total order.                                   *)

StrictOrder(S, R) ==
    /\ \A i \in S : <<i, i>> \notin R
    /\ \A i, j \in S : i # j => (<<i, j>> \in R \/ <<j, i>> \in R)
    /\ \A i, j, k \in S : (<<i, j>> \in R /\ <<j, k>> \in R) => <<i, k>> \in R

Below(S, R, i) == {j \in S : <<j, i>> \in R}

\* How many stand before a member is below the size, and grows in the order.
LEMMA RankGrows ==
    ASSUME NEW S, IsFiniteSet(S), NEW R, StrictOrder(S, R), NEW i \in S
    PROVE  /\ Cardinality(S) \in Nat
           /\ Cardinality(Below(S, R, i)) \in 0 .. Cardinality(S) - 1
           /\ \A l \in S : <<i, l>> \in R =>
                Cardinality(Below(S, R, i)) < Cardinality(Below(S, R, l))
  <1>1. ASSUME NEW T \in SUBSET S, i \in T, Below(S, R, i) \subseteq T
        PROVE  /\ Cardinality(Below(S, R, i)) \in Nat /\ Cardinality(T) \in Nat
               /\ Cardinality(Below(S, R, i)) < Cardinality(T)
    <2> DEFINE U == Below(S, R, i)
    <2>1. IsFiniteSet(T)
      BY FS_Subset
    <2>2. i \notin U
      BY DEF Below, StrictOrder
    <2>3. U \in SUBSET T /\ U # T
      BY <1>1, <2>2
    <2> HIDE DEF U
    <2>4. IsFiniteSet(U) /\ Cardinality(U) <= Cardinality(T) /\ Cardinality(U) # Cardinality(T)
      BY <2>1, <2>3, FS_Subset
    <2>5. Cardinality(U) \in Nat /\ Cardinality(T) \in Nat
      BY <2>1, <2>4, FS_CardinalityType
    <2>6. Cardinality(U) < Cardinality(T)
      BY <2>4, <2>5
    <2> QED
      BY <2>5, <2>6 DEF U
  <1>2. Below(S, R, i) \subseteq S
    BY DEF Below
  <1>3. Cardinality(S) \in Nat /\ Cardinality(Below(S, R, i)) \in 0 .. Cardinality(S) - 1
    BY <1>1, <1>2
  <1>4. ASSUME NEW l \in S, <<i, l>> \in R
        PROVE  Cardinality(Below(S, R, i)) < Cardinality(Below(S, R, l))
    <2>1. /\ i \in Below(S, R, l) /\ Below(S, R, l) \in SUBSET S
          /\ Below(S, R, i) \subseteq Below(S, R, l)
      BY <1>4 DEF Below, StrictOrder
    <2> QED
      BY <2>1, <1>1
  <1> QED
    BY <1>3, <1>4

\* Numbers of different members differ: as many of them as there are places.
LEMMA RankIsTaken ==
    ASSUME NEW S, IsFiniteSet(S), NEW R, StrictOrder(S, R),
           NEW k \in 1 .. Cardinality(S)
    PROVE  \E i \in S : Cardinality(Below(S, R, i)) = k - 1
  <1> DEFINE n == Cardinality(S)
             rank == [i \in S |-> Cardinality(Below(S, R, i))]
  <1>1. n \in Nat
    BY FS_CardinalityType
  <1>2. rank \in [S -> 0 .. n - 1]
    BY RankGrows
  <1>3. ASSUME NEW i \in S, NEW l \in S, rank[i] = rank[l] PROVE i = l
    <2>1. /\ <<i, l>> \in R => rank[i] < rank[l]
          /\ <<l, i>> \in R => rank[l] < rank[i]
      BY RankGrows
    <2>2. rank[i] \in Nat /\ rank[l] \in Nat
      BY <1>1, <1>2
    <2>3. <<i, l>> \notin R /\ <<l, i>> \notin R
      BY <1>3, <2>1, <2>2
    <2> QED
      BY <2>3 DEF StrictOrder
  <1>4. rank \in Injection(S, 0 .. n - 1)
    BY <1>2, <1>3, Zenon DEF Injection, IsInjective
  <1>5. IsFiniteSet(0 .. n - 1) /\ Cardinality(0 .. n - 1) = n
    <2>1. 0 \in Int /\ n - 1 \in Int /\ (IF 0 > n - 1 THEN 0 ELSE n - 1 - 0 + 1) = n
      BY <1>1
    <2> HIDE DEF n
    <2> QED
      BY <2>1, FS_Interval
  <1> HIDE DEF rank
  <1>6. rank \in Surjection(S, 0 .. n - 1)
    BY <1>4, <1>5, FS_Injection
  <1>7. k - 1 \in 0 .. n - 1
    BY <1>1
  <1>8. PICK i \in S : rank[i] = k - 1
    BY <1>6, <1>7 DEF Surjection
  <1> QED
    BY <1>8 DEF rank

\* Ordered lists S, each member once, in the order.
LEMMA OrderedLists ==
    ASSUME NEW S, IsFiniteSet(S), NEW R, StrictOrder(S, R)
    PROVE  /\ Cardinality(S) \in Nat
           /\ Ordered(S, R) \in [1 .. Cardinality(S) -> S]
           /\ \A i \in S : \E k \in 1 .. Cardinality(S) : Ordered(S, R)[k] = i
           /\ \A k, l \in 1 .. Cardinality(S) :
                k < l => <<Ordered(S, R)[k], Ordered(S, R)[l]>> \in R
  <1> DEFINE n == Cardinality(S)
             o == Ordered(S, R)
             rank(i) == Cardinality(Below(S, R, i))
  <1>1. n \in Nat
    BY FS_CardinalityType
  <1>2. o = [k \in 1 .. n |-> CHOOSE i \in S : rank(i) = k - 1]
    BY DEF Ordered, Below
  <1>3. \A k \in 1 .. n : \E i \in S : rank(i) = k - 1
    BY RankIsTaken
  <1>4. \A i, l \in S : <<i, l>> \in R => rank(i) < rank(l)
    BY RankGrows
  <1>5. \A i \in S : rank(i) \in 0 .. n - 1
    BY RankGrows
  <1> HIDE DEF n, o, rank
  <1>6. \A k \in 1 .. n : o[k] \in S /\ rank(o[k]) = k - 1
    BY <1>2, <1>3
  <1>7. o \in [1 .. n -> S]
    BY <1>2, <1>6
  <1>8. \A i \in S : rank(i) + 1 \in 1 .. n /\ o[rank(i) + 1] = i
    <2> SUFFICES ASSUME NEW i \in S PROVE rank(i) + 1 \in 1 .. n /\ o[rank(i) + 1] = i
      OBVIOUS
    <2>1. rank(i) + 1 \in 1 .. n /\ rank(i) \in Nat
      BY <1>1, <1>5
    <2> DEFINE l == o[rank(i) + 1]
    <2>2. l \in S /\ rank(l) = rank(i)
      BY <1>6, <2>1
    <2>3. <<i, l>> \notin R /\ <<l, i>> \notin R
      BY <1>4, <2>1, <2>2
    <2> QED
      BY <2>1, <2>2, <2>3 DEF StrictOrder
  <1>9. ASSUME NEW k \in 1 .. n, NEW l \in 1 .. n, k < l PROVE <<o[k], o[l]>> \in R
    <2>1. /\ o[k] \in S /\ rank(o[k]) = k - 1
          /\ o[l] \in S /\ rank(o[l]) = l - 1
      BY <1>6
    <2>2. ~(l - 1 < k - 1) /\ k - 1 # l - 1
      BY <1>1, <1>9
    <2>3. <<o[l], o[k]>> \notin R /\ o[k] # o[l]
      BY <1>4, <2>1, <2>2
    <2> QED
      BY <2>1, <2>3 DEF StrictOrder
  <1> QED
    BY <1>1, <1>7, <1>8, <1>9 DEF n, o

LEMMA RisingOrder ==
    ASSUME NEW S \in SUBSET Nat PROVE StrictOrder(S, Rising(S))
  <1>1. \A i, j \in S : <<i, j>> \in Rising(S) <=> i < j
    BY DEF Rising
  <1>2. \A i \in S : i \in Nat
    OBVIOUS
  <1> QED
    BY <1>1, <1>2 DEF StrictOrder

\* A finite set of numbers has a least and a greatest.
LEMMA Extremes ==
    ASSUME NEW S \in SUBSET Nat, IsFiniteSet(S), S # {}
    PROVE  /\ Min(S) \in S /\ \A i \in S : Min(S) <= i
           /\ Max(S) \in S /\ \A i \in S : i <= Max(S)
  <1> DEFINE n == Cardinality(S)
             o == Ordered(S, Rising(S))
  <1>1. n \in Nat /\ n # 0
    BY FS_CardinalityType, FS_EmptySet
  <1>2. /\ o \in [1 .. n -> S]
        /\ \A i \in S : \E k \in 1 .. n : o[k] = i
        /\ \A k, l \in 1 .. n : k < l => <<o[k], o[l]>> \in Rising(S)
    BY RisingOrder, OrderedLists
  <1>3. \A i, j \in S : <<i, j>> \in Rising(S) <=> i < j
    BY DEF Rising
  <1> HIDE DEF n, o
  <1>4. 1 \in 1 .. n /\ n \in 1 .. n
    BY <1>1
  <1>5. ASSUME NEW i \in S PROVE o[1] <= i /\ i <= o[n]
    <2>1. PICK k \in 1 .. n : o[k] = i
      BY <1>2
    <2>2. (k = 1 \/ 1 < k) /\ (k = n \/ k < n)
      BY <1>1
    <2>3. \A x, y \in 1 .. n : x < y => o[x] < o[y]
      BY <1>2, <1>3
    <2>4. k = 1 \/ o[1] < i
      BY <1>4, <2>1, <2>2, <2>3
    <2>5. k = n \/ i < o[n]
      BY <1>4, <2>1, <2>2, <2>3
    <2>6. o[1] \in Nat /\ o[n] \in Nat /\ i \in Nat
      BY <1>2, <1>4
    <2> QED
      BY <2>1, <2>4, <2>5, <2>6
  <1>6. o[1] \in S /\ o[n] \in S
    BY <1>2, <1>4
  <1>7. \E x \in S : \A y \in S : x <= y
    BY <1>5, <1>6
  <1>8. \E x \in S : \A y \in S : x >= y
    BY <1>5, <1>6
  <1>9. Min(S) \in S /\ \A i \in S : Min(S) <= i
    BY <1>7 DEF Min
  <1>10. Max(S) \in S /\ \A i \in S : Max(S) >= i
    BY <1>8 DEF Max
  <1> QED
    BY <1>9, <1>10

\* The step of every induction below: the least of the counterexamples.
LEMMA Least ==
    ASSUME NEW m \in Nat, NEW S \in SUBSET (0 .. m), S # {}
    PROVE  \E i \in S : \A j \in S : i <= j
  <1>1. IsFiniteSet(0 .. m)
    BY FS_Interval
  <1>2. IsFiniteSet(S)
    BY <1>1, FS_Subset
  <1>3. S \in SUBSET Nat
    OBVIOUS
  <1> QED
    BY <1>2, <1>3, Extremes

-----------------------------------------------------------------------------
(* Parts of sequences.                                                     *)

\* At takes each place once, in order.
LEMMA AtPlaces ==
    ASSUME NEW S, NEW t \in Seq(S), NEW places \in SUBSET (DOMAIN t)
    PROVE  /\ At(t, places) \in Seq(S)
           /\ \E o \in [DOMAIN At(t, places) -> places] :
                /\ \A k \in DOMAIN At(t, places) : At(t, places)[k] = t[o[k]]
                /\ \A i \in places : \E k \in DOMAIN At(t, places) : o[k] = i
                /\ \A k, l \in DOMAIN At(t, places) : k < l => o[k] < o[l]
  <1> DEFINE n == Cardinality(places)
             o == Ordered(places, Rising(places))
             a == At(t, places)
  <1>1. DOMAIN t = 1 .. Len(t) /\ Len(t) \in Nat
    OBVIOUS
  <1>2. IsFiniteSet(1 .. Len(t))
    BY <1>1, FS_Interval
  <1>3. IsFiniteSet(places) /\ places \in SUBSET Nat
    <2>1. IsFiniteSet(places)
      BY <1>1, <1>2, FS_Subset
    <2> QED
      BY <1>1, <2>1
  <1>4. /\ n \in Nat /\ o \in [1 .. n -> places]
        /\ \A i \in places : \E k \in 1 .. n : o[k] = i
        /\ \A k, l \in 1 .. n : k < l => <<o[k], o[l]>> \in Rising(places)
    BY <1>3, RisingOrder, OrderedLists
  <1>5. \A k, l \in 1 .. n : k < l => o[k] < o[l]
    BY <1>4 DEF Rising
  <1>6. a = [k \in 1 .. n |-> t[o[k]]]
    BY DEF At
  <1> HIDE DEF n, o, a
  <1>7. \A k \in 1 .. n : t[o[k]] \in S
    BY <1>1, <1>4
  <1>8. a \in Seq(S) /\ DOMAIN a = 1 .. n
    BY <1>4, <1>6, <1>7
  <1>9. /\ o \in [DOMAIN a -> places]
        /\ \A k \in DOMAIN a : a[k] = t[o[k]]
        /\ \A i \in places : \E k \in DOMAIN a : o[k] = i
        /\ \A k, l \in DOMAIN a : k < l => o[k] < o[l]
    BY <1>4, <1>5, <1>6, <1>8
  <1> QED
    BY <1>8, <1>9 DEF a

LEMMA NormalisedIsText ==
    ASSUME NEW t \in Texts PROVE Normalised(t) \in Texts
  <1> DEFINE first == {i \in DOMAIN t : t[i] \notin White \/ i = 1 \/ t[i-1] \notin White}
             single == At(t, first)
             spaced == [i \in DOMAIN single |-> IF single[i] \in White THEN Blank ELSE single[i]]
             solid == {i \in DOMAIN spaced : spaced[i] # Stop}
  <1>1. single \in Seq(Characters)
    BY AtPlaces DEF Texts
  <1> HIDE DEF single
  <1>2. spaced \in Seq(Characters)
    <2>1. Blank \in Characters
      BY TextAssumption
    <2>2. \A i \in DOMAIN single :
            (IF single[i] \in White THEN Blank ELSE single[i]) \in Characters
      BY <1>1, <2>1
    <2> QED
      BY <1>1, <2>2
  <1> HIDE DEF spaced
  <1>3. At(spaced, solid) \in Seq(Characters)
    BY <1>2, AtPlaces
  <1> QED
    BY <1>3 DEF Normalised, Texts, spaced, single

LEMMA Slice ==
    ASSUME NEW S, NEW t \in Seq(S), NEW a \in 1 .. Len(t) + 1, NEW b \in a - 1 .. Len(t)
    PROVE  /\ SubSeq(t, a, b) \in Seq(S) /\ Len(SubSeq(t, a, b)) = b - a + 1
           /\ \A j \in 1 .. b - a + 1 : SubSeq(t, a, b)[j] = t[a + j - 1]
  <1>1. a \in Int /\ b \in Int /\ \A i \in a .. b : t[i] \in S
    <2>1. \A i \in a .. b : i \in 1 .. Len(t)
      OBVIOUS
    <2> QED
      BY <2>1
  <1>2. (IF a <= b THEN b - a + 1 ELSE 0) = b - a + 1
    OBVIOUS
  <1> QED
    BY <1>1, <1>2, SubSeqProperties

\* Containment, character by character.
LEMMA InPointwise ==
    ASSUME NEW x \in Texts, NEW y \in Texts
    PROVE  In(x, y) <=> \E k \in 0 .. Len(y) - Len(x) :
                            \A j \in 1 .. Len(x) : y[k + j] = x[j]
  <1>1. ASSUME NEW k \in 0 .. Len(y) - Len(x)
        PROVE  SubSeq(y, k + 1, k + Len(x)) = x <=> \A j \in 1 .. Len(x) : y[k + j] = x[j]
    <2> DEFINE part == SubSeq(y, k + 1, k + Len(x))
    <2>1. Len(x) \in Nat /\ Len(y) \in Nat /\ k \in Nat /\ k + Len(x) <= Len(y)
      BY DEF Texts
    <2>2. part \in Seq(Characters) /\ Len(part) = Len(x)
          /\ \A j \in 1 .. Len(x) : part[j] = y[k + j]
      <3>1. /\ y \in Seq(Characters) /\ k + 1 \in 1 .. Len(y) + 1
            /\ k + Len(x) \in (k + 1) - 1 .. Len(y)
            /\ (k + Len(x)) - (k + 1) + 1 = Len(x)
            /\ \A j \in 1 .. Len(x) : (k + 1) + j - 1 = k + j
        BY <2>1 DEF Texts
      <3> QED
        BY <3>1, Slice
    <2> HIDE DEF part
    <2>3. part = x <=> \A j \in 1 .. Len(x) : part[j] = x[j]
      BY <2>2, SeqEqual DEF Texts
    <2> QED
      BY <2>2, <2>3 DEF part
  <1> QED
    BY <1>1 DEF In

LEMMA InReflexive == ASSUME NEW x \in Texts PROVE In(x, x)
  <1>1. Len(x) \in Nat /\ 0 \in 0 .. Len(x) - Len(x) /\ \A j \in 1 .. Len(x) : x[0 + j] = x[j]
    BY DEF Texts
  <1> QED
    BY <1>1, InPointwise

LEMMA InTransitive ==
    ASSUME NEW x \in Texts, NEW y \in Texts, NEW z \in Texts, In(x, y), In(y, z)
    PROVE  In(x, z)
  <1>1. Len(x) \in Nat /\ Len(y) \in Nat /\ Len(z) \in Nat
    BY DEF Texts
  <1>2. PICK k \in 0 .. Len(y) - Len(x) : \A j \in 1 .. Len(x) : y[k + j] = x[j]
    BY InPointwise
  <1>3. PICK l \in 0 .. Len(z) - Len(y) : \A j \in 1 .. Len(y) : z[l + j] = y[j]
    BY InPointwise
  <1>4. l + k \in 0 .. Len(z) - Len(x)
    BY <1>1
  <1>5. ASSUME NEW j \in 1 .. Len(x) PROVE z[(l + k) + j] = x[j]
    <2>1. k + j \in 1 .. Len(y) /\ l + (k + j) = (l + k) + j
      BY <1>1
    <2>2. z[l + (k + j)] = y[k + j]
      BY <1>3, <2>1
    <2> QED
      BY <1>2, <2>1, <2>2
  <1> QED
    BY <1>4, <1>5, InPointwise

\* A text contains none that is longer, and of its own length only itself.
LEMMA InIsShorter ==
    ASSUME NEW x \in Texts, NEW y \in Texts, In(x, y)
    PROVE  Len(x) <= Len(y) /\ (Len(x) = Len(y) => x = y)
  <1>1. Len(x) \in Nat /\ Len(y) \in Nat
    BY DEF Texts
  <1>2. PICK k \in 0 .. Len(y) - Len(x) : \A j \in 1 .. Len(x) : y[k + j] = x[j]
    BY InPointwise
  <1>3. ASSUME Len(x) = Len(y) PROVE x = y
    <2>1. k = 0
      BY <1>1, <1>3
    <2>2. \A j \in 1 .. Len(x) : y[j] = x[j]
      BY <1>1, <1>2, <2>1
    <2> QED
      BY <1>3, <2>2, SeqEqual DEF Texts
  <1> QED
    BY <1>1, <1>2, <1>3

-----------------------------------------------------------------------------
(* Deduplication.                                                          *)

LEMMA PartsAreTexts ==
    ASSUME NEW t \in Parts
    PROVE  t \in Texts /\ Normalised(t) \in Texts /\ Len(Normalised(t)) \in Nat
  <1>1. t \in Texts /\ Normalised(t) \in Texts
    BY NormalisedIsText DEF Parts
  <1> QED
    BY <1>1 DEF Texts

\* The first of each: all that is said, nothing twice in the same words.
LEMMA FirstsAreUnique ==
    ASSUME NEW ps \in Seq(Parts), NEW unique, unique = At(ps, FirstOfEach(ps))
    PROVE  /\ unique \in Seq(Parts)
           /\ \A i \in DOMAIN ps : \E u \in DOMAIN unique :
                Normalised(unique[u]) = Normalised(ps[i])
           /\ \A u, v \in DOMAIN unique : u # v =>
                Normalised(unique[u]) # Normalised(unique[v])
  <1> DEFINE F == FirstOfEach(ps)
  <1>1. Len(ps) \in Nat /\ DOMAIN ps = 1 .. Len(ps)
    OBVIOUS
  <1>2. F \in SUBSET (DOMAIN ps)
    BY DEF FirstOfEach
  <1>3. unique \in Seq(Parts)
    BY <1>2, AtPlaces
  <1>4. PICK o \in [DOMAIN unique -> F] :
           /\ \A k \in DOMAIN unique : unique[k] = ps[o[k]]
           /\ \A i \in F : \E k \in DOMAIN unique : o[k] = i
           /\ \A k, l \in DOMAIN unique : k < l => o[k] < o[l]
    BY <1>2, AtPlaces
  <1>5. ASSUME NEW i \in DOMAIN ps
        PROVE  \E u \in DOMAIN unique : Normalised(unique[u]) = Normalised(ps[i])
    <2> DEFINE Same == {j \in DOMAIN ps : Normalised(ps[j]) = Normalised(ps[i])}
    <2>1. Same \in SUBSET (0 .. Len(ps)) /\ Same # {}
      BY <1>1
    <2>2. PICK j \in Same : \A l \in Same : j <= l
      BY <1>1, <2>1, Least
    <2>3. \A l \in 1 .. j - 1 : l \in DOMAIN ps /\ ~(j <= l)
      BY <1>1, <2>2
    <2>4. j \in F
      BY <2>2, <2>3 DEF FirstOfEach
    <2> QED
      BY <1>4, <2>2, <2>4
  <1>6. ASSUME NEW u \in DOMAIN unique, NEW v \in DOMAIN unique, u < v
        PROVE  Normalised(unique[u]) # Normalised(unique[v])
    <2>1. o[u] \in F /\ o[v] \in F /\ o[u] < o[v]
      BY <1>4, <1>6
    <2>2. o[u] \in 1 .. o[v] - 1
      BY <1>1, <1>2, <2>1
    <2> QED
      BY <1>4, <2>1, <2>2 DEF FirstOfEach
  <1>7. ASSUME NEW u \in DOMAIN unique, NEW v \in DOMAIN unique, u # v
        PROVE  u < v \/ v < u
    BY <1>3, <1>7
  <1> QED
    BY <1>3, <1>5, <1>6, <1>7

\* Of those that contain a text a longest is contained in none, so it is kept.
LEMMA ContainerIsKept ==
    ASSUME NEW unique \in Seq(Parts), NEW u \in DOMAIN unique
    PROVE  \E v \in DOMAIN unique :
              /\ In(Normalised(unique[u]), Normalised(unique[v]))
              /\ \A w \in DOMAIN unique : ~Contained(unique[v], unique[w])
  <1> DEFINE N(v) == Normalised(unique[v])
             C == {v \in DOMAIN unique : In(N(u), N(v))}
             long == [v \in C |-> Len(N(v))]
             lengths == {long[v] : v \in C}
  <1>1. Len(unique) \in Nat /\ DOMAIN unique = 1 .. Len(unique)
    OBVIOUS
  <1>2. \A v \in DOMAIN unique : N(v) \in Texts /\ Len(N(v)) \in Nat
    BY PartsAreTexts
  <1>3. u \in C
    BY <1>2, InReflexive
  <1>4. IsFiniteSet(C)
    <2>1. IsFiniteSet(1 .. Len(unique))
      BY <1>1, FS_Interval
    <2>2. C \in SUBSET (1 .. Len(unique))
      BY <1>1
    <2> HIDE DEF C
    <2> QED
      BY <2>1, <2>2, FS_Subset
  <1>5. long \in Surjection(C, lengths)
    BY Zenon DEF Surjection
  <1>6. IsFiniteSet(lengths)
    <2> HIDE DEF C, long, lengths
    <2> QED
      BY <1>4, <1>5, FS_Surjection
  <1>7. lengths \in SUBSET Nat /\ lengths # {}
    BY <1>2, <1>3
  <1>8. Max(lengths) \in lengths /\ \A n \in lengths : n <= Max(lengths)
    <2> HIDE DEF lengths
    <2> QED
      BY <1>6, <1>7, Extremes
  <1>9. PICK v \in C : \A w \in C : Len(N(w)) <= Len(N(v))
    BY <1>8
  <1>10. ASSUME NEW w \in DOMAIN unique, Contained(unique[v], unique[w]) PROVE FALSE
    <2>1. In(N(v), N(w)) /\ Len(N(v)) < Len(N(w))
      BY <1>10 DEF Contained
    <2>2. w \in C
      BY <1>2, <2>1, InTransitive
    <2> QED
      BY <1>2, <1>9, <2>1, <2>2
  <1> QED
    BY <1>9, <1>10

LEMMA DeduplicatedKeeps ==
    ASSUME NEW ps \in Seq(Parts)
    PROVE  /\ Deduplicated(ps) \in Seq(Parts)
           /\ \A i \in DOMAIN ps : \E k \in DOMAIN Deduplicated(ps) :
                In(Normalised(ps[i]), Normalised(Deduplicated(ps)[k]))
           /\ \A k, l \in DOMAIN Deduplicated(ps) : k # l =>
                ~In(Normalised(Deduplicated(ps)[k]), Normalised(Deduplicated(ps)[l]))
  <1> DEFINE unique == At(ps, FirstOfEach(ps))
             longest == {i \in DOMAIN unique :
                            \A j \in DOMAIN unique : ~Contained(unique[i], unique[j])}
             kept == At(unique, longest)
  <1>1. /\ unique \in Seq(Parts)
        /\ \A i \in DOMAIN ps : \E u \in DOMAIN unique :
             Normalised(unique[u]) = Normalised(ps[i])
        /\ \A u, v \in DOMAIN unique : u # v =>
             Normalised(unique[u]) # Normalised(unique[v])
    BY FirstsAreUnique
  <1> HIDE DEF unique
  <1>2. kept \in Seq(Parts)
    BY <1>1, AtPlaces
  <1>3. PICK o \in [DOMAIN kept -> longest] :
           /\ \A k \in DOMAIN kept : kept[k] = unique[o[k]]
           /\ \A i \in longest : \E k \in DOMAIN kept : o[k] = i
           /\ \A k, l \in DOMAIN kept : k < l => o[k] < o[l]
    BY <1>1, AtPlaces
  <1> HIDE DEF kept
  <1>4. ASSUME NEW i \in DOMAIN ps
        PROVE  \E k \in DOMAIN kept : In(Normalised(ps[i]), Normalised(kept[k]))
    <2>1. PICK u \in DOMAIN unique : Normalised(unique[u]) = Normalised(ps[i])
      BY <1>1
    <2>2. PICK v \in DOMAIN unique :
             /\ In(Normalised(unique[u]), Normalised(unique[v]))
             /\ \A w \in DOMAIN unique : ~Contained(unique[v], unique[w])
      BY <1>1, ContainerIsKept
    <2>3. PICK k \in DOMAIN kept : o[k] = v
      BY <1>3, <2>2
    <2> QED
      BY <1>3, <2>1, <2>2, <2>3
  <1>5. ASSUME NEW k \in DOMAIN kept, NEW l \in DOMAIN kept, k # l,
               In(Normalised(kept[k]), Normalised(kept[l]))
        PROVE  FALSE
    <2>1. o[k] \in longest /\ o[l] \in longest /\ kept[k] = unique[o[k]] /\ kept[l] = unique[o[l]]
      BY <1>3
    <2>2. o[k] # o[l]
      <3>1. k \in Nat /\ l \in Nat /\ (k < l \/ l < k)
        BY <1>2, <1>5
      <3>2. o[k] \in Nat /\ o[l] \in Nat
        BY <1>1, <2>1
      <3>3. o[k] < o[l] \/ o[l] < o[k]
        BY <1>3, <3>1
      <3> QED
        BY <3>2, <3>3
    <2>3. ~Contained(kept[k], kept[l])
      BY <2>1
    <2>4. kept[k] \in Parts /\ kept[l] \in Parts
      BY <1>2
    <2>5. /\ Normalised(kept[k]) \in Texts /\ Normalised(kept[l]) \in Texts
          /\ Len(Normalised(kept[k])) \in Nat /\ Len(Normalised(kept[l])) \in Nat
      BY <2>4, PartsAreTexts
    <2>6. ~(Len(Normalised(kept[k])) < Len(Normalised(kept[l])))
      BY <1>5, <2>3 DEF Contained
    <2>7. Normalised(kept[k]) = Normalised(kept[l])
      BY <1>5, <2>5, <2>6, InIsShorter
    <2> QED
      BY <1>1, <2>1, <2>2, <2>7
  <1>6. Deduplicated(ps) = kept
    BY DEF Deduplicated, kept, unique
  <1> QED
    BY <1>2, <1>4, <1>5, <1>6

-----------------------------------------------------------------------------
(* Ranking.                                                                *)

LEMMA ScoreIsInt == ASSUME NEW t \in Texts PROVE Score(t) \in Int
  <1> DEFINE length == IF Len(t) < Medium THEN 1 ELSE IF Len(t) <= Long THEN 6
                       ELSE IF Len(t) <= Huge THEN 4 ELSE 2
             found == {phrase \in Boilerplate : In(phrase, t)}
             bonus == IF \E i \in DOMAIN t : t[i] \in Digits THEN 1 ELSE 0
  <1>1. length \in Int /\ bonus \in Int
    OBVIOUS
  <1>2. IsFiniteSet(Boilerplate) /\ found \in SUBSET Boilerplate
    BY TextAssumption
  <1> HIDE DEF length, found, bonus
  <1>3. IsFiniteSet(found)
    BY <1>2, FS_Subset
  <1>4. Cardinality(found) \in Nat
    BY <1>3, FS_CardinalityType
  <1>5. Score(t) = length - 2 * Cardinality(found) + bonus
    BY DEF Score, length, found, bonus
  <1> QED
    BY <1>1, <1>4, <1>5

\* Ranking gives the same parts, each once, in the order of their scores.
LEMMA RankedSorts ==
    ASSUME NEW ps \in Seq(Parts)
    PROVE  /\ Ranked(ps) \in Seq(Parts) /\ DOMAIN Ranked(ps) = DOMAIN ps
           /\ \E o \in [DOMAIN ps -> DOMAIN ps] :
                /\ \A k \in DOMAIN ps : Ranked(ps)[k] = ps[o[k]]
                /\ \A i \in DOMAIN ps : \E k \in DOMAIN ps : o[k] = i
                /\ \A k, l \in DOMAIN ps : k # l => o[k] # o[l]
           /\ \A k, l \in DOMAIN ps : k < l => Score(Ranked(ps)[k]) >= Score(Ranked(ps)[l])
  <1> DEFINE D == DOMAIN ps
             R == Before(ps)
             o == Ordered(D, R)
             r == Ranked(ps)
             score(i) == Score(ps[i])
  <1>1. Len(ps) \in Nat /\ D = 1 .. Len(ps)
    OBVIOUS
  <1>2. IsFiniteSet(D) /\ Cardinality(D) = Len(ps)
    <2>1. 1 \in Int /\ Len(ps) \in Int
          /\ (IF 1 > Len(ps) THEN 0 ELSE Len(ps) - 1 + 1) = Len(ps)
      BY <1>1
    <2> QED
      BY <1>1, <2>1, FS_Interval
  <1>3. \A i \in D : ps[i] \in Parts /\ score(i) \in Int
    <2>1. \A i \in D : ps[i] \in Parts
      OBVIOUS
    <2> QED
      BY <2>1, PartsAreTexts, ScoreIsInt
  <1>4. \A i, j \in D : <<i, j>> \in R <=> (score(i) > score(j) \/ (score(i) = score(j) /\ i < j))
    BY DEF Before
  <1> HIDE DEF D, R, o, score
  <1>5. StrictOrder(D, R)
    <2>1. \A i \in D : i \in Int /\ score(i) \in Int
      BY <1>1, <1>3
    <2>2. \A i \in D : <<i, i>> \notin R
      BY <1>4, <2>1
    <2>3. \A i, j \in D : i # j => (<<i, j>> \in R \/ <<j, i>> \in R)
      BY <1>4, <2>1
    <2>4. \A i, j, k \in D : (<<i, j>> \in R /\ <<j, k>> \in R) => <<i, k>> \in R
      BY <1>4, <2>1
    <2> QED
      BY <2>2, <2>3, <2>4 DEF StrictOrder
  <1>6. /\ o \in [D -> D]
        /\ \A i \in D : \E k \in D : o[k] = i
        /\ \A k, l \in D : k < l => <<o[k], o[l]>> \in R
    BY <1>1, <1>2, <1>5, OrderedLists DEF o
  <1>7. r = [k \in D |-> ps[o[k]]]
    BY DEF Ranked, o, D, R
  <1> HIDE DEF r
  <1>8. r \in Seq(Parts) /\ DOMAIN r = D
    <2>1. \A k \in D : ps[o[k]] \in Parts
      BY <1>3, <1>6
    <2> QED
      BY <1>1, <1>7, <2>1
  <1>9. \A k, l \in D : k # l => o[k] # o[l]
    <2>1. \A k, l \in D : k < l => o[k] # o[l]
      BY <1>5, <1>6 DEF StrictOrder
    <2>2. \A k, l \in D : k # l => (k < l \/ l < k)
      BY <1>1
    <2> QED
      BY <2>1, <2>2
  <1>10. \A k, l \in D : k < l => Score(r[k]) >= Score(r[l])
    <2>1. ASSUME NEW k \in D, NEW l \in D, k < l PROVE score(o[k]) >= score(o[l])
      <3>1. o[k] \in D /\ o[l] \in D /\ <<o[k], o[l]>> \in R
        BY <1>6, <2>1
      <3>2. score(o[k]) \in Int /\ score(o[l]) \in Int
        BY <1>3, <3>1
      <3>3. score(o[k]) > score(o[l]) \/ score(o[k]) = score(o[l])
        BY <1>4, <3>1
      <3> QED
        BY <3>2, <3>3
    <2> QED
      BY <1>7, <2>1 DEF score
  <1> QED
    BY <1>6, <1>7, <1>8, <1>9, <1>10 DEF D, r

-----------------------------------------------------------------------------
(* Flattening.                                                             *)

FlattenBody(seqs, f, i) == IF i = 1 THEN seqs[i] ELSE f[i - 1] \o seqs[i]

\* The recursion of FlattenSeq has a solution, and FlattenSeq is its last value.
LEMMA FlattenIsDefined ==
    ASSUME NEW S, NEW seqs \in Seq(Seq(S)), Len(seqs) # 0
    PROVE  \E f : /\ f = [i \in 1 .. Len(seqs) |-> FlattenBody(seqs, f, i)]
                  /\ FlattenSeq(seqs) = f[Len(seqs)]
  <1> DEFINE m == Len(seqs)
             Solves(f, n) == f = [i \in 1 .. n |-> FlattenBody(seqs, f, i)]
             Unsolved == {n \in 0 .. m : ~\E f : Solves(f, n)}
  <1>1. m \in Nat
    OBVIOUS
  <1>2. Unsolved = {}
    <2> SUFFICES ASSUME Unsolved # {} PROVE FALSE
      OBVIOUS
    <2>1. PICK n \in Unsolved : \A j \in Unsolved : n <= j
      BY <1>1, Least
    <2>2. n # 0
      <3>1. Solves(<<>>, 0)
        OBVIOUS
      <3> QED
        BY <2>1, <3>1
    <2>3. n - 1 \in 0 .. m /\ ~(n <= n - 1)
      BY <1>1, <2>1, <2>2
    <2>4. PICK f : Solves(f, n - 1)
      BY <2>1, <2>3
    <2> DEFINE g == [i \in 1 .. n |-> IF i = n THEN FlattenBody(seqs, f, n) ELSE f[i]]
    <2>5. ASSUME NEW i \in 1 .. n PROVE g[i] = FlattenBody(seqs, g, i)
      <3>1. n \in Nat /\ n # 0
        BY <1>1, <2>1, <2>2
      <3>2. i # 1 => g[i - 1] = f[i - 1]
        BY <3>1
      <3>3. FlattenBody(seqs, g, i) = FlattenBody(seqs, f, i)
        BY <3>2 DEF FlattenBody
      <3>4. i # n => f[i] = FlattenBody(seqs, f, i)
        <4>1. i # n => i \in 1 .. n - 1
          BY <3>1
        <4> QED
          BY <2>4, <4>1
      <3> QED
        BY <3>3, <3>4
    <2>6. Solves(g, n)
      BY <2>5
    <2> QED
      BY <2>1, <2>6
  <1>3. PICK f : Solves(f, m)
    BY <1>1, <1>2
  <1> DEFINE flatten == CHOOSE h : Solves(h, m)
  <1>4. Solves(flatten, m)
    <2> HIDE DEF Solves
    <2> QED
      BY <1>3
  <1>5. FlattenSeq(seqs) = flatten[m]
    BY DEF FlattenSeq, FlattenBody
  <1> QED
    BY <1>4, <1>5

\* Flattening keeps every member and adds none.
LEMMA FlattenKeeps ==
    ASSUME NEW S, NEW seqs \in Seq(Seq(S))
    PROVE  /\ FlattenSeq(seqs) \in Seq(S)
           /\ \A k \in DOMAIN seqs : \A i \in DOMAIN seqs[k] :
                \E n \in DOMAIN FlattenSeq(seqs) : FlattenSeq(seqs)[n] = seqs[k][i]
  <1> DEFINE m == Len(seqs)
  <1>1. m \in Nat /\ DOMAIN seqs = 1 .. m /\ \A k \in 1 .. m : seqs[k] \in Seq(S)
    OBVIOUS
  <1>2. CASE m = 0
    <2>1. FlattenSeq(seqs) = seqs /\ seqs = <<>>
      BY <1>2 DEF FlattenSeq
    <2> QED
      BY <1>1, <1>2, <2>1
  <1>3. CASE m # 0
    <2>1. PICK f : /\ f = [i \in 1 .. m |-> FlattenBody(seqs, f, i)]
                   /\ FlattenSeq(seqs) = f[m]
      BY <1>3, FlattenIsDefined
    <2> DEFINE Holds(k, n) == \A i \in DOMAIN seqs[k] : \E x \in DOMAIN f[n] : f[n][x] = seqs[k][i]
               Good(n) == f[n] \in Seq(S) /\ \A k \in 1 .. n : Holds(k, n)
               Bad == {n \in 1 .. m : ~Good(n)}
    <2>2. Bad = {}
      <3> SUFFICES ASSUME Bad # {} PROVE FALSE
        OBVIOUS
      <3>1. Bad \in SUBSET (0 .. m)
        BY <1>1
      <3>2. PICK n \in Bad : \A j \in Bad : n <= j
        <4> HIDE DEF Bad
        <4> QED
          BY <1>1, <3>1, Least
      <3>3. n \in 1 .. m /\ f[n] = FlattenBody(seqs, f, n)
        BY <2>1, <3>2
      <3>4. CASE n = 1
        BY <1>1, <3>2, <3>3, <3>4 DEF FlattenBody
      <3>5. CASE n # 1
        <4>1. n - 1 \in 1 .. m /\ n - 1 \notin Bad
          <5>1. n - 1 \in 1 .. m /\ ~(n <= n - 1)
            BY <1>1, <3>3, <3>5
          <5> HIDE DEF Bad
          <5> QED
            BY <3>2, <5>1
        <4>2. Good(n - 1)
          <5> HIDE DEF Good
          <5> QED
            BY <4>1
        <4> DEFINE a == f[n - 1]
                   b == seqs[n]
        <4>3. f[n] = a \o b /\ a \in Seq(S) /\ b \in Seq(S)
          BY <1>1, <3>3, <3>5, <4>2 DEF FlattenBody
        <4> HIDE DEF a, b
        <4>4. /\ a \o b \in Seq(S) /\ DOMAIN (a \o b) = 1 .. Len(a) + Len(b)
              /\ \A x \in DOMAIN a : x \in DOMAIN (a \o b) /\ (a \o b)[x] = a[x]
              /\ \A x \in DOMAIN b : /\ Len(a) + x \in DOMAIN (a \o b)
                                     /\ (a \o b)[Len(a) + x] = b[x]
          BY <4>3
        <4>5. ASSUME NEW k \in 1 .. n PROVE Holds(k, n)
          <5>1. CASE k = n
            <6> SUFFICES ASSUME NEW i \in DOMAIN b
                         PROVE  \E x \in DOMAIN f[n] : f[n][x] = b[i]
              BY <5>1 DEF b
            <6> QED
              BY <4>3, <4>4
          <5>2. CASE k # n
            <6>1. k \in 1 .. n - 1
              BY <3>3, <5>2
            <6> SUFFICES ASSUME NEW i \in DOMAIN seqs[k]
                         PROVE  \E x \in DOMAIN f[n] : f[n][x] = seqs[k][i]
              OBVIOUS
            <6>2. PICK x \in DOMAIN a : a[x] = seqs[k][i]
              BY <4>2, <6>1 DEF a
            <6> QED
              BY <4>3, <4>4, <6>2
          <5> QED
            BY <5>1, <5>2
        <4>6. Good(n)
          BY <4>3, <4>4, <4>5
        <4> QED
          BY <3>2, <4>6
      <3> QED
        BY <3>4, <3>5
    <2>3. Good(m)
      BY <1>1, <1>3, <2>2
    <2>4. FlattenSeq(seqs) = f[m]
      BY <2>1
    <2> QED
      BY <1>1, <2>3, <2>4
  <1> QED
    BY <1>2, <1>3

-----------------------------------------------------------------------------
(* What is kept of an evidence_map.                                        *)

LEMMA KeptIs ==
    ASSUME NEW map \in Seq(Seq(Parts))
    PROVE  /\ Kept(map) \in Seq(Parts)
           /\ \A k \in DOMAIN map : \A i \in DOMAIN map[k] : \E j \in DOMAIN Kept(map) :
                In(Normalised(map[k][i]), Normalised(Kept(map)[j]))
           /\ \A i, j \in DOMAIN Kept(map) : i # j =>
                ~In(Normalised(Kept(map)[i]), Normalised(Kept(map)[j]))
           /\ \A i, j \in DOMAIN Kept(map) : i < j =>
                Score(Kept(map)[i]) >= Score(Kept(map)[j])
  <1> DEFINE flat == Flat(map)
             ps == Deduplicated(flat)
             kept == Ranked(ps)
  <1>1. /\ flat \in Seq(Parts)
        /\ \A k \in DOMAIN map : \A i \in DOMAIN map[k] :
             \E n \in DOMAIN flat : flat[n] = map[k][i]
    BY FlattenKeeps DEF Flat
  <1> HIDE DEF flat
  <1>2. /\ ps \in Seq(Parts)
        /\ \A i \in DOMAIN flat : \E k \in DOMAIN ps :
             In(Normalised(flat[i]), Normalised(ps[k]))
        /\ \A k, l \in DOMAIN ps : k # l => ~In(Normalised(ps[k]), Normalised(ps[l]))
    BY <1>1, DeduplicatedKeeps
  <1> HIDE DEF ps
  <1>3. /\ kept \in Seq(Parts) /\ DOMAIN kept = DOMAIN ps
        /\ \A k, l \in DOMAIN ps : k < l => Score(kept[k]) >= Score(kept[l])
    BY <1>2, RankedSorts
  <1>4. PICK o \in [DOMAIN ps -> DOMAIN ps] :
           /\ \A k \in DOMAIN ps : kept[k] = ps[o[k]]
           /\ \A i \in DOMAIN ps : \E k \in DOMAIN ps : o[k] = i
           /\ \A k, l \in DOMAIN ps : k # l => o[k] # o[l]
    BY <1>2, RankedSorts
  <1> HIDE DEF kept
  <1>5. \A k \in DOMAIN map : \A i \in DOMAIN map[k] : \E j \in DOMAIN kept :
            In(Normalised(map[k][i]), Normalised(kept[j]))
    BY <1>1, <1>2, <1>3, <1>4
  <1>6. \A i, j \in DOMAIN kept : i # j => ~In(Normalised(kept[i]), Normalised(kept[j]))
    BY <1>2, <1>3, <1>4
  <1>7. Kept(map) = kept
    BY DEF Kept, kept, ps, flat
  <1> QED
    BY <1>3, <1>5, <1>6, <1>7

-----------------------------------------------------------------------------
(* Joining.                                                                *)

JoinBody(texts, f, n) ==
    IF n = 0 THEN <<>> ELSE IF n = 1 THEN texts[1] ELSE f[n - 1] \o BlankLine \o texts[n]

\* The recursion of Joined has a solution: one for n - 1 texts extends to n.
LEMMA JoinedSolves ==
    ASSUME NEW S, NEW texts \in Seq(S)
    PROVE  Joined(texts) = [n \in 0 .. Len(texts) |-> JoinBody(texts, Joined(texts), n)]
  <1> DEFINE m == Len(texts)
             Solves(f, n) == f = [i \in 0 .. n |-> JoinBody(texts, f, i)]
             Unsolved == {n \in 0 .. m : ~\E f : Solves(f, n)}
  <1>1. m \in Nat
    OBVIOUS
  <1>2. Unsolved = {}
    <2> SUFFICES ASSUME Unsolved # {} PROVE FALSE
      OBVIOUS
    <2>1. PICK n \in Unsolved : \A j \in Unsolved : n <= j
      BY <1>1, Least
    <2>2. n # 0
      <3> DEFINE f == [i \in 0 .. 0 |-> <<>>]
      <3>1. Solves(f, 0)
        BY DEF JoinBody
      <3> QED
        BY <2>1, <3>1
    <2>3. n - 1 \in 0 .. m /\ ~(n <= n - 1) /\ n \in Nat
      BY <1>1, <2>1, <2>2
    <2>4. PICK f : Solves(f, n - 1)
      BY <2>1, <2>3
    <2> DEFINE g == [i \in 0 .. n |-> IF i = n THEN JoinBody(texts, f, n) ELSE f[i]]
    <2>5. ASSUME NEW i \in 0 .. n PROVE g[i] = JoinBody(texts, g, i)
      <3>1. i # 0 => g[i - 1] = f[i - 1]
        BY <2>3
      <3>2. JoinBody(texts, g, i) = JoinBody(texts, f, i)
        BY <3>1 DEF JoinBody
      <3>3. i # n => f[i] = JoinBody(texts, f, i)
        <4>1. i # n => i \in 0 .. n - 1
          BY <2>3
        <4> QED
          BY <2>4, <4>1
      <3> QED
        BY <3>2, <3>3
    <2>6. Solves(g, n)
      BY <2>5
    <2> QED
      BY <2>1, <2>6
  <1>3. PICK f : Solves(f, m)
    BY <1>1, <1>2
  <1>4. Joined(texts) = CHOOSE h : Solves(h, m)
    BY DEF Joined, JoinBody
  <1>5. Solves(Joined(texts), m)
    <2> HIDE DEF Solves
    <2> QED
      BY <1>3, <1>4
  <1> QED
    BY <1>5

LEMMA JoinedStep ==
    ASSUME NEW S, NEW texts \in Seq(S)
    PROVE  /\ Joined(texts)[0] = <<>>
           /\ Len(texts) > 0 => Joined(texts)[1] = texts[1]
           /\ \A n \in 2 .. Len(texts) :
                Joined(texts)[n] = Joined(texts)[n - 1] \o BlankLine \o texts[n]
  <1> DEFINE f == Joined(texts)
  <1>1. Len(texts) \in Nat
    OBVIOUS
  <1>2. f = [n \in 0 .. Len(texts) |-> JoinBody(texts, f, n)]
    BY JoinedSolves
  <1> HIDE DEF f
  <1>3. \A n \in 0 .. Len(texts) : f[n] = JoinBody(texts, f, n)
    BY <1>2
  <1>4. f[0] = <<>>
    BY <1>1, <1>3 DEF JoinBody
  <1>5. Len(texts) > 0 => f[1] = texts[1]
    BY <1>1, <1>3 DEF JoinBody
  <1>6. \A n \in 2 .. Len(texts) : f[n] = f[n - 1] \o BlankLine \o texts[n]
    <2> SUFFICES ASSUME NEW n \in 2 .. Len(texts)
                 PROVE  f[n] = f[n - 1] \o BlankLine \o texts[n]
      OBVIOUS
    <2>1. n \in 0 .. Len(texts) /\ n # 0 /\ n # 1
      BY <1>1
    <2>2. f[n] = JoinBody(texts, f, n)
      BY <1>3, <2>1
    <2> QED
      BY <2>1, <2>2, Zenon DEF JoinBody
  <1> QED
    BY <1>4, <1>5, <1>6 DEF f

LEMMA BlankLineIs ==
    /\ BlankLine \in Texts /\ Len(BlankLine) = 2
    /\ BlankLine[1] = Newline /\ BlankLine[2] = Newline
  BY TextAssumption DEF BlankLine, Texts

\* Every stage of the joining is a text, for texts.
LEMMA JoinedIsText ==
    ASSUME NEW texts \in Seq(Texts), NEW n \in 0 .. Len(texts)
    PROVE  Joined(texts)[n] \in Texts
  <1> DEFINE f == Joined(texts)
             Bad == {i \in 0 .. Len(texts) : f[i] \notin Texts}
  <1>1. Len(texts) \in Nat
    OBVIOUS
  <1>2. /\ f[0] = <<>>
        /\ Len(texts) > 0 => f[1] = texts[1]
        /\ \A i \in 2 .. Len(texts) : f[i] = f[i - 1] \o BlankLine \o texts[i]
    BY JoinedStep
  <1>3. <<>> \in Texts /\ \A i \in 1 .. Len(texts) : texts[i] \in Texts
    BY DEF Texts
  <1> HIDE DEF f
  <1>4. ASSUME Bad # {} PROVE FALSE
    <2>1. PICK i \in Bad : \A j \in Bad : i <= j
      BY <1>1, <1>4, Least
    <2>2. i \in 0 .. Len(texts) /\ f[i] \notin Texts
      BY <2>1
    <2>3. i # 0
      BY <1>2, <1>3, <2>2
    <2>4. i # 1
      BY <1>1, <1>2, <1>3, <2>2
    <2>5. i \in 2 .. Len(texts) /\ i - 1 \in 0 .. Len(texts) /\ ~(i <= i - 1)
      BY <1>1, <2>2, <2>3, <2>4
    <2>6. f[i - 1] \in Texts
      BY <2>1, <2>5
    <2>7. f[i] = f[i - 1] \o BlankLine \o texts[i] /\ texts[i] \in Texts
      <3>1. i \in 1 .. Len(texts)
        BY <1>1, <2>5
      <3> QED
        BY <1>2, <1>3, <2>5, <3>1
    <2>8. f[i] \in Texts
      BY <2>6, <2>7, BlankLineIs DEF Texts
    <2> QED
      BY <2>2, <2>8
  <1>5. f[n] \in Texts
    BY <1>4
  <1> QED
    BY <1>5 DEF f

LEMMA ConcatIs ==
    ASSUME NEW a \in Texts, NEW b \in Texts
    PROVE  /\ a \o b \in Texts /\ Len(a) \in Nat /\ Len(b) \in Nat
           /\ Len(a \o b) = Len(a) + Len(b)
           /\ \A j \in 1 .. Len(a) : (a \o b)[j] = a[j]
           /\ \A j \in 1 .. Len(b) : (a \o b)[Len(a) + j] = b[j]
  <1>1. a \in Seq(Characters) /\ b \in Seq(Characters)
    BY DEF Texts
  <1>2. Len(a) \in Nat /\ Len(b) \in Nat
    BY <1>1
  <1>3. /\ a \o b \in Seq(Characters) /\ Len(a \o b) = Len(a) + Len(b)
        /\ \A i \in 1 .. Len(a) + Len(b) :
             (a \o b)[i] = IF i <= Len(a) THEN a[i] ELSE b[i - Len(a)]
    BY <1>1, ConcatProperties
  <1>4. ASSUME NEW j \in 1 .. Len(a) PROVE (a \o b)[j] = a[j]
    <2>1. j \in 1 .. Len(a) + Len(b) /\ j <= Len(a)
      BY <1>2
    <2> QED
      BY <1>3, <2>1
  <1>5. ASSUME NEW j \in 1 .. Len(b) PROVE (a \o b)[Len(a) + j] = b[j]
    <2>1. Len(a) + j \in 1 .. Len(a) + Len(b) /\ ~(Len(a) + j <= Len(a))
          /\ (Len(a) + j) - Len(a) = j
      BY <1>2
    <2> QED
      BY <1>3, <2>1
  <1> QED
    BY <1>2, <1>3, <1>4, <1>5 DEF Texts

LEMMA SeparatedIs ==
    ASSUME NEW a \in Texts, NEW b \in Texts
    PROVE  LET c == a \o BlankLine \o b
           IN  /\ c \in Texts /\ Len(a) \in Nat /\ Len(b) \in Nat
               /\ Len(c) = Len(a) + 2 + Len(b)
               /\ \A j \in 1 .. Len(a) : c[j] = a[j]
               /\ c[Len(a) + 1] = Newline /\ c[Len(a) + 2] = Newline
               /\ \A j \in 1 .. Len(b) : c[Len(a) + 2 + j] = b[j]
  <1> DEFINE e == BlankLine
             d == a \o e
             c == d \o b
  <1>1. e \in Texts /\ Len(e) = 2 /\ e[1] = Newline /\ e[2] = Newline
    BY BlankLineIs
  <1> HIDE DEF e
  <1>2. /\ d \in Texts /\ Len(a) \in Nat /\ Len(d) = Len(a) + 2
        /\ \A j \in 1 .. Len(a) : d[j] = a[j]
        /\ \A j \in 1 .. 2 : d[Len(a) + j] = e[j]
    <2>1. /\ d \in Texts /\ Len(a) \in Nat /\ Len(d) = Len(a) + Len(e)
          /\ \A j \in 1 .. Len(a) : d[j] = a[j]
          /\ \A j \in 1 .. Len(e) : d[Len(a) + j] = e[j]
      BY <1>1, ConcatIs
    <2> HIDE DEF d
    <2> QED
      BY <1>1, <2>1
  <1> HIDE DEF d
  <1>3. /\ c \in Texts /\ Len(b) \in Nat /\ Len(c) = Len(d) + Len(b)
        /\ \A j \in 1 .. Len(d) : c[j] = d[j]
        /\ \A j \in 1 .. Len(b) : c[Len(d) + j] = b[j]
    BY <1>2, ConcatIs
  <1> HIDE DEF c
  <1>4. \A j \in 1 .. Len(a) : j \in 1 .. Len(d)
    BY <1>2
  <1>5. /\ Len(a) + 1 \in 1 .. Len(d) /\ Len(a) + 2 \in 1 .. Len(d)
        /\ 1 \in 1 .. 2 /\ 2 \in 1 .. 2
    BY <1>2
  <1>6. c[Len(a) + 1] = Newline /\ c[Len(a) + 2] = Newline
    BY <1>1, <1>2, <1>3, <1>5
  <1>7. \A j \in 1 .. Len(a) : c[j] = a[j]
    BY <1>2, <1>3, <1>4
  <1>8. Len(c) = Len(a) + 2 + Len(b) /\ \A j \in 1 .. Len(b) : c[Len(a) + 2 + j] = b[j]
    BY <1>2, <1>3
  <1> QED
    BY <1>2, <1>3, <1>6, <1>7, <1>8 DEF c, d, e

\* One more text: what stood in front stays, and the line that ends it.
LEMMA SeparatedGrows ==
    ASSUME NEW a \in Texts, NEW b \in Texts,
           NEW k \in 0 .. Len(a), k < Len(a) => a[k + 1] = Newline
    PROVE  LET c == a \o BlankLine \o b
           IN  /\ Len(c) \in Nat /\ k + 1 <= Len(c) /\ c[k + 1] = Newline
               /\ \A j \in 1 .. k : c[j] = a[j]
  <1> DEFINE c == a \o BlankLine \o b
  <1>1. /\ Len(a) \in Nat /\ Len(b) \in Nat /\ Len(c) = Len(a) + 2 + Len(b)
        /\ \A j \in 1 .. Len(a) : c[j] = a[j]
        /\ c[Len(a) + 1] = Newline
    BY SeparatedIs
  <1> HIDE DEF c
  <1>2. k + 1 <= Len(c)
    BY <1>1
  <1>3. c[k + 1] = Newline
    <2>1. CASE k = Len(a)
      BY <1>1, <2>1
    <2>2. CASE k # Len(a)
      <3>1. k < Len(a) /\ k + 1 \in 1 .. Len(a)
        BY <1>1, <2>2
      <3> QED
        BY <1>1, <3>1
    <2> QED
      BY <2>1, <2>2
  <1>4. \A j \in 1 .. k : j \in 1 .. Len(a)
    BY <1>1
  <1> QED
    BY <1>1, <1>2, <1>3, <1>4 DEF c

\* What is joined first stands in front, and ends with its line.
LEMMA JoinedGrows ==
    ASSUME NEW texts \in Seq(Texts), NEW m \in 1 .. Len(texts), NEW n \in m .. Len(texts),
           NEW front, front = Joined(texts)[m], NEW whole, whole = Joined(texts)[n]
    PROVE  /\ Len(front) \in Nat /\ Len(whole) \in Nat /\ Len(front) <= Len(whole)
           /\ \A j \in 1 .. Len(front) : whole[j] = front[j]
           /\ n # m => Len(front) + 1 <= Len(whole) /\ whole[Len(front) + 1] = Newline
  <1> DEFINE f == Joined(texts)
             Starts(c) == Len(front) <= Len(c) /\ \A j \in 1 .. Len(front) : c[j] = front[j]
             Ends(c) == Len(front) + 1 <= Len(c) /\ c[Len(front) + 1] = Newline
             Bad == {i \in m .. Len(texts) : ~(Starts(f[i]) /\ (i # m => Ends(f[i])))}
  <1>1. Len(texts) \in Nat /\ m \in Nat
    OBVIOUS
  <1>2. \A i \in 0 .. Len(texts) : f[i] \in Texts
    BY JoinedIsText
  <1>3. \A i \in 2 .. Len(texts) : f[i] = f[i - 1] \o BlankLine \o texts[i]
    BY JoinedStep
  <1>4. front = f[m] /\ whole = f[n]
    OBVIOUS
  <1> HIDE DEF f
  <1>5. front \in Texts /\ Len(front) \in Nat
    BY <1>1, <1>2, <1>4 DEF Texts
  <1>6. ASSUME Bad # {} PROVE FALSE
    <2>1. PICK i \in Bad : \A j \in Bad : i <= j
      <3>1. Bad \in SUBSET (0 .. Len(texts))
        BY <1>1
      <3> HIDE DEF Bad
      <3> QED
        BY <1>1, <1>6, <3>1, Least
    <2>2. i \in m .. Len(texts) /\ ~(Starts(f[i]) /\ (i # m => Ends(f[i])))
      BY <2>1
    <2>3. i # m
      <3>1. Starts(f[m])
        BY <1>4, <1>5
      <3> QED
        BY <2>2, <3>1
    <2>4. /\ i \in 2 .. Len(texts) /\ i - 1 \in m .. Len(texts) /\ i - 1 \in 0 .. Len(texts)
          /\ i \in 1 .. Len(texts) /\ ~(i <= i - 1)
      BY <1>1, <2>2, <2>3
    <2>5. Starts(f[i - 1]) /\ (i - 1 # m => Ends(f[i - 1]))
      BY <2>1, <2>4
    <2> DEFINE a == f[i - 1]
               c == f[i]
    <2>6. a \in Texts /\ texts[i] \in Texts /\ c = a \o BlankLine \o texts[i]
      <3>1. texts[i] \in Texts
        BY <2>4
      <3>2. f[i - 1] \in Texts
        BY <1>2, <2>4
      <3>3. f[i] = f[i - 1] \o BlankLine \o texts[i]
        BY <1>3, <2>4
      <3> QED
        BY <3>1, <3>2, <3>3
    <2>7. Len(a) \in Nat
      BY <2>6 DEF Texts
    <2>8. Starts(a) /\ (i - 1 # m => Ends(a)) /\ (i - 1 = m => a = front)
      BY <1>4, <2>5
    <2>9. Starts(c) /\ Ends(c)
      <3> HIDE DEF a, c
      <3>1. Len(front) \in 0 .. Len(a) /\ (Len(front) < Len(a) => a[Len(front) + 1] = Newline)
        BY <1>5, <2>7, <2>8
      <3> DEFINE b == texts[i]
                 k == Len(front)
      <3>2. a \in Texts /\ b \in Texts /\ c = a \o BlankLine \o b /\ k \in 0 .. Len(a)
            /\ (k < Len(a) => a[k + 1] = Newline)
        BY <2>6, <3>1
      <3> HIDE DEF b, k
      <3>3. /\ Len(c) \in Nat /\ k + 1 <= Len(c) /\ c[k + 1] = Newline
            /\ \A j \in 1 .. k : c[j] = a[j]
        BY <3>2, SeparatedGrows
      <3>4. Len(front) <= Len(c)
        BY <1>5, <3>3 DEF k
      <3>5. \A j \in 1 .. Len(front) : c[j] = front[j]
        BY <2>8, <3>3 DEF k
      <3> QED
        BY <3>3, <3>4, <3>5 DEF k
    <2> QED
      BY <2>2, <2>9
  <1>7. Starts(f[n]) /\ (n # m => Ends(f[n]))
    BY <1>6
  <1>8. n \in 0 .. Len(texts)
    BY <1>1
  <1>9. Len(whole) \in Nat
    BY <1>2, <1>4, <1>8 DEF Texts
  <1> QED
    BY <1>4, <1>5, <1>7, <1>9

\* Joining the first n is the n-th stage of joining all.
LEMMA JoinOfFirst ==
    ASSUME NEW texts \in Seq(Texts), NEW n \in 0 .. Len(texts)
    PROVE  Join(SubSeq(texts, 1, n)) = Joined(texts)[n]
  <1> DEFINE part == SubSeq(texts, 1, n)
             f == Joined(texts)
             g == Joined(part)
             Bad == {i \in 0 .. n : g[i] # f[i]}
  <1>1. /\ Len(texts) \in Nat /\ n \in Nat
        /\ part \in Seq(Texts) /\ Len(part) = n
        /\ \A i \in 1 .. n : part[i] = texts[i]
    <2>1. /\ 1 \in 1 .. Len(texts) + 1 /\ n \in 1 - 1 .. Len(texts) /\ n - 1 + 1 = n
          /\ \A i \in 1 .. n : 1 + i - 1 = i
      OBVIOUS
    <2> QED
      BY <2>1, Slice
  <1> HIDE DEF part
  <1>2. /\ g[0] = <<>> /\ f[0] = <<>>
        /\ n > 0 => g[1] = part[1]
        /\ Len(texts) > 0 => f[1] = texts[1]
        /\ \A i \in 2 .. n : g[i] = g[i - 1] \o BlankLine \o part[i]
        /\ \A i \in 2 .. Len(texts) : f[i] = f[i - 1] \o BlankLine \o texts[i]
    BY <1>1, JoinedStep
  <1> HIDE DEF f, g
  <1>3. ASSUME Bad # {} PROVE FALSE
    <2>1. PICK i \in Bad : \A j \in Bad : i <= j
      BY <1>1, <1>3, Least
    <2>2. i \in 0 .. n /\ g[i] # f[i] /\ i # 0
      BY <1>2, <2>1
    <2>3. i # 1
      BY <1>1, <1>2, <2>2
    <2>4. i \in 2 .. n /\ i \in 2 .. Len(texts) /\ i \in 1 .. n /\ i - 1 \in 0 .. n /\ ~(i <= i - 1)
      BY <1>1, <2>2, <2>3
    <2>5. g[i - 1] = f[i - 1]
      BY <2>1, <2>4
    <2>6. g[i] = f[i]
      BY <1>1, <1>2, <2>4, <2>5
    <2> QED
      BY <2>2, <2>6
  <1>4. n \in 0 .. n
    BY <1>1
  <1>5. g[n] = f[n]
    BY <1>3, <1>4
  <1> QED
    BY <1>1, <1>5 DEF Join, part, f, g

\* Parts joined begin and end with no white space.
LEMMA JoinedEnds ==
    ASSUME NEW texts \in Seq(Parts), NEW n \in 1 .. Len(texts)
    PROVE  LET j == Joined(texts)[n]
           IN  j \in Texts /\ Len(j) \in Nat \ {0} /\ j[1] \notin White /\ j[Len(j)] \notin White
  <1> DEFINE f == Joined(texts)
             j == f[n]
  <1>1. texts \in Seq(Texts) /\ Len(texts) \in Nat /\ n \in Nat
    <2>1. Parts \subseteq Texts
      BY DEF Parts
    <2> QED
      BY <2>1, SeqMonotonic
  <1>2. \A i \in 1 .. Len(texts) : /\ texts[i] \in Texts /\ Len(texts[i]) \in Nat \ {0}
                                   /\ texts[i][1] \notin White
                                   /\ texts[i][Len(texts[i])] \notin White
    <2> SUFFICES ASSUME NEW i \in 1 .. Len(texts)
                 PROVE  /\ texts[i] \in Texts /\ Len(texts[i]) \in Nat \ {0}
                        /\ texts[i][1] \notin White
                        /\ texts[i][Len(texts[i])] \notin White
      OBVIOUS
    <2>1. texts[i] \in Parts
      OBVIOUS
    <2> HIDE DEF Parts
    <2> QED
      BY <2>1, EmptySeq DEF Parts, Texts
  <1>3. \A i \in 0 .. Len(texts) : f[i] \in Texts
    BY <1>1, JoinedIsText
  <1>4. f[1] = texts[1] /\ 1 \in 1 .. Len(texts)
    <2>1. Len(texts) > 0 /\ 1 \in 1 .. Len(texts)
      BY <1>1
    <2> QED
      BY <1>1, <2>1, JoinedStep
  <1>5. \A i \in 2 .. Len(texts) : f[i] = f[i - 1] \o BlankLine \o texts[i]
    BY <1>1, JoinedStep
  <1>6. Len(f[1]) <= Len(j) /\ \A i \in 1 .. Len(f[1]) : j[i] = f[1][i]
    <2>1. 1 \in 1 .. Len(texts) /\ n \in 1 .. Len(texts)
      BY <1>4
    <2> QED
      BY <1>1, <2>1, JoinedGrows
  <1> HIDE DEF f
  <1>7. j \in Texts /\ Len(j) \in Nat
    BY <1>1, <1>3 DEF Texts
  <1>8. Len(j) # 0 /\ j[1] \notin White
    BY <1>2, <1>4, <1>6, <1>7
  <1>9. j[Len(j)] \notin White
    <2>1. CASE n = 1
      BY <1>2, <1>4, <2>1
    <2>2. CASE n # 1
      <3>1. n \in 2 .. Len(texts) /\ n - 1 \in 0 .. Len(texts)
        BY <1>1, <2>2
      <3>2. j = f[n - 1] \o BlankLine \o texts[n] /\ f[n - 1] \in Texts
        BY <1>3, <1>5, <3>1
      <3> DEFINE a == f[n - 1]
                 b == texts[n]
                 c == f[n]
      <3>3. /\ a \in Texts /\ b \in Texts /\ c = a \o BlankLine \o b
            /\ Len(b) \in Nat \ {0} /\ b[Len(b)] \notin White
        BY <1>2, <3>2
      <3> HIDE DEF a, b, c
      <3>4. /\ Len(a) \in Nat /\ Len(c) = Len(a) + 2 + Len(b)
            /\ \A i \in 1 .. Len(b) : c[Len(a) + 2 + i] = b[i]
        BY <3>3, SeparatedIs
      <3>5. Len(b) \in 1 .. Len(b)
        BY <3>3
      <3>6. c[Len(c)] \notin White
        BY <3>3, <3>4, <3>5
      <3> QED
        BY <3>6 DEF c
    <2> QED
      BY <2>1, <2>2
  <1> QED
    BY <1>7, <1>8, <1>9 DEF f

-----------------------------------------------------------------------------
(* The cut.                                                                *)

Solid(t) == {i \in DOMAIN t : t[i] \notin White}

LEMMA StripIs ==
    ASSUME NEW t \in Texts
    PROVE  /\ Strip(t) \in Texts /\ Len(Strip(t)) <= Len(t)
           /\ 1 \in Solid(t) => \E b \in Solid(t) : /\ Strip(t) = SubSeq(t, 1, b)
                                                    /\ \A i \in Solid(t) : i <= b
  <1> DEFINE S == Solid(t)
  <1>1. t \in Seq(Characters) /\ Len(t) \in Nat /\ DOMAIN t = 1 .. Len(t)
    BY DEF Texts
  <1>2. S \in SUBSET Nat /\ S \subseteq 1 .. Len(t)
    BY <1>1 DEF Solid
  <1>3. IsFiniteSet(S)
    <2>1. IsFiniteSet(1 .. Len(t))
      BY <1>1, FS_Interval
    <2> QED
      BY <1>2, <2>1, FS_Subset
  <1>4. Strip(t) = IF S = {} THEN <<>> ELSE SubSeq(t, Min(S), Max(S))
    BY DEF Strip, Solid
  <1> HIDE DEF S
  <1>5. CASE S = {}
    <2>1. Strip(t) = <<>>
      BY <1>4, <1>5
    <2>2. <<>> \in Seq(Characters) /\ Len(<<>>) = 0
      OBVIOUS
    <2> QED
      BY <1>1, <1>5, <2>1, <2>2 DEF Texts, S
  <1>6. CASE S # {}
    <2> DEFINE a == Min(S)
               b == Max(S)
    <2>1. a \in S /\ b \in S /\ (\A i \in S : a <= i) /\ (\A i \in S : i <= b)
      BY <1>2, <1>3, <1>6, Extremes
    <2>2. Strip(t) = SubSeq(t, a, b)
      BY <1>4, <1>6
    <2> HIDE DEF a, b
    <2>3. a \in 1 .. Len(t) + 1 /\ b \in a - 1 .. Len(t) /\ a \in Nat /\ b \in Nat /\ a >= 1
      BY <1>1, <1>2, <2>1
    <2>4. Strip(t) \in Seq(Characters) /\ Len(Strip(t)) = b - a + 1
      BY <1>1, <2>2, <2>3, Slice
    <2>5. Len(Strip(t)) <= Len(t)
      BY <1>1, <2>3, <2>4
    <2>6. 1 \in S => a = 1
      BY <2>1, <2>3
    <2> QED
      BY <2>1, <2>2, <2>4, <2>5, <2>6 DEF Texts, S
  <1> QED
    BY <1>5, <1>6

LEMMA LimitIs == MaxTokens \in Nat /\ CharLimit \in Nat /\ CharLimit = 4 * MaxTokens /\ CharLimit >= 4
  <1>1. MaxTokens \in Nat \ {0}
    BY BudgetAssumption
  <1> QED
    BY <1>1 DEF CharLimit

\* Where the cut is: behind every line that ends within the limit, and not
\* before the middle.
LEMMA CutIs ==
    ASSUME NEW t \in Texts, ~(Len(t) \div 4 <= MaxTokens)
    PROVE  /\ Len(t) > CharLimit
           /\ \E c \in 1 .. CharLimit :
                /\ Trim(t) = Strip(SubSeq(t, 1, c))
                /\ c = CharLimit \/ 2 * (c - 1) > CharLimit
                /\ \A i \in 1 .. CharLimit : t[i] = Newline => i <= c
  <1> DEFINE L == CharLimit
             head == SubSeq(t, 1, L)
             breaks == {i \in DOMAIN head : head[i] \in {Stop, Newline}}
             last == LastBreak(head)
  <1>1. t \in Seq(Characters) /\ Len(t) \in Nat
    BY DEF Texts
  <1>2. L \in Nat /\ L >= 4 /\ L = 4 * MaxTokens /\ MaxTokens \in Nat
    BY LimitIs
  <1>3. Len(t) > L
    <2>1. ASSUME NEW n \in Nat, NEW m \in Nat, ~(n \div 4 <= m) PROVE n > 4 * m
      BY <2>1
    <2> QED
      BY <1>1, <1>2, <2>1
  <1>4. Trim(t) = Strip(IF 2 * (last - 1) > L THEN SubSeq(head, 1, last) ELSE head)
    BY DEF Trim
  <1>5. /\ head \in Seq(Characters) /\ Len(head) = L
        /\ \A i \in 1 .. L : head[i] = t[i]
    <2>1. /\ 1 \in 1 .. Len(t) + 1 /\ L \in 1 - 1 .. Len(t) /\ L - 1 + 1 = L
          /\ \A i \in 1 .. L : 1 + i - 1 = i
      BY <1>1, <1>2, <1>3
    <2> HIDE DEF L
    <2> QED
      BY <1>1, <2>1, Slice
  <1>6. last \in {0} \cup breaks /\ \A i \in breaks : i <= last
    <2> DEFINE S == {0} \cup breaks
    <2>1. breaks \subseteq 1 .. L /\ S \in SUBSET (0 .. L) /\ S \in SUBSET Nat /\ S # {}
      BY <1>2, <1>5
    <2>2. last = Max(S)
      BY DEF LastBreak
    <2> HIDE DEF S, last, L
    <2>3. IsFiniteSet(0 .. L)
      BY <1>2, FS_Interval
    <2>4. IsFiniteSet(S)
      BY <2>1, <2>3, FS_Subset
    <2>5. Max(S) \in S /\ \A i \in S : i <= Max(S)
      BY <2>1, <2>4, Extremes
    <2> QED
      BY <2>2, <2>5 DEF S
  <1>7. \A i \in 1 .. L : t[i] = Newline => i \in breaks
    BY <1>2, <1>5
  <1>8. last \in 0 .. L
    BY <1>2, <1>5, <1>6
  <1> HIDE DEF head, breaks, last, L
  <1>9. CASE 2 * (last - 1) > L
    <2>1. last \in 1 .. L
      BY <1>2, <1>8, <1>9
    <2>2. Trim(t) = Strip(SubSeq(head, 1, last))
      BY <1>4, <1>9
    <2>3. SubSeq(head, 1, last) = SubSeq(t, 1, last)
      <3>1. /\ 1 \in 1 .. Len(t) + 1 /\ last \in 1 - 1 .. Len(t)
            /\ 1 \in 1 .. Len(head) + 1 /\ last \in 1 - 1 .. Len(head)
            /\ last - 1 + 1 = last /\ \A i \in 1 .. last : 1 + i - 1 = i /\ i \in 1 .. L
        BY <1>1, <1>2, <1>3, <1>5, <2>1
      <3>2. /\ SubSeq(head, 1, last) \in Seq(Characters) /\ Len(SubSeq(head, 1, last)) = last
            /\ \A i \in 1 .. last : SubSeq(head, 1, last)[i] = head[i]
        BY <1>5, <3>1, Slice
      <3>3. /\ SubSeq(t, 1, last) \in Seq(Characters) /\ Len(SubSeq(t, 1, last)) = last
            /\ \A i \in 1 .. last : SubSeq(t, 1, last)[i] = t[i]
        BY <1>1, <3>1, Slice
      <3>4. \A i \in 1 .. last : head[i] = t[i]
        BY <1>5, <3>1
      <3> QED
        BY <3>2, <3>3, <3>4, SeqEqual
    <2>4. \A i \in 1 .. L : t[i] = Newline => i <= last
      BY <1>6, <1>7
    <2> QED
      BY <1>3, <1>9, <2>1, <2>2, <2>3, <2>4 DEF L
  <1>10. CASE ~(2 * (last - 1) > L)
    <2>1. Trim(t) = Strip(head)
      BY <1>4, <1>10
    <2>2. L \in 1 .. L /\ \A i \in 1 .. L : i <= L
      BY <1>2
    <2> QED
      BY <1>3, <2>1, <2>2 DEF L, head
  <1> QED
    BY <1>9, <1>10

LEMMA ShortStays ==
    ASSUME NEW t \in Texts, Len(t) \div 4 <= MaxTokens
    PROVE  Trim(t) = t /\ Len(t) <= CharLimit + 3
  <1>1. Len(t) \in Nat
    BY DEF Texts
  <1>2. ASSUME NEW n \in Nat, NEW m \in Nat, n \div 4 <= m PROVE n <= 4 * m + 3
    BY <1>2
  <1>3. Len(t) <= CharLimit + 3
    BY <1>1, <1>2, LimitIs
  <1> QED
    BY <1>3 DEF Trim

LEMMA FrontIs ==
    ASSUME NEW t \in Texts, NEW c \in 0 .. Len(t)
    PROVE  /\ SubSeq(t, 1, c) \in Texts /\ Len(SubSeq(t, 1, c)) = c
           /\ \A i \in 1 .. c : SubSeq(t, 1, c)[i] = t[i]
  <1>1. /\ t \in Seq(Characters) /\ 1 \in 1 .. Len(t) + 1 /\ c \in 1 - 1 .. Len(t)
        /\ c - 1 + 1 = c /\ \A i \in 1 .. c : 1 + i - 1 = i
    BY DEF Texts
  <1> QED
    BY <1>1, Slice DEF Texts

LEMMA TrimmedFits ==
    ASSUME NEW t \in Texts
    PROVE  Trim(t) \in Texts /\ Len(Trim(t)) <= CharLimit + 3
  <1>1. CASE Len(t) \div 4 <= MaxTokens
    BY <1>1, ShortStays
  <1>2. CASE ~(Len(t) \div 4 <= MaxTokens)
    <2>1. PICK c \in 1 .. CharLimit : Trim(t) = Strip(SubSeq(t, 1, c))
      BY <1>2, CutIs
    <2>2. c \in 0 .. Len(t)
      <3>1. Len(t) > CharLimit /\ Len(t) \in Nat /\ CharLimit \in Nat
        BY <1>2, CutIs, LimitIs DEF Texts
      <3> QED
        BY <3>1
    <2>3. SubSeq(t, 1, c) \in Texts /\ Len(SubSeq(t, 1, c)) = c
      BY <2>2, FrontIs
    <2>4. Trim(t) \in Texts /\ Len(Trim(t)) <= c
      BY <2>1, <2>3, StripIs
    <2>5. Len(Trim(t)) \in Nat
      BY <2>4 DEF Texts
    <2> QED
      BY <2>4, <2>5, LimitIs
  <1> QED
    BY <1>1, <1>2

\* What is left when a text is cut that begins with a solid character: all up
\* to its last solid character before the cut.
LEMMA CutLeaves ==
    ASSUME NEW t \in Texts, ~(Len(t) \div 4 <= MaxTokens), t[1] \notin White
    PROVE  \E c \in 1 .. CharLimit : \E b \in 1 .. c :
              /\ Trim(t) = SubSeq(t, 1, b)
              /\ \A i \in 1 .. c : t[i] \notin White => i <= b
              /\ c = CharLimit \/ 2 * (c - 1) > CharLimit
              /\ \A i \in 1 .. CharLimit : t[i] = Newline => i <= c
              /\ c <= Len(t)
  <1>1. PICK c \in 1 .. CharLimit :
           /\ Trim(t) = Strip(SubSeq(t, 1, c))
           /\ c = CharLimit \/ 2 * (c - 1) > CharLimit
           /\ \A i \in 1 .. CharLimit : t[i] = Newline => i <= c
    BY CutIs
  <1>2. c \in 0 .. Len(t) /\ c <= Len(t) /\ c \in Nat /\ c >= 1
    <2>1. Len(t) > CharLimit /\ Len(t) \in Nat /\ CharLimit \in Nat
      BY CutIs, LimitIs DEF Texts
    <2> QED
      BY <2>1
  <1> DEFINE u == SubSeq(t, 1, c)
  <1>3. u \in Texts /\ Len(u) = c /\ \A i \in 1 .. c : u[i] = t[i]
    BY <1>2, FrontIs
  <1>4. Trim(t) = Strip(u)
    BY <1>1
  <1> HIDE DEF u
  <1>5. Solid(u) = {i \in 1 .. c : t[i] \notin White}
    <2>1. DOMAIN u = 1 .. c
      BY <1>3 DEF Texts
    <2> QED
      BY <1>3, <2>1 DEF Solid
  <1>6. 1 \in Solid(u)
    BY <1>2, <1>5
  <1>7. PICK b \in Solid(u) : Strip(u) = SubSeq(u, 1, b) /\ \A i \in Solid(u) : i <= b
    BY <1>3, <1>6, StripIs
  <1>8. b \in 1 .. c
    BY <1>5
  <1>9. SubSeq(u, 1, b) = SubSeq(t, 1, b)
    <2>1. b \in 0 .. Len(u) /\ b \in 0 .. Len(t) /\ \A i \in 1 .. b : i \in 1 .. c
      BY <1>2, <1>3, <1>8
    <2>2. /\ SubSeq(u, 1, b) \in Texts /\ Len(SubSeq(u, 1, b)) = b
          /\ \A i \in 1 .. b : SubSeq(u, 1, b)[i] = u[i]
      BY <1>3, <2>1, FrontIs
    <2>3. /\ SubSeq(t, 1, b) \in Texts /\ Len(SubSeq(t, 1, b)) = b
          /\ \A i \in 1 .. b : SubSeq(t, 1, b)[i] = t[i]
      BY <2>1, FrontIs
    <2>4. \A i \in 1 .. b : u[i] = t[i]
      BY <1>3, <2>1
    <2> QED
      BY <2>2, <2>3, <2>4, SeqEqual DEF Texts
  <1>10. \A i \in 1 .. c : t[i] \notin White => i <= b
    BY <1>5, <1>7
  <1> QED
    BY <1>1, <1>2, <1>4, <1>7, <1>8, <1>9, <1>10

LEMMA JoinIsText ==
    ASSUME NEW texts \in Seq(Texts)
    PROVE  Join(texts) \in Texts /\ Len(Join(texts)) \in Nat /\ (Len(texts) = 0 => Join(texts) = <<>>)
  <1>1. Len(texts) \in 0 .. Len(texts)
    OBVIOUS
  <1>2. Join(texts) \in Texts
    BY <1>1, JoinedIsText DEF Join
  <1>3. Len(texts) = 0 => Join(texts) = <<>>
    BY JoinedStep DEF Join
  <1> QED
    BY <1>2, <1>3 DEF Texts

LEMMA PartsAreListsOfTexts == ASSUME NEW texts \in Seq(Parts) PROVE texts \in Seq(Texts)
  <1>1. Parts \subseteq Texts
    BY DEF Parts
  <1> QED
    BY <1>1, SeqMonotonic

\* Whatever the cut does, the parts that end before the limit stay, whole.
LEMMA FrontStays ==
    ASSUME NEW texts \in Seq(Parts), NEW n \in 1 .. Len(texts),
           Len(Join(SubSeq(texts, 1, n))) < CharLimit
    PROVE  IsPrefix(Join(SubSeq(texts, 1, n)), Trim(Join(texts)))
  <1> DEFINE front == Join(SubSeq(texts, 1, n))
             whole == Join(texts)
             k == Len(front)
  <1>1. texts \in Seq(Texts) /\ Len(texts) \in Nat /\ n \in 0 .. Len(texts)
        /\ n \in 1 .. Len(texts) /\ Len(texts) \in n .. Len(texts) /\ Len(texts) \in 1 .. Len(texts)
    BY PartsAreListsOfTexts
  <1>2. front = Joined(texts)[n] /\ whole = Joined(texts)[Len(texts)]
    BY <1>1, JoinOfFirst DEF Join
  <1> HIDE DEF front, whole
  <1>3. /\ front \in Texts /\ k \in Nat \ {0} /\ front[k] \notin White
        /\ whole \in Texts /\ whole[1] \notin White
    BY <1>1, <1>2, JoinedEnds
  <1>4. /\ Len(whole) \in Nat /\ k <= Len(whole)
        /\ \A j \in 1 .. k : whole[j] = front[j]
        /\ n # Len(texts) => k + 1 <= Len(whole) /\ whole[k + 1] = Newline
    BY <1>1, <1>2, JoinedGrows
  <1>5. k < CharLimit
    BY DEF front
  <1>6. ASSUME NEW b \in k .. Len(whole)
        PROVE  IsPrefix(front, SubSeq(whole, 1, b))
    <2> DEFINE u == SubSeq(whole, 1, b)
    <2>1. b \in 0 .. Len(whole) /\ b \in Nat /\ k <= b /\ \A j \in 1 .. k : j \in 1 .. b
      BY <1>3, <1>4
    <2>2. u \in Texts /\ Len(u) = b /\ \A j \in 1 .. b : u[j] = whole[j]
      BY <1>3, <2>1, FrontIs
    <2> HIDE DEF u
    <2>3. k \in 0 .. Len(u) /\ k \in 0 .. Len(front)
      BY <1>3, <2>1, <2>2
    <2>4. /\ SubSeq(u, 1, k) \in Texts /\ Len(SubSeq(u, 1, k)) = k
          /\ \A j \in 1 .. k : SubSeq(u, 1, k)[j] = u[j]
      BY <2>2, <2>3, FrontIs
    <2>5. /\ SubSeq(front, 1, k) \in Texts /\ Len(SubSeq(front, 1, k)) = k
          /\ \A j \in 1 .. k : SubSeq(front, 1, k)[j] = front[j]
      BY <1>3, <2>3, FrontIs
    <2>6. \A j \in 1 .. k : SubSeq(front, 1, k)[j] = SubSeq(u, 1, k)[j]
      BY <1>4, <2>1, <2>2, <2>4, <2>5
    <2>7. SubSeq(front, 1, k) = SubSeq(u, 1, k)
      BY <2>4, <2>5, <2>6, SeqEqual DEF Texts
    <2> QED
      BY <2>1, <2>2, <2>7 DEF IsPrefix, u
  <1>7. CASE Len(whole) \div 4 <= MaxTokens
    <2>1. Trim(whole) = whole
      BY <1>3, <1>7, ShortStays
    <2>2. Len(whole) \in 0 .. Len(whole) /\ Len(whole) \in k .. Len(whole)
      BY <1>3, <1>4
    <2>3. SubSeq(whole, 1, Len(whole)) = whole
      <3>1. /\ SubSeq(whole, 1, Len(whole)) \in Texts
            /\ Len(SubSeq(whole, 1, Len(whole))) = Len(whole)
            /\ \A i \in 1 .. Len(whole) : SubSeq(whole, 1, Len(whole))[i] = whole[i]
        BY <1>3, <2>2, FrontIs
      <3> QED
        BY <1>3, <3>1, SeqEqual DEF Texts
    <2>4. IsPrefix(front, SubSeq(whole, 1, Len(whole)))
      BY <1>6, <2>2
    <2> QED
      BY <2>1, <2>3, <2>4 DEF front, whole
  <1>8. CASE ~(Len(whole) \div 4 <= MaxTokens)
    <2>1. PICK c \in 1 .. CharLimit : \E b \in 1 .. c :
             /\ Trim(whole) = SubSeq(whole, 1, b)
             /\ \A i \in 1 .. c : whole[i] \notin White => i <= b
             /\ c = CharLimit \/ 2 * (c - 1) > CharLimit
             /\ \A i \in 1 .. CharLimit : whole[i] = Newline => i <= c
             /\ c <= Len(whole)
      BY <1>3, <1>8, CutLeaves
    <2>2. PICK b \in 1 .. c : /\ Trim(whole) = SubSeq(whole, 1, b)
                              /\ \A i \in 1 .. c : whole[i] \notin White => i <= b
      BY <2>1
    <2>3. n # Len(texts)
      <3>1. Len(whole) > CharLimit
        BY <1>3, <1>8, CutIs
      <3>2. front # whole
        BY <1>3, <1>5, <3>1, LimitIs
      <3> QED
        BY <1>2, <3>2
    <2>4. k + 1 \in 1 .. CharLimit /\ whole[k + 1] = Newline
      BY <1>3, <1>4, <1>5, <2>3, LimitIs
    <2>5. k + 1 <= c
      BY <2>1, <2>4
    <2>6. k \in 1 .. c /\ k \in 1 .. k
      BY <1>3, <2>1, <2>5, LimitIs
    <2>7. k <= b
      BY <1>3, <1>4, <2>2, <2>6
    <2>8. b \in k .. Len(whole)
      BY <1>3, <1>4, <2>1, <2>2, <2>7, LimitIs
    <2> QED
      BY <1>6, <2>2, <2>8 DEF front, whole
  <1> QED
    BY <1>7, <1>8

\* The cut takes the end of a text that is too long, and nothing but white space
\* of the first half of the budget: it falls in the second.
LEMMA HalfStays ==
    ASSUME NEW texts \in Seq(Parts)
    PROVE  LET whole == Join(texts)
           IN  /\ Len(whole) <= CharLimit + 3 => Trim(whole) = whole
               /\ IsPrefix(Trim(whole), whole)
               /\ \A i \in DOMAIN whole :
                    (2 * i <= CharLimit /\ whole[i] \notin White) => i <= Len(Trim(whole))
  <1> DEFINE t == Join(texts)
             n == Len(texts)
  <1>1. texts \in Seq(Texts) /\ n \in Nat
    BY PartsAreListsOfTexts
  <1>2. t \in Texts /\ Len(t) \in Nat /\ DOMAIN t = 1 .. Len(t) /\ (n = 0 => t = <<>>)
    BY <1>1, JoinIsText DEF Texts
  <1>3. Len(t) <= CharLimit + 3 => Len(t) \div 4 <= MaxTokens
    <2>1. ASSUME NEW l \in Nat, NEW m \in Nat, l <= 4 * m + 3 PROVE l \div 4 <= m
      BY <2>1
    <2> HIDE DEF t
    <2> QED
      BY <1>2, <2>1, LimitIs
  <1>4. CASE Len(t) \div 4 <= MaxTokens
    <2>1. Trim(t) = t
      BY <1>2, <1>4, ShortStays
    <2> HIDE DEF t
    <2>2. IsPrefix(t, t)
      BY <1>2 DEF IsPrefix
    <2> QED
      BY <1>2, <2>1, <2>2 DEF t
  <1>5. CASE ~(Len(t) \div 4 <= MaxTokens)
    <2>1. Len(t) > CharLimit /\ CharLimit \in Nat /\ CharLimit >= 4
      BY <1>2, <1>5, CutIs, LimitIs
    <2>2. n \in 1 .. n
      <3>1. Len(<<>>) = 0
        OBVIOUS
      <3>2. n # 0
        BY <1>2, <2>1, <3>1
      <3> QED
        BY <1>1, <3>2
    <2>3. t[1] \notin White
      BY <2>2, JoinedEnds DEF Join
    <2> HIDE DEF t, n
    <2>4. PICK c \in 1 .. CharLimit : \E b \in 1 .. c :
             /\ Trim(t) = SubSeq(t, 1, b)
             /\ \A i \in 1 .. c : t[i] \notin White => i <= b
             /\ c = CharLimit \/ 2 * (c - 1) > CharLimit
             /\ c <= Len(t)
      BY <1>2, <1>5, <2>3, CutLeaves
    <2>5. PICK b \in 1 .. c : /\ Trim(t) = SubSeq(t, 1, b)
                              /\ \A i \in 1 .. c : t[i] \notin White => i <= b
      BY <2>4
    <2>6. c \in Nat /\ b \in Nat /\ b \in 0 .. Len(t) /\ b <= Len(t)
      BY <1>2, <2>1, <2>4, <2>5
    <2>7. Trim(t) \in Texts /\ Len(Trim(t)) = b
      BY <1>2, <2>5, <2>6, FrontIs
    <2>8. IsPrefix(Trim(t), t)
      <3>1. SubSeq(Trim(t), 1, b) = SubSeq(t, 1, b)
        <4>1. b \in 0 .. Len(Trim(t))
          BY <2>6, <2>7
        <4>2. /\ SubSeq(Trim(t), 1, b) \in Texts /\ Len(SubSeq(Trim(t), 1, b)) = b
              /\ \A i \in 1 .. b : SubSeq(Trim(t), 1, b)[i] = Trim(t)[i]
          BY <2>7, <4>1, FrontIs
        <4> QED
          BY <2>5, <2>7, <4>2, SeqEqual DEF Texts
      <3> QED
        BY <2>6, <2>7, <3>1 DEF IsPrefix
    <2>9. ASSUME NEW i \in 1 .. Len(t), 2 * i <= CharLimit, t[i] \notin White
          PROVE  i <= b
      <3>1. i \in 1 .. c
        BY <1>2, <2>1, <2>4, <2>6, <2>9
      <3> QED
        BY <2>5, <2>9, <3>1
    <2> QED
      BY <1>2, <1>3, <1>5, <2>7, <2>8, <2>9 DEF t
  <1> QED
    BY <1>4, <1>5

-----------------------------------------------------------------------------
(* The invariant.  It says where the texts of a state come from; what they *)
(* are follows from the lemmas.                                            *)

Retrieved == evidence_map \in Retrievals \cup {<<>>}

AnswerStands == Fresh => aggregated = Aggregate(evidence_map)

\* Each variable holds what it is meant to hold: a text for the judge in
\* particular, also where the mediator wrote it.
TypeOK ==
    /\ step \in {"retrieve", "aggregate", "mediate", "judge"}
    /\ evidence_map \in Seq(Seq(Parts))
    /\ aggregated \in Texts
    /\ mediation \in {"none", "analysed", "skipped"}

IInv == TypeOK /\ Retrieved /\ AnswerStands

LEMMA SectionsAreText ==
    ASSUME evidence_map \in Seq(Seq(Parts)) PROVE Sections \in Texts
  <1> DEFINE section(k) == Heading \o Join(evidence_map[k])
  <1>1. \A k \in DOMAIN evidence_map : section(k) \in Texts
    <2> SUFFICES ASSUME NEW k \in DOMAIN evidence_map PROVE section(k) \in Texts
      OBVIOUS
    <2>1. evidence_map[k] \in Seq(Parts)
      OBVIOUS
    <2>2. Join(evidence_map[k]) \in Texts
      BY <2>1, PartsAreListsOfTexts, JoinIsText
    <2> QED
      BY <2>2, TextAssumption, ConcatIs
  <1> HIDE DEF section
  <1>2. Len(evidence_map) \in Nat /\ DOMAIN evidence_map = 1 .. Len(evidence_map)
    OBVIOUS
  <1>3. [k \in DOMAIN evidence_map |-> section(k)] \in Seq(Texts)
    BY <1>1, <1>2
  <1>4. Join([k \in DOMAIN evidence_map |-> section(k)]) \in Texts
    BY <1>3, JoinIsText
  <1> QED
    BY <1>4 DEF Sections, section

LEMMA AggregateIsText ==
    ASSUME NEW map \in Seq(Seq(Parts))
    PROVE  /\ Kept(map) \in Seq(Parts) /\ Join(Kept(map)) \in Texts
           /\ Aggregate(map) = Trim(Join(Kept(map))) /\ Aggregate(map) \in Texts
           /\ Len(Aggregate(map)) <= CharLimit + 3
  <1>1. Kept(map) \in Seq(Parts)
    BY KeptIs
  <1>2. Join(Kept(map)) \in Texts
    BY <1>1, PartsAreListsOfTexts, JoinIsText
  <1> QED
    BY <1>1, <1>2, TrimmedFits DEF Aggregate

LEMMA InitHolds == Init => IInv
  <1> SUFFICES ASSUME Init PROVE IInv
    OBVIOUS
  <1>1. <<>> \in Seq(Seq(Parts)) /\ <<>> \in Texts
    BY DEF Texts
  <1> QED
    BY <1>1 DEF Init, IInv, TypeOK, Retrieved, AnswerStands, Fresh

LEMMA StepHolds == IInv /\ [Next]_vars => IInv'
  <1> SUFFICES ASSUME IInv, [Next]_vars PROVE IInv'
    OBVIOUS
  <1>1. TypeOK /\ Retrieved /\ AnswerStands
    BY DEF IInv
  <1>2. <<>> \in Seq(Seq(Parts)) /\ <<>> \in Texts
    BY DEF Texts
  <1>3. CASE Retrieve
    <2>1. evidence_map' \in Seq(Seq(Parts))
      BY <1>3, TextAssumption DEF Retrieve
    <2> QED
      BY <1>1, <1>3, <2>1 DEF Retrieve, IInv, TypeOK, Retrieved, AnswerStands, Fresh
  <1>4. CASE AggregateEvidence
    <2>1. Aggregate(evidence_map) \in Texts
      BY <1>1, AggregateIsText DEF TypeOK
    <2>2. /\ aggregated' = Aggregate(evidence_map) /\ evidence_map' = evidence_map
          /\ mediation' = mediation /\ step' \in {"mediate", "judge"}
      BY <1>4 DEF AggregateEvidence
    <2>3. AnswerStands'
      BY <2>2 DEF AnswerStands
    <2> QED
      BY <1>1, <2>1, <2>2, <2>3 DEF IInv, TypeOK, Retrieved
  <1>5. CASE Mediate
    <2>1. Sections \in Texts
      BY <1>1, SectionsAreText DEF TypeOK
    <2>2. Insight \o BlankLine \o Sections \in Texts
      BY <2>1, TextAssumption, SeparatedIs
    <2>3. /\ step' = "judge" /\ evidence_map' = evidence_map
          /\ mediation' \in {"analysed", "skipped"} /\ aggregated' \in Texts
      BY <1>5, <2>1, <2>2 DEF Mediate
    <2> QED
      BY <1>1, <2>3 DEF IInv, TypeOK, Retrieved, AnswerStands, Fresh
  <1>6. CASE Judge
    BY <1>1, <1>2, <1>6 DEF Judge, IInv, TypeOK, Retrieved, AnswerStands, Fresh
  <1>7. CASE UNCHANGED vars
    BY <1>1, <1>7 DEF vars, IInv, TypeOK, Retrieved, AnswerStands, Fresh
  <1> QED
    BY <1>3, <1>4, <1>5, <1>6, <1>7 DEF Next

LEMMA InvariantHolds == Spec => []IInv
  BY InitHolds, StepHolds, PTL DEF Spec

\* The judge is always given a text, whoever made it.
THEOREM TypeCorrect == Spec => []TypeOK
  <1>1. IInv => TypeOK
    BY DEF IInv
  <1> QED
    BY <1>1, InvariantHolds, PTL

\* Whatever a source said is still said by a part that the aggregator keeps.
THEOREM NothingIsLost == Spec => []NothingLost
  <1>1. IInv => NothingLost
    BY KeptIs DEF IInv, TypeOK, NothingLost
  <1> QED
    BY <1>1, InvariantHolds, PTL

\* No two parts that are kept say the same.
THEOREM NothingIsSaidTwice == Spec => []NoneRedundant
  <1>1. IInv => NoneRedundant
    BY KeptIs DEF IInv, TypeOK, NoneRedundant
  <1> QED
    BY <1>1, InvariantHolds, PTL

\* The aggregator's answer is never longer than the budget, but for what is
\* lost in rounding, and whatever white space the evidence has, of a text beyond
\* the budget nothing solid in the first half is lost.
THEOREM BudgetIsKept == Spec => []BudgetKept
  <1>1. IInv => BudgetKept
    <2>1. ASSUME IInv, Fresh
          PROVE  /\ Kept(evidence_map) \in Seq(Parts) /\ Len(aggregated) <= CharLimit + 3
                 /\ aggregated = Trim(Join(Kept(evidence_map)))
      BY <2>1, AggregateIsText DEF IInv, TypeOK, AnswerStands
    <2> QED
      BY <2>1, HalfStays DEF BudgetKept
  <1> QED
    BY <1>1, InvariantHolds, PTL

\* As many of the best parts as end below the limit are there, whole and in
\* front, wherever the cut falls.
THEOREM BestAreKeptWhole == Spec => []BestKeptWhole
  <1>1. IInv => BestKeptWhole
    <2> SUFFICES ASSUME IInv, Fresh, NEW n \in DOMAIN Kept(evidence_map),
                        Len(Join(SubSeq(Kept(evidence_map), 1, n))) < CharLimit
                 PROVE  /\ IsPrefix(Join(SubSeq(Kept(evidence_map), 1, n)), aggregated)
                        /\ \A i \in 1 .. n : \A j \in n + 1 .. Len(Kept(evidence_map)) :
                             Score(Kept(evidence_map)[i]) >= Score(Kept(evidence_map)[j])
      BY DEF BestKeptWhole
    <2> DEFINE kept == Kept(evidence_map)
    <2>1. evidence_map \in Seq(Seq(Parts)) /\ aggregated = Aggregate(evidence_map)
      BY DEF IInv, TypeOK, AnswerStands
    <2>2. /\ kept \in Seq(Parts) /\ aggregated = Trim(Join(kept))
          /\ \A i, j \in DOMAIN kept : i < j => Score(kept[i]) >= Score(kept[j])
      BY <2>1, AggregateIsText, KeptIs
    <2>3. n \in DOMAIN kept /\ Len(Join(SubSeq(kept, 1, n))) < CharLimit
      OBVIOUS
    <2> HIDE DEF kept
    <2>4. n \in 1 .. Len(kept) /\ Len(kept) \in Nat /\ DOMAIN kept = 1 .. Len(kept)
      BY <2>2, <2>3
    <2>5. IsPrefix(Join(SubSeq(kept, 1, n)), aggregated)
      BY <2>2, <2>3, <2>4, FrontStays
    <2>6. ASSUME NEW i \in 1 .. n, NEW j \in n + 1 .. Len(kept)
          PROVE  Score(kept[i]) >= Score(kept[j])
      <3>1. i \in DOMAIN kept /\ j \in DOMAIN kept /\ i < j
        BY <2>4
      <3> QED
        BY <2>2, <3>1
    <2> QED
      BY <2>5, <2>6 DEF kept
  <1> QED
    BY <1>1, InvariantHolds, PTL

=============================================================================
