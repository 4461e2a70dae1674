------------------------- MODULE HistoryPagesProofs -------------------------
(***************************************************************************)
(* For any limit and any number of records: a client that reads the pages  *)
(* of its history to the end misses no record that was there when it began, *)
(* and is given records twice only for records that have come meanwhile.   *)
(***************************************************************************)
EXTENDS HistoryPages, FiniteSetTheorems, TLAPS

\* The place of a record in the list, newest first.
Rank(n) == Cardinality(Newer(n))

-----------------------------------------------------------------------------
\* Places.  These lemmas are about one state: history is a finite set.

LEMMA HistoryFinite ==
    ASSUME TypeOK
    PROVE  /\ history \subseteq Nat /\ IsFiniteSet(history)
           /\ Cardinality(history) \in Nat
           /\ \A n \in history : Rank(n) \in 0 .. Cardinality(history) - 1
<1>0. MaxRecords \in Nat /\ stamped \in Nat
  BY HistoryAssumption DEF TypeOK
<1>1. history \subseteq Nat /\ IsFiniteSet(history)
  <2>1. history \in SUBSET (1 .. stamped) /\ IsFiniteSet(1 .. stamped)
    BY <1>0, FS_Interval DEF TypeOK
  <2>2. history \subseteq Nat
    BY <1>0, <2>1
  <2> QED
    BY <2>1, <2>2, FS_Subset
<1>2. Cardinality(history) \in Nat
  BY <1>1, FS_CardinalityType
<1>3. ASSUME NEW n \in history PROVE Rank(n) \in 0 .. Cardinality(history) - 1
  <2>1. Newer(n) \in SUBSET history /\ n \notin Newer(n)
    BY <1>1 DEF Newer
  <2>2. IsFiniteSet(Newer(n)) /\ Rank(n) <= Cardinality(history)
    BY <1>1, <2>1, FS_Subset DEF Rank
  <2>3. Rank(n) # Cardinality(history)
    BY <1>1, <2>1, FS_Subset DEF Rank
  <2>4. Rank(n) \in Nat
    BY <2>2, FS_CardinalityType DEF Rank
  <2> QED
    BY <1>2, <2>2, <2>3, <2>4
<1> QED
  BY <1>1, <1>2, <1>3

\* A newer record comes before an older one.
LEMMA RankFalls ==
    ASSUME TypeOK, NEW n \in history, NEW m \in history, m > n
    PROVE  Rank(m) < Rank(n)
<1>1. Newer(m) \in SUBSET Newer(n) /\ m \in Newer(n) /\ m \notin Newer(m)
  BY HistoryFinite DEF Newer
<1>2. IsFiniteSet(Newer(n))
  BY HistoryFinite, FS_Subset DEF Newer
<1>3. Rank(m) <= Rank(n) /\ Rank(m) # Rank(n)
  BY <1>1, <1>2, FS_Subset DEF Rank
<1> QED
  BY <1>3, HistoryFinite

\* The records in places a to b - 1.
Band(a, b) == {n \in history : Rank(n) \in a .. b - 1}

\* No two records have the same place, and every place is taken.
LEMMA BandSize ==
    ASSUME TypeOK, NEW a \in Nat, NEW b \in Nat, a <= b
    PROVE  /\ IsFiniteSet(Band(a, b))
           /\ Cardinality(Band(a, b)) \in 0 .. b - a
           /\ b <= Cardinality(history) => Cardinality(Band(a, b)) = b - a
<1> DEFINE place == [n \in history |-> Rank(n)]
           places == [n \in Band(a, b) |-> Rank(n)]
           count == Cardinality(history)
<1>1. \A n, m \in history : Rank(n) = Rank(m) => n = m
  <2> SUFFICES ASSUME NEW n \in history, NEW m \in history, Rank(n) = Rank(m) PROVE n = m
    OBVIOUS
  <2>1. Rank(n) \in Nat /\ Rank(m) \in Nat /\ n \in Nat /\ m \in Nat
    BY HistoryFinite
  <2>2. ~(m > n) /\ ~(n > m)
    BY <2>1, RankFalls
  <2> QED
    BY <2>1, <2>2
<1>2. count \in Nat /\ IsFiniteSet(history)
  BY HistoryFinite
<1>3. place \in Injection(history, 0 .. count - 1)
  BY <1>1, HistoryFinite DEF Injection, IsInjective
<1>4. IsFiniteSet(0 .. count - 1) /\ Cardinality(0 .. count - 1) = count
  BY <1>2, FS_Interval
<1>5. place \in Surjection(history, 0 .. count - 1)
  <2> HIDE DEF place
  <2> QED
    BY <1>3, <1>4, FS_Injection
<1>6. Band(a, b) \subseteq history
  BY DEF Band
<1>7. places \in Injection(Band(a, b), a .. b - 1)
  BY <1>1, <1>6 DEF Band, Injection, IsInjective
<1>8. IsFiniteSet(a .. b - 1) /\ Cardinality(a .. b - 1) = b - a
  <2>1. a \in Int /\ b - 1 \in Int
    OBVIOUS
  <2>2. /\ IsFiniteSet(a .. b - 1)
        /\ Cardinality(a .. b - 1) = IF a > b - 1 THEN 0 ELSE (b - 1) - a + 1
    BY <2>1, FS_Interval
  <2> QED
    BY <2>2
<1>9. IsFiniteSet(Band(a, b)) /\ Cardinality(Band(a, b)) <= b - a
  <2> HIDE DEF places
  <2> QED
    BY <1>7, <1>8, FS_Injection
<1>10. Cardinality(Band(a, b)) \in Nat
  BY <1>9, FS_CardinalityType
<1>11. ASSUME b <= count PROVE Cardinality(Band(a, b)) = b - a
  <2>1. ASSUME NEW k \in a .. b - 1 PROVE \E n \in Band(a, b) : places[n] = k
    <3>1. k \in 0 .. count - 1
      BY <1>2, <1>11
    <3>2. PICK n \in history : place[n] = k
      BY <1>5, <3>1 DEF Surjection
    <3> QED
      BY <3>2 DEF Band
  <2>2. places \in Surjection(Band(a, b), a .. b - 1)
    BY <1>7, <2>1 DEF Injection, Surjection
  <2> HIDE DEF places
  <2> QED
    BY <1>7, <1>8, <2>2, FS_Injection
<1> QED
  BY <1>9, <1>10, <1>11

LEMMA PageIsBand ==
    ASSUME TypeOK, NEW s \in Nat
    PROVE  /\ Page(s) = Band(s, s + Limit)
           /\ IsFiniteSet(Page(s)) /\ Cardinality(Page(s)) \in 0 .. Limit
<1>1. Limit \in Nat
  BY HistoryAssumption
<1>2. Page(s) = Band(s, s + Limit)
  <2>1. \A n \in history : Cardinality(Newer(n)) = Rank(n)
    BY DEF Rank
  <2>2. \A n : n \in Page(s) <=> n \in Band(s, s + Limit)
    BY <1>1, <2>1 DEF Page, Band
  <2> QED
    BY <2>2
<1> QED
  BY <1>1, <1>2, BandSize

\* A full page is sent as it is.
LEMMA SentIsPage ==
    ASSUME TypeOK, NEW s \in Nat
    PROVE  /\ Sent(s) \subseteq Page(s) /\ Sent(s) \subseteq history
           /\ IsFiniteSet(Sent(s)) /\ Cardinality(Sent(s)) \in 0 .. Limit
           /\ ~(Cardinality(Sent(s)) < Limit) => Sent(s) = Page(s)
<1>1. Sent(s) \in SUBSET Page(s) /\ Page(s) \subseteq history
  BY DEF Sent, Page
<1>2. IsFiniteSet(Page(s)) /\ Cardinality(Page(s)) \in 0 .. Limit /\ Limit \in Nat
  BY PageIsBand, HistoryAssumption
<1>3. /\ IsFiniteSet(Sent(s)) /\ Cardinality(Sent(s)) <= Cardinality(Page(s))
      /\ Cardinality(Sent(s)) = Cardinality(Page(s)) => Sent(s) = Page(s)
  BY <1>1, <1>2, FS_Subset
<1>4. Cardinality(Sent(s)) \in Nat
  BY <1>3, FS_CardinalityType
<1> QED
  BY <1>1, <1>2, <1>3, <1>4

\* A page that is not full leaves no record behind it.
LEMMA LastPage ==
    ASSUME TypeOK, NEW s \in Nat, Cardinality(Page(s)) < Limit,
           NEW n \in history, Rank(n) >= s
    PROVE  n \in Page(s)
<1>1. Limit \in Nat
  BY HistoryAssumption
<1>2. ~(s + Limit <= Cardinality(history))
  BY <1>1, PageIsBand, BandSize
<1>3. Rank(n) \in s .. s + Limit - 1
  BY <1>1, <1>2, HistoryFinite
<1> QED
  BY <1>3 DEF Page, Rank

-----------------------------------------------------------------------------
\* The records keep their types, and nothing a client has leaves the history
\* (verify.py:60-112; mongo.py:142-197).
THEOREM TypeCorrect == Spec => []TypeOK
<1>0. Limit \in Nat /\ MaxRecords \in Nat
  BY HistoryAssumption
<1>1. Init => TypeOK
  <2> SUFFICES ASSUME Init PROVE TypeOK
    OBVIOUS
  <2>1. stamped \in 0 .. MaxRecords /\ skip \in Nat /\ repeated \in Nat
    BY <1>0 DEF Init
  <2> QED
    BY <2>1 DEF Init, TypeOK
<1>2. TypeOK /\ [Next]_vars => TypeOK'
  <2> SUFFICES ASSUME TypeOK, [Next]_vars PROVE TypeOK'
    OBVIOUS
  <2> USE <1>0 DEF TypeOK
  <2>1. CASE Stamp
    BY <2>1 DEF Stamp, client
  <2>2. ASSUME NEW n \in 1 .. MaxRecords, Insert(n) PROVE TypeOK'
    BY <2>2 DEF Insert, client
  <2>3. ASSUME NEW n \in 1 .. MaxRecords, InsertFails(n) PROVE TypeOK'
    BY <2>3 DEF InsertFails, client
  <2>4. CASE Restart
    BY <2>4 DEF Restart, client
  <2>5. CASE Begin
    BY <2>5 DEF Begin, writer
  <2>6. CASE Read
    <3>1. Cardinality(got \cap Sent(skip)) \in Nat
      <4>1. IsFiniteSet(got \cap Sent(skip))
        BY SentIsPage, FS_Intersection
      <4> QED
        BY <4>1, FS_CardinalityType
    <3>2. Sent(skip) \subseteq history
      BY DEF Sent, Page
    <3>3. complete' \in BOOLEAN /\ reading' \in BOOLEAN
      BY <2>6 DEF Read
    <3>4. UNCHANGED <<db, stamped, inserting, history, due>>
      BY <2>6 DEF Read, writer
    <3>5. got' \subseteq history' /\ due' \subseteq history'
      BY <2>6, <3>2, <3>4 DEF Read
    <3>6. skip' \in Nat /\ repeated' \in Nat
      <4>1. skip' = skip + Limit /\ repeated' = repeated + Cardinality(got \cap Sent(skip))
        BY <2>6 DEF Read
      <4> QED
        BY <3>1, <4>1
    <3> QED
      BY <3>3, <3>4, <3>5, <3>6
  <2>7. CASE Refused
    BY <2>7 DEF Refused, writer
  <2>8. CASE UNCHANGED vars
    BY <2>8 DEF vars, writer, client
  <2> QED
    BY <2>1, <2>2, <2>3, <2>4, <2>5, <2>6, <2>7, <2>8 DEF Next
<1> QED
  BY <1>1, <1>2, PTL DEF Spec

-----------------------------------------------------------------------------
\* Nothing is missed.

\* What was there at the beginning and was not given yet still lies behind the
\* pages that were read: inserts move a record back, never to the front.
Behind == reading => \A n \in due \ got : Rank(n) >= skip

MissInv == PagesMissNothing /\ Behind /\ (reading => ~complete)

\* An insert moves no record of the list to the front.
LEMMA RankGrows ==
    ASSUME TypeOK, NEW n \in history, TypeOK', history \subseteq history'
    PROVE  Rank(n)' >= Rank(n) /\ Rank(n)' \in Nat
<1>1. Newer(n) \in SUBSET Newer(n)'
  BY DEF Newer
<1>2. IsFiniteSet(history')
  <2>1. history' \in SUBSET (1 .. stamped') /\ stamped' \in Nat
    BY HistoryAssumption DEF TypeOK
  <2>2. IsFiniteSet(1 .. stamped')
    BY <2>1, FS_Interval
  <2> QED
    BY <2>1, <2>2, FS_Subset
<1>3. IsFiniteSet(Newer(n)')
  BY <1>2, FS_Subset DEF Newer
<1>4. Cardinality(Newer(n)) <= Cardinality(Newer(n)')
  BY <1>1, <1>3, FS_Subset
<1>5. Cardinality(Newer(n)) \in Nat /\ Cardinality(Newer(n)') \in Nat
  BY <1>1, <1>3, FS_Subset, FS_CardinalityType
<1> QED
  BY <1>4, <1>5 DEF Rank

THEOREM MissInductive == Spec => []MissInv
<1>1. Init => MissInv
  BY DEF Init, MissInv, PagesMissNothing, Behind
<1>2. TypeOK /\ TypeOK' /\ MissInv /\ [Next]_vars => MissInv'
  <2> SUFFICES ASSUME TypeOK, TypeOK', MissInv, [Next]_vars PROVE MissInv'
    OBVIOUS
  <2>1. ASSUME UNCHANGED client, history \subseteq history' PROVE MissInv'
    <3>1. ASSUME reading', NEW n \in due' \ got' PROVE Rank(n)' >= skip'
      <4>1. n \in history /\ reading /\ n \in due \ got /\ skip' = skip /\ skip \in Nat
        BY <2>1, <3>1 DEF client, TypeOK
      <4>2. Rank(n) >= skip
        BY <4>1 DEF MissInv, Behind
      <4>3. Rank(n)' >= Rank(n) /\ Rank(n)' \in Nat /\ Rank(n) \in Nat
        BY <2>1, <4>1, RankGrows, HistoryFinite
      <4> QED
        BY <4>1, <4>2, <4>3
    <3>2. Behind'
      BY <3>1 DEF Behind
    <3> QED
      BY <2>1, <3>2 DEF MissInv, PagesMissNothing, client
  <2>2. CASE Begin
    <3>1. \A n \in history : Rank(n)' >= 0
      BY <2>2, RankGrows DEF Begin, writer
    <3> QED
      BY <2>2, <3>1 DEF Begin, MissInv, PagesMissNothing, Behind, TypeOK
  <2>3. CASE Read
    <3>0. /\ due' = due /\ got' = got \cup Sent(skip) /\ skip' = skip + Limit
          /\ history' = history /\ skip \in Nat /\ Limit \in Nat
          /\ complete' = (Cardinality(Sent(skip)) < Limit) /\ reading' = ~complete'
      BY <2>3, HistoryAssumption DEF Read, writer, TypeOK
    <3>1. ASSUME NEW n \in due \ got' PROVE /\ n \in history /\ Rank(n) \in Nat
                                           /\ Rank(n) >= skip /\ n \notin Sent(skip)
      BY <2>3, <3>0, <3>1, HistoryFinite DEF Read, MissInv, Behind, TypeOK
    <3>2. ASSUME complete', history \cap Unreadable = {} PROVE due \subseteq got'
      <4>1. Sent(skip) = Page(skip)
        BY <3>2 DEF Sent, Page
      <4> QED
        BY <3>0, <3>1, <3>2, <4>1, LastPage
    <3>3. ASSUME reading', NEW n \in due \ got' PROVE Rank(n)' >= skip + Limit
      <4>0. Sent(skip) = Page(skip)
        BY <3>0, <3>3, SentIsPage, Zenon
      <4>1. Rank(n) \notin skip .. skip + Limit - 1
        BY <3>1, <3>3, <4>0 DEF Page, Rank
      <4>2. Rank(n)' = Rank(n)
        BY <3>0 DEF Rank, Newer
      <4> QED
        BY <3>0, <3>1, <3>3, <4>1, <4>2
    <3> QED
      BY <3>0, <3>2, <3>3 DEF MissInv, PagesMissNothing, Behind
  <2>4. CASE Refused
    BY <2>4 DEF Refused, MissInv, PagesMissNothing, Behind
  <2> QED
    BY <2>1, <2>2, <2>3, <2>4
       DEF Next, Stamp, Insert, InsertFails, Restart, vars, writer, client
<1> QED
  BY <1>1, <1>2, TypeCorrect, PTL DEF Spec

\* A client that has read to the last page has every record there was when it
\* began (mongo.py:188-197).
THEOREM NothingMissed == Spec => []PagesMissNothing
<1>1. MissInv => PagesMissNothing
  BY DEF MissInv
<1> QED
  BY <1>1, MissInductive, PTL

-----------------------------------------------------------------------------
\* Nothing is repeated without a cause.

\* A client that reads has been given as many records, counting repetitions, as
\* it skips.
RepeatInv ==
    /\ RepeatsAreAccounted
    /\ reading => repeated + Cardinality(got) = skip /\ skip <= Cardinality(history)

\* The records in front of a page and on it are as many as their places.
LEMMA FrontSize ==
    ASSUME TypeOK, NEW s \in Nat, s <= Cardinality(history)
    PROVE  LET front == Band(0, s) \cup Sent(s)
           IN  /\ IsFiniteSet(front) /\ front \subseteq history
               /\ Cardinality(front) = s + Cardinality(Sent(s))
               /\ s + Cardinality(Sent(s)) <= Cardinality(history)
<1> DEFINE front == Band(0, s) \cup Sent(s)
<1>1. IsFiniteSet(Band(0, s)) /\ Cardinality(Band(0, s)) = s
  BY BandSize
<1>2. IsFiniteSet(Sent(s)) /\ Cardinality(Sent(s)) \in Nat
  BY SentIsPage, FS_CardinalityType
<1>3. Band(0, s) \cap Sent(s) = {}
  <2>1. \A n \in history : n \in Sent(s) => Rank(n) >= s
    BY HistoryFinite DEF Sent, Page, Rank
  <2>2. \A n \in Band(0, s) : n \in history /\ ~(Rank(n) >= s)
    BY HistoryFinite DEF Band
  <2> QED
    BY <2>1, <2>2
<1>4. Cardinality(Band(0, s) \cap Sent(s)) = 0
  BY <1>3, FS_EmptySet
<1>5. /\ IsFiniteSet(front)
      /\ Cardinality(front) = Cardinality(Band(0, s)) + Cardinality(Sent(s))
                              - Cardinality(Band(0, s) \cap Sent(s))
  BY <1>1, <1>2, FS_Union
<1>6. Cardinality(front) = s + Cardinality(Sent(s))
  BY <1>1, <1>2, <1>4, <1>5
<1>7. front \subseteq history
  BY SentIsPage DEF Band
<1>8. Cardinality(front) <= Cardinality(history)
  BY <1>7, HistoryFinite, FS_Subset
<1> QED
  BY <1>5, <1>6, <1>7, <1>8

\* A page adds to what the client has and to its repetitions as much as it
\* holds.
LEMMA PageCounted ==
    ASSUME TypeOK, Read
    PROVE  /\ IsFiniteSet(got') /\ Cardinality(got') \in Nat
           /\ repeated' + Cardinality(got') = repeated + Cardinality(got) + Cardinality(Sent(skip))
<1>1. IsFiniteSet(got) /\ IsFiniteSet(Sent(skip))
  BY HistoryFinite, SentIsPage, FS_Subset DEF TypeOK
<1>2. got' = got \cup Sent(skip) /\ repeated' = repeated + Cardinality(got \cap Sent(skip))
  BY DEF Read
<1>3. /\ IsFiniteSet(got')
      /\ Cardinality(got') = Cardinality(got) + Cardinality(Sent(skip))
                             - Cardinality(got \cap Sent(skip))
  BY <1>1, <1>2, FS_Union
<1>4. IsFiniteSet(got \cap Sent(skip))
  BY <1>1, FS_Intersection
<1>5. /\ Cardinality(got) \in Nat /\ Cardinality(Sent(skip)) \in Nat
      /\ Cardinality(got \cap Sent(skip)) \in Nat /\ Cardinality(got') \in Nat
  BY <1>1, <1>3, <1>4, FS_CardinalityType
<1>6. repeated \in Nat
  BY DEF TypeOK
<1> QED
  BY <1>2, <1>3, <1>5, <1>6

\* Of the records up to the end of the page, a client has all but newcomers.
LEMMA FrontAccounted ==
    ASSUME TypeOK, MissInv, RepeatInv, Read
    PROVE  skip + Cardinality(Sent(skip)) <= Cardinality(got') + Cardinality(history \ due)
<1> DEFINE front == Band(0, skip) \cup Sent(skip)
           new == history \ due
<1>1. reading /\ skip \in Nat /\ skip <= Cardinality(history) /\ got' = got \cup Sent(skip)
  BY DEF Read, RepeatInv, TypeOK
<1>2. IsFiniteSet(front) /\ front \subseteq history /\ Cardinality(front) = skip + Cardinality(Sent(skip))
  BY <1>1, FrontSize
<1>3. IsFiniteSet(got') /\ Cardinality(got') \in Nat
  BY PageCounted
<1>4. IsFiniteSet(new) /\ Cardinality(new) \in Nat
  BY HistoryFinite, FS_Subset, FS_CardinalityType
<1>5. front \subseteq got' \cup new
  <2>1. \A n \in Band(0, skip) : n \in history /\ ~(Rank(n) >= skip)
    BY <1>1, HistoryFinite DEF Band
  <2>2. \A n \in Band(0, skip) : n \in due => n \in got
    BY <1>1, <2>1 DEF MissInv, Behind
  <2> QED
    BY <1>1, <2>1, <2>2 DEF Sent, Page
<1>6. /\ IsFiniteSet(got' \cup new)
      /\ Cardinality(got' \cup new) = Cardinality(got') + Cardinality(new) - Cardinality(got' \cap new)
  <2> HIDE DEF new
  <2> QED
    BY <1>3, <1>4, FS_Union
<1>7. Cardinality(got' \cap new) \in Nat
  <2> HIDE DEF new
  <2> QED
    BY <1>3, FS_Intersection, FS_CardinalityType
<1>8. Cardinality(front) <= Cardinality(got' \cup new)
  <2> HIDE DEF front, new
  <2> QED
    BY <1>5, <1>6, FS_Subset
<1>9. Cardinality(front) \in Nat
  BY <1>2, FS_CardinalityType
<1> HIDE DEF front, new
<1>10. Cardinality(front) <= Cardinality(got') + Cardinality(new)
  BY <1>3, <1>4, <1>6, <1>7, <1>8, <1>9
<1> QED
  BY <1>2, <1>10 DEF new

THEOREM RepeatInductive == Spec => []RepeatInv
<1>1. Init => RepeatInv
  <2> SUFFICES ASSUME Init PROVE RepeatInv
    OBVIOUS
  <2>1. history \ due = {} /\ got = {} /\ repeated = 0 /\ ~reading
    BY DEF Init
  <2> QED
    BY <2>1, FS_EmptySet DEF RepeatInv, RepeatsAreAccounted
<1>2. TypeOK /\ TypeOK' /\ MissInv /\ RepeatInv /\ [Next]_vars => RepeatInv'
  <2> SUFFICES ASSUME TypeOK, TypeOK', MissInv, RepeatInv, [Next]_vars PROVE RepeatInv'
    OBVIOUS
  <2>0. /\ IsFiniteSet(history) /\ Cardinality(history) \in Nat
        /\ IsFiniteSet(history \ due) /\ Cardinality(history \ due) \in Nat
        /\ skip \in Nat /\ repeated \in Nat
    BY HistoryFinite, FS_Subset, FS_CardinalityType DEF TypeOK
  <2>1. ASSUME UNCHANGED client, history \subseteq history' PROVE RepeatInv'
    <3>1. IsFiniteSet(history')
      <4>1. history' \in SUBSET (1 .. stamped') /\ stamped' \in Nat
        BY HistoryAssumption DEF TypeOK
      <4>2. IsFiniteSet(1 .. stamped')
        BY <4>1, FS_Interval
      <4> QED
        BY <4>1, <4>2, FS_Subset
    <3>2. IsFiniteSet(history' \ due') /\ history \ due \subseteq history' \ due'
      BY <2>1, <3>1, FS_Subset DEF client
    <3>3. /\ Cardinality(history) <= Cardinality(history')
          /\ Cardinality(history \ due) <= Cardinality(history' \ due')
      BY <2>1, <3>1, <3>2, FS_Subset
    <3>4. Cardinality(history') \in Nat /\ Cardinality(history' \ due') \in Nat
      BY <3>1, <3>2, FS_CardinalityType
    <3> QED
      BY <2>0, <2>1, <3>3, <3>4 DEF RepeatInv, RepeatsAreAccounted, client
  <2>2. CASE Begin
    BY <2>0, <2>2, FS_EmptySet DEF Begin, RepeatInv, RepeatsAreAccounted, writer
  <2>3. CASE Read
    <3>1. /\ reading /\ repeated + Cardinality(got) = skip /\ skip <= Cardinality(history)
          /\ skip' = skip + Limit /\ UNCHANGED <<history, due>>
          /\ complete' = (Cardinality(Sent(skip)) < Limit) /\ reading' = ~complete'
      BY <2>3 DEF Read, RepeatInv, writer
    <3>2. /\ repeated' + Cardinality(got') = skip + Cardinality(Sent(skip))
          /\ Cardinality(got') \in Nat
      BY <2>3, <3>1, PageCounted
    <3>3. Cardinality(Sent(skip)) \in 0 .. Limit /\ Limit \in Nat
      BY <2>0, SentIsPage, HistoryAssumption
    <3>4. skip + Cardinality(Sent(skip)) <= Cardinality(history)
      BY <2>0, <3>1, FrontSize
    <3>5. skip + Cardinality(Sent(skip)) <= Cardinality(got') + Cardinality(history \ due)
      BY <2>3, FrontAccounted
    <3>6. repeated' \in Nat
      BY DEF TypeOK
    <3>7. repeated' <= Cardinality(history \ due)
      BY <2>0, <3>2, <3>3, <3>5, <3>6
    <3>8. ASSUME reading' PROVE Cardinality(Sent(skip)) = Limit
      <4>1. ~(Cardinality(Sent(skip)) < Limit)
        BY <3>1, <3>8, Zenon
      <4> QED
        BY <3>3, <4>1
    <3> QED
      BY <3>1, <3>2, <3>4, <3>7, <3>8 DEF RepeatInv, RepeatsAreAccounted
  <2>4. CASE Refused
    BY <2>4 DEF Refused, RepeatInv, RepeatsAreAccounted, writer
  <2> QED
    BY <2>1, <2>2, <2>3, <2>4
       DEF Next, Stamp, Insert, InsertFails, Restart, vars, writer, client
<1> QED
  BY <1>1, <1>2, TypeCorrect, MissInductive, PTL DEF Spec

\* A record is given again no more often than records have come since the
\* client began (mongo.py:188-197).
THEOREM RepeatsCaused == Spec => []RepeatsAreAccounted
<1>1. RepeatInv => RepeatsAreAccounted
  BY DEF RepeatInv
<1> QED
  BY <1>1, RepeatInductive, PTL

=============================================================================
