--------------------------- MODULE AnalyticsProofs ---------------------------
(***************************************************************************)
(* For any number of events, any size of a batch and any cap: statistics   *)
(* that do not reach the cap leave out no event that was in the collection *)
(* while they were read.                                                   *)
(***************************************************************************)
EXTENDS Analytics, FiniteSetTheorems, TLAPS

LEMMA Bounds ==
    /\ MaxEvents \in Nat /\ MaxClears \in Nat /\ MaxFaults \in Nat
    /\ Batch \in Nat \ {0} /\ Cap \in Nat \ {0} /\ Batch <= Cap
BY AnalyticsAssumption

-----------------------------------------------------------------------------
\* The oldest of a set of events.

Older(S, n) == {m \in S : m < n}

LEMMA Places ==
    ASSUME NEW k \in Nat
    PROVE  IsFiniteSet(0 .. k - 1) /\ Cardinality(0 .. k - 1) = k
<1>1. k - 1 \in Int /\ 0 \in Int
  OBVIOUS
<1>2. Cardinality(0 .. k - 1) = IF 0 > k - 1 THEN 0 ELSE (k - 1) - 0 + 1
  BY <1>1, FS_Interval
<1> QED
  BY <1>1, <1>2, FS_Interval

\* Of two events the older one has fewer before it.
LEMMA OlderGrows ==
    ASSUME NEW S \in SUBSET Nat, IsFiniteSet(S), NEW n \in S, NEW m \in S, n < m
    PROVE  /\ Cardinality(Older(S, n)) \in Nat /\ Cardinality(Older(S, m)) \in Nat
           /\ Cardinality(Older(S, n)) < Cardinality(Older(S, m))
<1>0. \A j \in S : j \in Nat
  OBVIOUS
<1>1. /\ Older(S, n) \in SUBSET Older(S, m)
      /\ n \in Older(S, m) /\ n \notin Older(S, n)
  <2>1. \A j \in Older(S, n) : j \in Older(S, m)
    BY <1>0 DEF Older
  <2>2. n \in Older(S, m) /\ n \notin Older(S, n)
    BY <1>0 DEF Older
  <2> QED
    BY <2>1, <2>2
<1>2. IsFiniteSet(Older(S, m)) /\ IsFiniteSet(Older(S, n))
  BY FS_Subset DEF Older
<1>3. /\ Cardinality(Older(S, n)) <= Cardinality(Older(S, m))
      /\ Cardinality(Older(S, n)) # Cardinality(Older(S, m))
  BY <1>1, <1>2, FS_Subset
<1>4. Cardinality(Older(S, n)) \in Nat /\ Cardinality(Older(S, m)) \in Nat
  BY <1>2, FS_CardinalityType
<1> QED
  BY <1>3, <1>4

LEMMA OldestType ==
    ASSUME NEW S, NEW k
    PROVE  /\ Oldest(S, k) \in SUBSET S
           /\ \A n \in S : n \in Oldest(S, k) <=> Cardinality(Older(S, n)) < k
BY DEF Oldest, Older

\* The oldest are older than the rest.
LEMMA OldestFirst ==
    ASSUME NEW S \in SUBSET Nat, IsFiniteSet(S), NEW k \in Nat,
           NEW m \in Oldest(S, k), NEW n \in S \ Oldest(S, k)
    PROVE  m < n
<1>1. m \in S /\ n \in S /\ m \in Nat /\ n \in Nat /\ m # n
  BY OldestType
<1>2. Cardinality(Older(S, m)) < k /\ ~(Cardinality(Older(S, n)) < k)
  BY <1>1, OldestType
<1>3. ~(n < m)
  BY <1>1, <1>2, OlderGrows
<1> QED
  BY <1>1, <1>3

\* If they are fewer than one asked for, they are all there are.
LEMMA OldestAll ==
    ASSUME NEW S \in SUBSET Nat, IsFiniteSet(S), NEW k \in Nat,
           Cardinality(Oldest(S, k)) < k
    PROVE  Oldest(S, k) = S
<1> DEFINE place == [n \in S |-> Cardinality(Older(S, n))]
           places == [n \in Oldest(S, k) |-> Cardinality(Older(S, n))]
           count == Cardinality(S)
<1>1. count \in Nat
  BY FS_CardinalityType
<1>2. ASSUME NEW n \in S PROVE Cardinality(Older(S, n)) \in 0 .. count - 1
  <2>1. Older(S, n) \in SUBSET S /\ n \notin Older(S, n)
    BY DEF Older
  <2>2. /\ IsFiniteSet(Older(S, n)) /\ Cardinality(Older(S, n)) <= count
        /\ Cardinality(Older(S, n)) # count
    BY <2>1, FS_Subset
  <2>3. Cardinality(Older(S, n)) \in Nat
    BY <2>2, FS_CardinalityType
  <2> QED
    BY <1>1, <2>2, <2>3
<1>3. ASSUME NEW n \in S, NEW m \in S, Cardinality(Older(S, n)) = Cardinality(Older(S, m))
      PROVE  n = m
  <2>1. ~(n < m) /\ ~(m < n)
    BY <1>3, OlderGrows
  <2> QED
    BY <2>1
<1>4. place \in Injection(S, 0 .. count - 1)
  BY <1>2, <1>3 DEF Injection, IsInjective
<1>5. IsFiniteSet(0 .. count - 1) /\ Cardinality(0 .. count - 1) = count
  BY <1>1, Places
<1>6. place \in Surjection(S, 0 .. count - 1)
  <2> HIDE DEF place
  <2> QED
    BY <1>4, <1>5, FS_Injection
<1>7. ~(k <= count)
  <2> SUFFICES ASSUME k <= count PROVE FALSE
    OBVIOUS
  <2>1. \A n \in Oldest(S, k) : n \in S /\ Cardinality(Older(S, n)) \in 0 .. k - 1
    <3>1. \A n \in Oldest(S, k) : /\ n \in S /\ Cardinality(Older(S, n)) < k
                                  /\ Cardinality(Older(S, n)) \in 0 .. count - 1
      BY <1>2, OldestType
    <3> QED
      BY <1>1, <3>1
  <2>2. places \in Injection(Oldest(S, k), 0 .. k - 1)
    BY <1>3, <2>1 DEF Injection, IsInjective
  <2>3. ASSUME NEW j \in 0 .. k - 1 PROVE \E n \in Oldest(S, k) : places[n] = j
    <3>1. j \in 0 .. count - 1
      BY <1>1
    <3>2. PICK n \in S : place[n] = j
      BY <1>6, <3>1 DEF Surjection
    <3>3. n \in Oldest(S, k)
      BY <3>2, OldestType
    <3> QED
      BY <3>2, <3>3
  <2>4. places \in Surjection(Oldest(S, k), 0 .. k - 1)
    BY <2>2, <2>3 DEF Injection, Surjection
  <2>5. IsFiniteSet(0 .. k - 1) /\ Cardinality(0 .. k - 1) = k
    BY Places
  <2>6. Cardinality(Oldest(S, k)) = k
    <3> HIDE DEF places
    <3> QED
      BY <2>2, <2>4, <2>5, FS_Injection
  <2> QED
    BY <2>6
<1>8. \A n \in S : Cardinality(Older(S, n)) < k
  BY <1>1, <1>2, <1>7
<1> QED
  BY <1>8, OldestType

-----------------------------------------------------------------------------
\* Events, requests, clears and charts keep their types (tracker.py:68-112,
\* 288-296; dashboard/app.js:80-150).
THEOREM TypeCorrect == Spec => []TypeOK
<1>1. Init => TypeOK
  <2> SUFFICES ASSUME Init PROVE TypeOK
    OBVIOUS
  <2>1. made \in 0 .. MaxEvents /\ clears \in 0 .. MaxClears /\ faults \in 0 .. MaxFaults
    BY Bounds DEF Init
  <2>2. polls \in [Polls -> Poll]
    BY DEF Init, Idle, Poll
  <2>3. cards \subseteq Events /\ chart \in [Charts -> SUBSET Events] /\ lost \subseteq Charts
    BY DEF Init
  <2> QED
    BY <2>1, <2>2, <2>3 DEF Init, TypeOK
<1>2. TypeOK /\ [Next]_vars => TypeOK'
  <2> SUFFICES ASSUME TypeOK, [Next]_vars PROVE TypeOK'
    OBVIOUS
  <2> USE Bounds DEF TypeOK, store, clearing, view
  <2>0. Idle \in Poll /\ events \subseteq Events /\ pending \subseteq Events
    BY DEF Idle, Poll, Events
  <2>1. CASE Answer
    BY <2>1 DEF Answer
  <2>2. CASE EndClear
    BY <2>2 DEF EndClear
  <2>3. CASE ClearFails
    BY <2>3 DEF ClearFails
  <2>4. CASE Restart
    <3>1. polls' \in [Polls -> Poll]
      BY <2>0, <2>4 DEF Restart
    <3> QED
      BY <2>4, <3>1 DEF Restart
  <2>5. ASSUME NEW n \in Events, Record(n) PROVE TypeOK'
    BY <2>5 DEF Record
  <2>6. ASSUME NEW n \in Events, Delete(n) PROVE TypeOK'
    <3>1. \A p \in Poll : [p EXCEPT !.due = @ \ {n}] \in Poll
      BY DEF Poll
    <3>2. polls' \in [Polls -> Poll]
      BY <2>6, <3>1 DEF Delete
    <3>3. clear' \in Clear \cup {None}
      BY <2>6 DEF Delete, Clear
    <3> QED
      BY <2>6, <3>2, <3>3 DEF Delete
  <2>7. ASSUME NEW u \in Users, NEW valid \in BOOLEAN, StartClear(u, valid) PROVE TypeOK'
    <3>1. [scope |-> Scope(u, valid), due |-> Within(Scope(u, valid))] \in Clear
      BY <2>0 DEF Clear, Scope, Within
    <3> QED
      BY <2>7, <3>1 DEF StartClear
  <2>8. ASSUME NEW i \in Polls, Ask(i) PROVE TypeOK'
    <3>1. \A S \in SUBSET Events : Oldest(S, Batch) \in SUBSET Events
      BY OldestType
    <3>2. polls' \in [Polls -> Poll]
      BY <2>0, <2>8, <3>1 DEF Ask, Poll
    <3> QED
      BY <2>8, <3>2 DEF Ask
  <2>9. ASSUME NEW i \in Polls, ReadRest(i) PROVE TypeOK'
    <3>1. \A S \in SUBSET Events, k \in Int : Oldest(S, k) \in SUBSET Events
      BY OldestType
    <3>2. polls' \in [Polls -> Poll]
      <4> DEFINE got == polls[i].got
                 more == Oldest(Rest(got), Cap - Cardinality(got))
      <4>1. got \in SUBSET Events /\ polls[i] \in Poll
        BY DEF Poll
      <4>2. Rest(got) \in SUBSET Events /\ more \in SUBSET Rest(got)
        BY <2>0, OldestType DEF Rest
      <4>3. polls' = [polls EXCEPT ![i] = [at |-> "answered", got |-> got \cup more, due |-> {}]]
        BY <2>9, <4>1 DEF ReadRest, Poll
      <4>4. [at |-> "answered", got |-> got \cup more, due |-> {}] \in Poll
        BY <4>1, <4>2 DEF Poll
      <4> HIDE DEF got, more
      <4> QED
        BY <4>3, <4>4
    <3> QED
      BY <2>9, <3>2 DEF ReadRest
  <2>10. ASSUME NEW i \in Polls, Render(i) PROVE TypeOK'
    <3>1. polls' \in [Polls -> Poll] /\ cards' \in SUBSET Events
      BY <2>0, <2>10 DEF Render, Poll
    <3>2. \A c \in Charts : Drawn(c, polls[i].got) \in SUBSET Events
      BY <2>10 DEF Drawn, Render, Poll
    <3>3. chart' \in [Charts -> SUBSET Events] /\ lost' \subseteq Charts
      BY <2>10, <3>2 DEF Render
    <3> QED
      BY <2>10, <3>1, <3>3 DEF Render
  <2>11. ASSUME NEW i \in Polls, AskFails(i) PROVE TypeOK'
    <3>1. polls' \in [Polls -> Poll]
      BY <2>0, <2>11 DEF AskFails
    <3> QED
      BY <2>11, <3>1 DEF AskFails
  <2>12. CASE UNCHANGED vars
    BY <2>12 DEF vars
  <2> QED
    BY <2>1, <2>2, <2>3, <2>4, <2>5, <2>6, <2>7, <2>8, <2>9, <2>10, <2>11, <2>12 DEF Next
<1> QED
  BY <1>1, <1>2, PTL DEF Spec

-----------------------------------------------------------------------------
\* The statistics.

\* Between the two batches, what was there all the while and was not read is
\* still there, and newer than all that was read.
HalfInv ==
    \A i \in Polls : polls[i].at = "half" =>
        /\ polls[i].due \subseteq events
        /\ \A n \in polls[i].due \ polls[i].got, m \in polls[i].got : m < n

LEMMA EventsFinite ==
    ASSUME TypeOK
    PROVE  events \in SUBSET Nat /\ IsFiniteSet(events)
<1>1. made \in Nat /\ events \in SUBSET (1 .. made)
  BY Bounds DEF TypeOK
<1>2. IsFiniteSet(1 .. made)
  BY <1>1, FS_Interval
<1>3. events \in SUBSET Nat
  BY <1>1
<1> QED
  BY <1>1, <1>2, <1>3, FS_Subset

THEOREM HalfInductive == Spec => []HalfInv
<1>1. Init => HalfInv
  BY DEF Init, HalfInv, Idle
<1>2. TypeOK /\ HalfInv /\ [Next]_vars => HalfInv'
  <2> SUFFICES ASSUME TypeOK, HalfInv, [Next]_vars PROVE HalfInv'
    OBVIOUS
  <2> USE DEF store, clearing, view
  <2>1. ASSUME UNCHANGED polls, events \subseteq events' PROVE HalfInv'
    BY <2>1 DEF HalfInv
  <2>2. CASE Restart
    BY <2>2 DEF Restart, HalfInv, Idle, TypeOK
  <2>3. ASSUME NEW n \in Events, Delete(n) PROVE HalfInv'
    <3>1. \A i \in Polls : /\ polls'[i].at = polls[i].at /\ polls'[i].got = polls[i].got
                           /\ polls'[i].due = polls[i].due \ {n}
      BY <2>3 DEF Delete, TypeOK, Poll
    <3> QED
      BY <2>3, <3>1 DEF Delete, HalfInv
  <2>4. ASSUME NEW i \in Polls, UNCHANGED events,
               \A j \in Polls \ {i} : polls'[j] = polls[j], polls'[i].at # "half"
        PROVE HalfInv'
    BY <2>4 DEF HalfInv
  <2>5. ASSUME NEW i \in Polls, Ask(i) PROVE HalfInv'
    <3> DEFINE first == IF db THEN Oldest(events, Batch) ELSE {}
    <3>1. /\ UNCHANGED events /\ \A j \in Polls \ {i} : polls'[j] = polls[j]
          /\ polls'[i] = IF Cardinality(first) < Batch \/ Batch = Cap
                         THEN [at |-> "answered", got |-> first, due |-> {}]
                         ELSE [at |-> "half", got |-> first, due |-> events]
      BY <2>5 DEF Ask, TypeOK
    <3>2. CASE Cardinality(first) < Batch \/ Batch = Cap
      BY <2>4, <3>1, <3>2
    <3>3. CASE ~(Cardinality(first) < Batch \/ Batch = Cap)
      <4>1. polls'[i] = [at |-> "half", got |-> first, due |-> events]
        BY <3>1, <3>3
      <4>2. first = Oldest(events, Batch)
        BY <3>3, Bounds, FS_EmptySet
      <4>3. \A n \in events \ first, m \in first : m < n
        BY <4>2, Bounds, EventsFinite, OldestFirst
      <4> HIDE DEF first
      <4> QED
        BY <3>1, <4>1, <4>3 DEF HalfInv
    <3> QED
      BY <3>2, <3>3
  <2>6. ASSUME NEW i \in Polls, ReadRest(i) \/ Render(i) \/ AskFails(i) PROVE HalfInv'
    BY <2>4, <2>6 DEF ReadRest, Render, AskFails, Idle, TypeOK, Poll
  <2> QED
    BY <2>1, <2>2, <2>3, <2>5, <2>6
       DEF Next, vars, Answer, EndClear, ClearFails, Record, StartClear
<1> QED
  BY <1>1, <1>2, TypeCorrect, PTL DEF Spec

\* The second batch completes the read, unless the cap cuts it.
LEMMA RestComplete ==
    ASSUME TypeOK, HalfInv, NEW i \in Polls, ReadRest(i),
           Cardinality(polls'[i].got) < Cap
    PROVE  polls[i].due \subseteq polls'[i].got
<1> DEFINE got == polls[i].got
           rest == Rest(got)
           more == Oldest(rest, Cap - Cardinality(got))
<1>1. polls'[i].got = got \cup more /\ polls[i].at = "half" /\ got \in SUBSET Events
  BY DEF ReadRest, TypeOK, Poll
<1>2. IsFiniteSet(got) /\ Cardinality(got) \in Nat /\ got \subseteq Nat
  <2>1. IsFiniteSet(Events) /\ Events \subseteq Nat
    BY Bounds, FS_Interval DEF Events
  <2> HIDE DEF got
  <2> QED
    BY <1>1, <2>1, FS_Subset, FS_CardinalityType
<1>3. rest \in SUBSET Nat /\ IsFiniteSet(rest)
  BY EventsFinite, FS_Subset DEF Rest
<1>4. more \in SUBSET rest
  BY OldestType
<1>5. IsFiniteSet(more) /\ Cardinality(more) \in Nat
  <2> HIDE DEF more, rest
  <2> QED
    BY <1>3, <1>4, FS_Subset, FS_CardinalityType
<1>6. got \cap more = {}
  BY <1>2, <1>4 DEF Rest
<1>7. Cardinality(got \cup more) = Cardinality(got) + Cardinality(more)
  <2>1. Cardinality(got \cap more) = 0
    BY <1>6, FS_EmptySet
  <2>2. Cardinality(got \cup more) = Cardinality(got) + Cardinality(more) - Cardinality(got \cap more)
    <3> HIDE DEF got, more
    <3> QED
      BY <1>2, <1>5, FS_Union
  <2> QED
    BY <1>2, <1>5, <2>1, <2>2
<1>8. Cardinality(more) < Cap - Cardinality(got) /\ Cap - Cardinality(got) \in Nat
  <2>1. Cardinality(got) + Cardinality(more) < Cap
    BY <1>1, <1>7
  <2> HIDE DEF got, more
  <2> QED
    BY <1>2, <1>5, <2>1, Bounds
<1>9. more = rest
  <2> HIDE DEF got, rest
  <2> QED
    BY <1>3, <1>8, OldestAll
<1>10. polls[i].due \ got \subseteq rest
  BY <1>1 DEF HalfInv, Rest
<1> QED
  BY <1>1, <1>9, <1>10

\* Statistics below the cap leave out nothing that was there while they were
\* read (tracker.py:86-109).
THEOREM StatsComplete == Spec => StatsMissNothing
<1> DEFINE Missing == \A i \in Polls :
                 (polls[i].at = "half" /\ polls'[i].at = "answered"
                     /\ Cardinality(polls'[i].got) < Cap)
                 => polls[i].due \subseteq polls'[i].got
<1>1. TypeOK /\ HalfInv /\ [Next]_vars => [Missing]_vars
  <2> SUFFICES ASSUME TypeOK, HalfInv, Next, NEW i \in Polls,
                      polls[i].at = "half", polls'[i].at = "answered",
                      Cardinality(polls'[i].got) < Cap
               PROVE  polls[i].due \subseteq polls'[i].got
    OBVIOUS
  <2> USE DEF store, clearing, view
  <2>1. ~UNCHANGED polls
    OBVIOUS
  <2>2. ~Restart
    BY DEF Restart, Idle, TypeOK
  <2>3. ASSUME NEW n \in Events PROVE ~Delete(n)
    BY DEF Delete, TypeOK, Poll
  <2>4. ASSUME NEW j \in Polls PROVE ~Ask(j) /\ ~Render(j) /\ ~AskFails(j)
    BY DEF Ask, Render, AskFails, Idle, TypeOK
  <2>5. PICK j \in Polls : ReadRest(j)
    BY <2>1, <2>2, <2>3, <2>4
       DEF Next, Answer, EndClear, ClearFails, Record, StartClear
  <2>6. j = i
    BY <2>5 DEF ReadRest, TypeOK
  <2> QED
    BY <2>5, <2>6, RestComplete
<1> QED
  BY <1>1, TypeCorrect, HalfInductive, PTL DEF Spec, StatsMissNothing

=============================================================================
