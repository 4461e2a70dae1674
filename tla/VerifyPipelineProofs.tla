------------------------ MODULE VerifyPipelineProofs ------------------------
(***************************************************************************)
(* What VerifyPipeline guarantees for any set of requests, users, texts    *)
(* and scores.                                                             *)
(***************************************************************************)
EXTENDS VerifyPipeline, FiniteSetTheorems, TLAPS

-----------------------------------------------------------------------------
(* Type correctness needs to know where a response exists.                 *)

\* A response is absent until the judge or the cache provides one, and the
\* stages after that work on it, as does a SETEX that is late.
Unanswered == {"new", "lookup", "preprocess", "retrieve", "consensus", "judge",
               "rejected", "failed"}
ResponsePlaced ==
    \A r \in Requests :
        /\ pc[r] \in Unanswered => resp[r] = NoResponse
        /\ pc[r] \in {"store", "respond", "event"} \/ r \in late =>
             resp[r] \in Responses /\ resp[r].request_id = r /\ ~resp[r].cache_hit
        /\ pc[r] = "history" => resp[r] \in Responses

TypeInv == TypeOK /\ ResponsePlaced

\* Clamped scores are percentages, and every judgement makes a response
\* (llm_judge.py:173-207, response.py:176-198).
LEMMA JudgementMakesResponse ==
    ASSUME NEW r \in Requests, NEW j \in Judgements(r)
    PROVE  ResponseTo(r, j) \in Responses
  <1>1. \A s \in RawScores[r] : Clamp(s) \in 0..100
    BY PipelineAssumption DEF Clamp
  <1>2. /\ j.score \in 0..100
        /\ j.flag \in BOOLEAN
        /\ j.explanation \in {"llm", "unavailable"}
    <2>1. CASE j = Heuristic
      BY <2>1 DEF Heuristic
    <2>2. CASE \E s \in RawScores[r] : j = Parsed(s)
      <3>1. PICK s \in RawScores[r] : j = Parsed(s)
        BY <2>2
      <3>2. Clamp(s) \in 0..100
        BY <1>1
      <3> QED
        BY <3>1, <3>2 DEF Parsed
    <2> QED
      BY <2>1, <2>2 DEF Judgements
  <1>3. VerdictFor(j.score) \in {"accurate", "uncertain", "hallucination"}
    BY DEF VerdictFor
  <1> QED
    BY <1>2, <1>3 DEF ResponseTo, Responses, ClaimResults

\* Forgetting keeps a subset of what each key held.
LEMMA ShrunkIsSmaller ==
    ASSUME TypeOK, NEW kept \in Cache!Shrunk
    PROVE  /\ kept \in [Keys -> SUBSET Responses]
           /\ \A k \in Keys : kept[k] \subseteq cache[k]
  <1>1. /\ kept \in [Keys -> UNION {SUBSET cache[k] : k \in Keys}]
        /\ \A k \in Keys : kept[k] \subseteq cache[k]
    BY DEF Cache!Shrunk
  <1>2. \A k \in Keys : cache[k] \subseteq Responses
    BY DEF TypeOK
  <1>3. \A k \in Keys : kept[k] \in SUBSET Responses
    BY <1>1, <1>2
  <1> QED
    BY <1>1, <1>3

\* After a store, a key holds nothing but what it held and the new entry.
LEMMA RememberAddsOne ==
    ASSUME TypeOK, NEW k \in Keys, NEW e \in Responses, Remember(k, e)
    PROVE  /\ cache' \in [Keys -> SUBSET Responses]
           /\ \A j \in Keys : \A x \in cache'[j] :
                x \in cache[j] \/ (j = k /\ x = e)
  <1>1. PICK kept \in Cache!Shrunk : cache' = [kept EXCEPT ![k] = @ \cup {e}]
    BY DEF Remember
  <1>2. /\ kept \in [Keys -> SUBSET Responses]
        /\ \A j \in Keys : kept[j] \subseteq cache[j]
    BY ShrunkIsSmaller
  <1> QED
    BY <1>1, <1>2

LEMMA KeyOfType == ASSUME NEW r \in Requests PROVE KeyOf(r) \in Keys
  BY DEF Keys

LEMMA InitTypeInv == Init => TypeInv
  BY DEF Init, TypeInv, TypeOK, ResponsePlaced, PCs, Unanswered, Warnings
LEMMA PCNames ==
    /\ "lookup" \in PCs /\ "preprocess" \in PCs /\ "retrieve" \in PCs
    /\ "consensus" \in PCs /\ "judge" \in PCs /\ "store" \in PCs
    /\ "respond" \in PCs /\ "event" \in PCs /\ "history" \in PCs
    /\ "done" \in PCs /\ "rejected" \in PCs /\ "failed" \in PCs
  BY DEF PCs, Running, Answered, Finished

LEMMA RestartTypeInv == TypeInv /\ Restart => TypeInv'
  <1> SUFFICES ASSUME TypeInv, Restart PROVE TypeInv'
    OBVIOUS
  <1>1. cache' \in [Keys -> SUBSET Responses]
    BY ShrunkIsSmaller DEF Restart, TypeInv
  <1>4. late' \subseteq late \cup {r \in Requests : pc[r] = "store"}
    BY DEF Restart, GiveUp
  <1>2. TypeOK'
    BY <1>1, <1>4 DEF TypeInv, TypeOK, Restart, PCs, Finished
  <1>3. ResponsePlaced'
    BY <1>4 DEF TypeInv, TypeOK, ResponsePlaced, Restart, Finished, Unanswered
  <1> QED
    BY <1>2, <1>3 DEF TypeInv

LEMMA NextTypeInv == TypeInv /\ [Next]_vars => TypeInv'
  <1> SUFFICES ASSUME TypeInv, [Next]_vars PROVE TypeInv'
    OBVIOUS
  <1> USE DEF stores, locals, Goto
  <1>1. ASSUME NEW r \in Requests, Admit(r) PROVE TypeInv'
    <2>1. TypeOK'
      BY <1>1, PCNames DEF Admit, TypeInv, TypeOK
    <2>2. ResponsePlaced'
      BY <1>1 DEF Admit, TypeInv, TypeOK, ResponsePlaced, Unanswered
    <2> QED
      BY <2>1, <2>2 DEF TypeInv
  <1>2. ASSUME NEW r \in Requests, Reject(r) PROVE TypeInv'
    <2>1. TypeOK'
      BY <1>2, PCNames DEF Reject, TypeInv, TypeOK
    <2>2. ResponsePlaced'
      BY <1>2 DEF Reject, TypeInv, TypeOK, ResponsePlaced, Unanswered
    <2> QED
      BY <2>1, <2>2 DEF TypeInv
  <1>3. ASSUME NEW r \in Requests, LookupHit(r) PROVE TypeInv'
    <2> DEFINE hit(e) == [e EXCEPT !.cache_hit = TRUE]
               label == IF db THEN "history" ELSE "done"
    <2>1. PICK e \in cache[KeyOf(r)] :
             /\ resp' = [resp EXCEPT ![r] = hit(e)]
             /\ Remember(KeyOf(r), hit(e)) \/ UNCHANGED cache
      BY <1>3 DEF LookupHit
    <2>2. e \in Responses
      BY KeyOfType DEF TypeInv, TypeOK
    <2>3. hit(e) \in Responses
      BY <2>2 DEF Responses
    <2>4. cache' \in [Keys -> SUBSET Responses]
      BY <2>1, <2>3, KeyOfType, RememberAddsOne DEF TypeInv, TypeOK
    <2>5. resp' \in [Requests -> Responses \cup {NoResponse}]
      BY <2>1, <2>3 DEF TypeInv, TypeOK
    <2>6. warning' \in [Requests -> Warnings]
      BY <1>3 DEF LookupHit, WarnIfOffline, Warn, Warnings, TypeInv, TypeOK
    <2>7. label \in PCs /\ pc' = [pc EXCEPT ![r] = label]
      BY <1>3, PCNames DEF LookupHit, Return
    <2>9. TypeOK'
      BY <1>3, PCNames, <2>4, <2>5, <2>6, <2>7 DEF LookupHit, TypeInv, TypeOK, Return, DropEvidence
    <2>10. ResponsePlaced'
      <3> HIDE DEF hit
      <3>1. late' = late /\ r \notin late
        BY <1>3, NoResponseAssumption DEF LookupHit, TypeInv, ResponsePlaced, Unanswered
      <3> QED
        BY <2>1, <2>3, <2>7, <3>1 DEF TypeInv, TypeOK, ResponsePlaced, Unanswered
    <2> QED
      BY <2>9, <2>10 DEF TypeInv
  <1>4. ASSUME NEW r \in Requests, LookupMiss(r) PROVE TypeInv'
    <2>1. TypeOK'
      BY <1>4, PCNames DEF LookupMiss, TypeInv, TypeOK
    <2>2. ResponsePlaced'
      BY <1>4 DEF LookupMiss, TypeInv, TypeOK, ResponsePlaced, Unanswered
    <2> QED
      BY <2>1, <2>2 DEF TypeInv
  <1>5. ASSUME NEW r \in Requests, Preprocess(r) PROVE TypeInv'
    <2>1. TypeOK'
      BY <1>5, PCNames DEF Preprocess, TypeInv, TypeOK
    <2>2. ResponsePlaced'
      BY <1>5 DEF Preprocess, TypeInv, TypeOK, ResponsePlaced, Unanswered
    <2> QED
      BY <2>1, <2>2 DEF TypeInv
  <1>6. ASSUME NEW r \in Requests, PreprocessFails(r) PROVE TypeInv'
    <2>1. TypeOK'
      BY <1>6, PCNames DEF PreprocessFails, TypeInv, TypeOK, Return, DropEvidence
    <2>2. ResponsePlaced'
      BY <1>6 DEF PreprocessFails, TypeInv, TypeOK, ResponsePlaced, Unanswered, Return, DropEvidence
    <2> QED
      BY <2>1, <2>2 DEF TypeInv
  <1>7. ASSUME NEW r \in Requests, Retrieve(r) PROVE TypeInv'
    <2>1. TypeOK'
      BY <1>7, PCNames DEF Retrieve, TypeInv, TypeOK
    <2>2. ResponsePlaced'
      BY <1>7 DEF Retrieve, TypeInv, TypeOK, ResponsePlaced, Unanswered
    <2> QED
      BY <2>1, <2>2 DEF TypeInv
  <1>8. ASSUME NEW r \in Requests, Consensus(r) PROVE TypeInv'
    <2>1. TypeOK'
      BY <1>8, PCNames, PipelineAssumption DEF Consensus, TypeInv, TypeOK
    <2>2. ResponsePlaced'
      BY <1>8 DEF Consensus, TypeInv, TypeOK, ResponsePlaced, Unanswered
    <2> QED
      BY <2>1, <2>2 DEF TypeInv
  <1>9. ASSUME NEW r \in Requests, Judge(r) PROVE TypeInv'
    <2>1. PICK j \in Judgements(r) : resp' = [resp EXCEPT ![r] = ResponseTo(r, j)]
      BY <1>9 DEF Judge
    <2>2. ResponseTo(r, j) \in Responses
      BY JudgementMakesResponse
    <2>3. ResponseTo(r, j).request_id = r /\ ~ResponseTo(r, j).cache_hit
      BY DEF ResponseTo
    <2>4. CacheTTL(r) \in Nat
      BY DEF CacheTTL, QueryTypeTTL
    <2>5. TypeOK'
      BY <1>9, PCNames, <2>1, <2>2, <2>4 DEF Judge, TypeInv, TypeOK, DropEvidence
    <2>6. ResponsePlaced'
      BY <1>9, <2>1, <2>2, <2>3 DEF Judge, TypeInv, TypeOK, ResponsePlaced, Unanswered
    <2> QED
      BY <2>5, <2>6 DEF TypeInv
  <1>10. ASSUME NEW r \in Requests, Store(r) PROVE TypeInv'
    <2>1. resp[r] \in Responses
      BY <1>10 DEF Store, TypeInv, ResponsePlaced
    <2>5. late' \subseteq late \cup {r}
      BY <1>10 DEF Store, GiveUp
    <2>2. cache' \in [Keys -> SUBSET Responses]
      BY <1>10, <2>1, KeyOfType, RememberAddsOne DEF Store, TypeInv, TypeOK
    <2>3. TypeOK'
      BY <1>10, PCNames, <2>2, <2>5 DEF Store, TypeInv, TypeOK
    <2>4. ResponsePlaced'
      BY <1>10, <2>5 DEF Store, TypeInv, TypeOK, ResponsePlaced, Unanswered
    <2> QED
      BY <2>3, <2>4 DEF TypeInv
  <1>11. ASSUME NEW r \in Requests, Respond(r) PROVE TypeInv'
    <2>1. warning' \in [Requests -> Warnings]
      BY <1>11 DEF Respond, WarnIfOffline, Warn, Warnings, TypeInv, TypeOK
    <2>2. pc' \in [Requests -> PCs]
      BY <1>11, PCNames DEF Respond, Return, TypeInv, TypeOK
    <2>3. TypeOK'
      BY <1>11, <2>1, <2>2 DEF Respond, TypeInv, TypeOK, Return, DropEvidence
    <2>4. ResponsePlaced'
      BY <1>11 DEF Respond, TypeInv, TypeOK, ResponsePlaced, Unanswered, Return, DropEvidence
    <2> QED
      BY <2>3, <2>4 DEF TypeInv
  <1>12. ASSUME NEW r \in Requests, RecordEvent(r) PROVE TypeInv'
    <2>1. resp[r] \in Responses
      BY <1>12 DEF RecordEvent, TypeInv, ResponsePlaced
    <2> DEFINE event == [user_id |-> UserOf[r], request_id |-> r, score |-> resp[r].score]
    <2>2. event \in EventRecords
      BY <2>1, PipelineAssumption DEF EventRecords, Responses
    <2>3. events' \in Seq(EventRecords)
      <3>1. events' = Append(events, event) \/ events' = events
        BY <1>12 DEF RecordEvent
      <3>2. events \in Seq(EventRecords)
        BY DEF TypeInv, TypeOK
      <3> HIDE DEF event
      <3> QED
        BY <2>2, <3>1, <3>2
    <2>4. TypeOK'
      BY <1>12, PCNames, <2>3 DEF RecordEvent, TypeInv, TypeOK
    <2>5. ResponsePlaced'
      BY <1>12 DEF RecordEvent, TypeInv, TypeOK, ResponsePlaced, Unanswered
    <2> QED
      BY <2>4, <2>5 DEF TypeInv
  <1>13. ASSUME NEW r \in Requests, WriteHistory(r) PROVE TypeInv'
    <2>1. resp[r] \in Responses
      BY <1>13 DEF WriteHistory, TypeInv, ResponsePlaced
    <2>2. HistoryRecordOf(r) \in HistoryRecords
      BY <2>1, PipelineAssumption DEF HistoryRecordOf, HistoryRecords, Responses
    <2>3. history' \in Seq(HistoryRecords)
      BY <1>13, <2>2 DEF WriteHistory, TypeInv, TypeOK
    <2>4. TypeOK'
      BY <1>13, PCNames, <2>3 DEF WriteHistory, TypeInv, TypeOK
    <2>5. ResponsePlaced'
      BY <1>13 DEF WriteHistory, TypeInv, TypeOK, ResponsePlaced, Unanswered
    <2> QED
      BY <2>4, <2>5 DEF TypeInv
  <1>14. ASSUME NEW r \in Requests, WriteHistoryFails(r) PROVE TypeInv'
    <2>1. warning' \in [Requests -> Warnings]
      BY <1>14 DEF WriteHistoryFails, WarnIfOffline, Warn, Warnings, TypeInv, TypeOK
    <2>4. resp[r] \in Responses
      BY <1>14 DEF WriteHistoryFails, TypeInv, ResponsePlaced
    <2>5. HistoryRecordOf(r) \in HistoryRecords
      BY <2>4, PipelineAssumption DEF HistoryRecordOf, HistoryRecords, Responses
    <2>6. history' \in Seq(HistoryRecords)
      <3>1. history' = history \/ history' = Append(history, HistoryRecordOf(r))
        BY <1>14 DEF WriteHistoryFails
      <3>2. history \in Seq(HistoryRecords)
        BY DEF TypeInv, TypeOK
      <3> QED
        BY <2>5, <3>1, <3>2
    <2>2. TypeOK'
      BY <1>14, PCNames, <2>1, <2>6 DEF WriteHistoryFails, TypeInv, TypeOK
    <2>3. ResponsePlaced'
      BY <1>14 DEF WriteHistoryFails, TypeInv, TypeOK, ResponsePlaced, Unanswered
    <2> QED
      BY <2>2, <2>3 DEF TypeInv
  <1>15. ASSUME NEW r \in Requests, WriteHistoryInvalid(r) PROVE TypeInv'
    <2>1. warning' \in [Requests -> Warnings]
      BY <1>15 DEF WriteHistoryInvalid, WarnIfOffline, Warn, Warnings, TypeInv, TypeOK
    <2>2. TypeOK'
      BY <1>15, PCNames, <2>1 DEF WriteHistoryInvalid, TypeInv, TypeOK
    <2>3. ResponsePlaced'
      BY <1>15 DEF WriteHistoryInvalid, TypeInv, TypeOK, ResponsePlaced, Unanswered
    <2> QED
      BY <2>2, <2>3 DEF TypeInv
  <1>16. ASSUME Forget PROVE TypeInv'
    BY <1>16, ShrunkIsSmaller DEF Forget, TypeInv, TypeOK, ResponsePlaced
  <1>17. ASSUME Restart PROVE TypeInv'
    BY <1>17, RestartTypeInv
  <1>18. ASSUME UNCHANGED vars PROVE TypeInv'
    BY <1>18 DEF vars, TypeInv, TypeOK, ResponsePlaced
  <1>19. ASSUME NEW r \in Requests, LateStore(r) PROVE TypeInv'
    <2>1. resp[r] \in Responses
      BY <1>19 DEF LateStore, TypeInv, ResponsePlaced
    <2>2. cache' \in [Keys -> SUBSET Responses]
      BY <1>19, <2>1, KeyOfType, RememberAddsOne DEF LateStore, TypeInv
    <2> QED
      BY <1>19, <2>2 DEF LateStore, TypeInv, TypeOK, ResponsePlaced
  <1> QED
    BY <1>1, <1>2, <1>3, <1>4, <1>5, <1>6, <1>7, <1>8, <1>9, <1>10, <1>11, <1>12,
       <1>13, <1>14, <1>15, <1>16, <1>17, <1>18, <1>19 DEF Next, Handle, Background

\* Every variable keeps its type, responses are well-formed wherever a stage
\* reads one: scores in 0..100, verdicts from the three of response.py:94
\* (verify.py:115-435, llm_judge.py:156-242).
THEOREM TypeCorrect == Spec => []TypeOK
  <1>1. Spec => []TypeInv
    BY InitTypeInv, NextTypeInv, PTL DEF Spec
  <1>2. TypeInv => TypeOK
    BY DEF TypeInv
  <1> QED
    BY <1>1, <1>2, PTL

-----------------------------------------------------------------------------
(* The cache and the hits it serves.                                       *)

\* The request a hit names ran the pipeline for the same cache key.
HitTraced ==
    \A r \in Requests : IsHit(r) =>
        /\ KeyOf(resp[r].request_id) = KeyOf(r)
        /\ resp[resp[r].request_id] = Fresh(resp[r])

CacheInv == TypeInv /\ CacheSound /\ HitTraced

LEMMA FreshIsResponse ==
    ASSUME NEW e \in Responses
    PROVE  /\ Fresh(e) \in Responses
           /\ ~Fresh(e).cache_hit
           /\ Fresh(e).request_id = e.request_id
           /\ ~e.cache_hit => Fresh(e) = e
  BY DEF Fresh, Responses

\* Forgetting, and every step that touches neither responses nor entries.
LEMMA SmallerCacheKeeps ==
    ASSUME CacheInv, TypeInv', resp' = resp,
           \A k \in Keys : cache'[k] \subseteq cache[k]
    PROVE  CacheInv'
  BY DEF CacheInv, CacheSound, HitTraced, IsHit

\* A request that had no response gets a fresh one of its own.
LEMMA FreshResponseKeeps ==
    ASSUME CacheInv, TypeInv', cache' = cache,
           NEW r \in Requests, resp[r] = NoResponse,
           NEW e \in Responses, e.request_id = r, ~e.cache_hit,
           resp' = [resp EXCEPT ![r] = e]
    PROVE  CacheInv'
  <1>1. \A s \in Requests : resp'[s] = IF s = r THEN e ELSE resp[s]
    BY DEF CacheInv, TypeInv, TypeOK
  <1>2. CacheSound'
    <2> SUFFICES ASSUME NEW k \in Keys, NEW x \in cache[k]
                 PROVE  KeyOf(x.request_id) = k /\ resp'[x.request_id] = Fresh(x)
      BY DEF CacheSound
    <2>1. x \in Responses
      BY DEF CacheInv, TypeInv, TypeOK
    <2>2. KeyOf(x.request_id) = k /\ resp[x.request_id] = Fresh(x)
      BY DEF CacheInv, CacheSound
    <2>3. x.request_id \in Requests /\ x.request_id # r
      BY <2>1, <2>2, FreshIsResponse, NoResponseAssumption DEF Responses
    <2> QED
      BY <1>1, <2>2, <2>3
  <1>3. HitTraced'
    <2> SUFFICES ASSUME NEW s \in Requests, IsHit(s)'
                 PROVE  /\ KeyOf(resp'[s].request_id) = KeyOf(s)
                        /\ resp'[resp'[s].request_id] = Fresh(resp'[s])
      BY DEF HitTraced
    <2>1. s # r /\ resp'[s] = resp[s] /\ IsHit(s)
      BY <1>1 DEF IsHit
    <2>2. resp[s] \in Responses
      BY <2>1 DEF IsHit, CacheInv, TypeInv, TypeOK
    <2>3. /\ KeyOf(resp[s].request_id) = KeyOf(s)
          /\ resp[resp[s].request_id] = Fresh(resp[s])
      BY <2>1 DEF CacheInv, HitTraced
    <2>4. resp[s].request_id \in Requests /\ resp[s].request_id # r
      BY <2>2, <2>3, FreshIsResponse, NoResponseAssumption DEF Responses
    <2> QED
      BY <1>1, <2>1, <2>3, <2>4
  <1> QED
    BY <1>2, <1>3 DEF CacheInv

LEMMA LookupHitKeeps ==
    ASSUME CacheInv, TypeInv', NEW r \in Requests, LookupHit(r)
    PROVE  CacheInv'
  <1> DEFINE hit(e) == [e EXCEPT !.cache_hit = TRUE]
  <1>1. PICK e \in cache[KeyOf(r)] :
           /\ resp' = [resp EXCEPT ![r] = hit(e)]
           /\ Remember(KeyOf(r), hit(e)) \/ UNCHANGED cache
    BY DEF LookupHit
  <1>2. e \in Responses
    BY KeyOfType DEF CacheInv, TypeInv, TypeOK
  <1>3. /\ hit(e) \in Responses
        /\ hit(e).cache_hit
        /\ hit(e).request_id = e.request_id
        /\ Fresh(hit(e)) = Fresh(e)
    BY <1>2 DEF Responses, Fresh
  <1> DEFINE o == e.request_id
  <1>4. KeyOf(o) = KeyOf(r) /\ resp[o] = Fresh(e)
    BY KeyOfType DEF CacheInv, CacheSound
  <1>5. resp[r] = NoResponse
    BY DEF LookupHit, CacheInv, TypeInv, ResponsePlaced, Unanswered
  <1>6. o \in Requests /\ o # r
    BY <1>2, <1>4, <1>5, FreshIsResponse, NoResponseAssumption DEF Responses
  <1> HIDE DEF hit
  <1>7. \A s \in Requests : resp'[s] = IF s = r THEN hit(e) ELSE resp[s]
    BY <1>1 DEF CacheInv, TypeInv, TypeOK
  <1>8. \A k \in Keys : \A x \in cache'[k] :
           x \in cache[k] \/ (k = KeyOf(r) /\ x = hit(e))
    BY <1>1, <1>3, KeyOfType, RememberAddsOne DEF CacheInv, TypeInv
  <1>9. CacheSound'
    <2> SUFFICES ASSUME NEW k \in Keys, NEW x \in cache'[k]
                 PROVE  KeyOf(x.request_id) = k /\ resp'[x.request_id] = Fresh(x)
      BY DEF CacheSound
    <2>1. CASE k = KeyOf(r) /\ x = hit(e)
      BY <2>1, <1>3, <1>4, <1>6, <1>7
    <2>2. CASE x \in cache[k]
      <3>1. x \in Responses
        BY <2>2 DEF CacheInv, TypeInv, TypeOK
      <3>2. KeyOf(x.request_id) = k /\ resp[x.request_id] = Fresh(x)
        BY <2>2 DEF CacheInv, CacheSound
      <3>3. x.request_id \in Requests /\ x.request_id # r
        BY <3>1, <3>2, <1>5, FreshIsResponse, NoResponseAssumption DEF Responses
      <3> QED
        BY <3>2, <3>3, <1>7
    <2> QED
      BY <2>1, <2>2, <1>8
  <1>10. HitTraced'
    <2> SUFFICES ASSUME NEW s \in Requests, IsHit(s)'
                 PROVE  /\ KeyOf(resp'[s].request_id) = KeyOf(s)
                        /\ resp'[resp'[s].request_id] = Fresh(resp'[s])
      BY DEF HitTraced
    <2>1. CASE s = r
      BY <2>1, <1>3, <1>4, <1>6, <1>7
    <2>2. CASE s # r
      <3>1. resp'[s] = resp[s] /\ IsHit(s)
        BY <2>2, <1>7 DEF IsHit
      <3>2. resp[s] \in Responses
        BY <3>1 DEF IsHit, CacheInv, TypeInv, TypeOK
      <3>3. /\ KeyOf(resp[s].request_id) = KeyOf(s)
            /\ resp[resp[s].request_id] = Fresh(resp[s])
        BY <3>1 DEF CacheInv, HitTraced
      <3>4. resp[s].request_id \in Requests /\ resp[s].request_id # r
        BY <3>2, <3>3, <1>5, FreshIsResponse, NoResponseAssumption DEF Responses
      <3> QED
        BY <3>1, <3>3, <3>4, <1>7
    <2> QED
      BY <2>1, <2>2
  <1> QED
    BY <1>9, <1>10 DEF CacheInv

LEMMA StoreKeeps ==
    ASSUME CacheInv, TypeInv', NEW r \in Requests, Store(r) \/ LateStore(r)
    PROVE  CacheInv'
  <1>1. /\ resp[r] \in Responses
        /\ resp[r].request_id = r
        /\ Fresh(resp[r]) = resp[r]
    BY FreshIsResponse DEF Store, LateStore, CacheInv, TypeInv, ResponsePlaced
  <1>2. resp' = resp
    BY DEF Store, LateStore
  <1>3. \A k \in Keys : \A x \in cache'[k] :
           x \in cache[k] \/ (k = KeyOf(r) /\ x = resp[r])
    BY <1>1, KeyOfType, RememberAddsOne DEF Store, LateStore, CacheInv, TypeInv
  <1>4. CacheSound'
    BY <1>1, <1>2, <1>3 DEF CacheInv, CacheSound
  <1>5. HitTraced'
    BY <1>2 DEF CacheInv, HitTraced, IsHit
  <1> QED
    BY <1>4, <1>5 DEF CacheInv

LEMMA JudgeKeeps ==
    ASSUME CacheInv, TypeInv', NEW r \in Requests, Judge(r)
    PROVE  CacheInv'
  <1>1. PICK j \in Judgements(r) : resp' = [resp EXCEPT ![r] = ResponseTo(r, j)]
    BY DEF Judge
  <1>2. ResponseTo(r, j) \in Responses
    BY JudgementMakesResponse
  <1>3. ResponseTo(r, j).request_id = r /\ ~ResponseTo(r, j).cache_hit
    BY DEF ResponseTo
  <1>4. resp[r] = NoResponse /\ cache' = cache
    BY DEF Judge, CacheInv, TypeInv, ResponsePlaced, Unanswered, stores
  <1> QED
    BY <1>1, <1>2, <1>3, <1>4, FreshResponseKeeps

\* Every step but the hit, the judgement and the stores is of this kind.
LEMMA OtherStepsForget ==
    ASSUME TypeInv, [Next]_vars,
           \A r \in Requests : ~LookupHit(r) /\ ~Judge(r) /\ ~Store(r) /\ ~LateStore(r)
    PROVE  resp' = resp /\ \A k \in Keys : cache'[k] \subseteq cache[k]
  <1>1. CASE \E r \in Requests : Admit(r) \/ Reject(r) \/ Handle(r) \/ Background(r)
    BY <1>1 DEF Handle, Background, Admit, Reject, LookupMiss, Preprocess, PreprocessFails,
       Retrieve, Consensus, Respond, RecordEvent, WriteHistory,
       WriteHistoryFails, WriteHistoryInvalid, stores
  <1>2. CASE Forget \/ Restart
    BY <1>2, ShrunkIsSmaller DEF Forget, Restart, TypeInv
  <1>3. CASE UNCHANGED vars
    BY <1>3 DEF vars, stores
  <1> QED
    BY <1>1, <1>2, <1>3 DEF Next

LEMMA InitCacheInv == Init => CacheInv
  <1> SUFFICES ASSUME Init PROVE CacheInv
    OBVIOUS
  <1>1. CacheSound
    BY DEF Init, CacheSound
  <1>2. HitTraced
    BY DEF Init, HitTraced, IsHit
  <1> QED
    BY <1>1, <1>2, InitTypeInv DEF CacheInv

LEMMA NextCacheInv == CacheInv /\ [Next]_vars => CacheInv'
  <1> SUFFICES ASSUME CacheInv, [Next]_vars PROVE CacheInv'
    OBVIOUS
  <1>1. TypeInv'
    BY NextTypeInv DEF CacheInv
  <1>2. CASE \E r \in Requests : LookupHit(r)
    BY <1>1, <1>2, LookupHitKeeps
  <1>3. CASE \E r \in Requests : Judge(r)
    BY <1>1, <1>3, JudgeKeeps
  <1>4. CASE \E r \in Requests : Store(r) \/ LateStore(r)
    BY <1>1, <1>4, StoreKeeps
  <1>5. CASE \A r \in Requests : ~LookupHit(r) /\ ~Judge(r) /\ ~Store(r) /\ ~LateStore(r)
    BY <1>1, <1>5, OtherStepsForget, SmallerCacheKeeps DEF CacheInv
  <1> QED
    BY <1>2, <1>3, <1>4, <1>5

LEMMA CacheInvHolds == Spec => []CacheInv
  BY InitCacheInv, NextCacheInv, PTL DEF Spec

\* Whatever the interleaving of requests, expiries and restarts, the cache
\* returns under a key only what a request for that key computed itself
\* (verify.py:145-182, 361).
THEOREM CacheHoldsOwnResults == Spec => []CacheSound
  <1>1. CacheInv => CacheSound
    BY DEF CacheInv
  <1> QED
    BY <1>1, CacheInvHolds, PTL

\* A hit is the verdict of another request on the same text, question and
\* answer read as one, whatever the requests and however they interleave with
\* stores, expiries and restarts (verify.py:145-182).
THEOREM HitsAnswerTheText == Spec => []HitServesSameText
  <1>1. CacheInv => HitServesSameText
    <2> SUFFICES ASSUME CacheInv, NEW r \in Requests, IsHit(r)
                 PROVE  LET o == resp[r].request_id
                        IN  /\ o # r
                            /\ Strip(Question[o]) \o Strip(Answer[o])
                                 = Strip(Question[r]) \o Strip(Answer[r])
                            /\ resp[o] = Fresh(resp[r])
      BY DEF HitServesSameText
    <2>1. resp[r] \in Responses
      BY DEF IsHit, CacheInv, TypeInv, TypeOK
    <2>2. /\ KeyOf(resp[r].request_id) = KeyOf(r)
          /\ resp[resp[r].request_id] = Fresh(resp[r])
      BY DEF CacheInv, HitTraced
    <2>3. resp[r].request_id # r
      BY <2>1, <2>2, FreshIsResponse DEF IsHit
    <2> QED
      BY <2>2, <2>3 DEF KeyOf
  <1> QED
    BY <1>1, CacheInvHolds, PTL

-----------------------------------------------------------------------------
(* Verdicts and flags.                                                     *)

Consistent(e) == /\ e.verdict = "hallucination" => e.flag
                 /\ e.verdict = "accurate" => ~e.flag

LEMMA JudgementIsConsistent ==
    ASSUME NEW r \in Requests, NEW j \in Judgements(r)
    PROVE  Consistent(ResponseTo(r, j))
  <1>1. /\ j.score \in Int
        /\ j.score < 40 => j.flag
        /\ j.score >= 70 => ~j.flag
    <2>1. CASE j = Heuristic
      BY <2>1 DEF Heuristic
    <2>2. CASE j # Heuristic
      <3>1. PICK s \in RawScores[r] : j = Parsed(s)
        BY <2>2 DEF Judgements
      <3>2. Clamp(s) \in Int
        BY PipelineAssumption DEF Clamp
      <3>3. j.score = Clamp(s) /\ (j.flag <=> Clamp(s) < 60)
        BY <3>1 DEF Parsed
      <3> QED
        BY <3>2, <3>3
    <2> QED
      BY <2>1, <2>2
  <1>2. VerdictFor(j.score) = "hallucination" <=> j.score < 40
    BY <1>1 DEF VerdictFor
  <1>3. VerdictFor(j.score) = "accurate" <=> j.score >= 70
    BY <1>1 DEF VerdictFor
  <1>4. /\ ResponseTo(r, j).verdict = VerdictFor(j.score)
        /\ ResponseTo(r, j).flag = j.flag
    BY DEF ResponseTo
  <1> QED
    BY <1>1, <1>2, <1>3, <1>4 DEF Consistent

\* The flag shown to the user never contradicts the verdict, fresh or cached
\* (llm_judge.py:173-207, response.py:176-198, verify.py:161-162).
THEOREM FlagsAgree == Spec => []FlagMatchesVerdict
  <1>1. Init => FlagMatchesVerdict
    BY DEF Init, FlagMatchesVerdict
  <1>2. CacheInv /\ FlagMatchesVerdict /\ [Next]_vars => FlagMatchesVerdict'
    <2> SUFFICES ASSUME CacheInv, FlagMatchesVerdict, [Next]_vars
                 PROVE  FlagMatchesVerdict'
      OBVIOUS
    <2>1. ASSUME NEW r \in Requests, NEW e \in Responses, Consistent(e),
                 resp' = [resp EXCEPT ![r] = e]
          PROVE  FlagMatchesVerdict'
      <3>1. \A s \in Requests : resp'[s] = IF s = r THEN e ELSE resp[s]
        BY <2>1 DEF CacheInv, TypeInv, TypeOK
      <3> QED
        BY <2>1, <3>1 DEF FlagMatchesVerdict, Consistent
    <2>2. ASSUME NEW r \in Requests, LookupHit(r) PROVE FlagMatchesVerdict'
      <3> DEFINE hit(e) == [e EXCEPT !.cache_hit = TRUE]
      <3>1. PICK e \in cache[KeyOf(r)] : resp' = [resp EXCEPT ![r] = hit(e)]
        BY <2>2 DEF LookupHit
      <3>2. e \in Responses
        BY KeyOfType DEF CacheInv, TypeInv, TypeOK
      <3>3. resp[e.request_id] = Fresh(e) /\ e.request_id \in Requests
        BY <3>2, KeyOfType DEF CacheInv, CacheSound, Responses
      <3>4. Fresh(e) \in Responses
        BY <3>2, FreshIsResponse
      <3>5. Consistent(Fresh(e))
        BY <3>3, <3>4, NoResponseAssumption DEF FlagMatchesVerdict, Consistent
      <3>6. hit(e) \in Responses /\ Consistent(hit(e))
        BY <3>2, <3>5 DEF Consistent, Fresh, Responses
      <3> QED
        BY <3>1, <3>6, <2>1
    <2>3. ASSUME NEW r \in Requests, Judge(r) PROVE FlagMatchesVerdict'
      <3>1. PICK j \in Judgements(r) : resp' = [resp EXCEPT ![r] = ResponseTo(r, j)]
        BY <2>3 DEF Judge
      <3> QED
        BY <2>1, <3>1, JudgementMakesResponse, JudgementIsConsistent
    <2>4. CASE resp' = resp
      BY <2>4 DEF FlagMatchesVerdict
    <2>5. (\A r \in Requests : ~LookupHit(r) /\ ~Judge(r)) => resp' = resp
      <3>1. (\E r \in Requests : Store(r) \/ LateStore(r)) => resp' = resp
        BY DEF Store, LateStore
      <3> QED
        BY <3>1, OtherStepsForget DEF CacheInv
    <2> QED
      BY <2>2, <2>3, <2>4, <2>5
  <1> QED
    BY <1>1, <1>2, CacheInvHolds, PTL DEF Spec

-----------------------------------------------------------------------------
(* Lifetimes.                                                              *)

\* Confidence is only ever lowered by a mediator, which needs two sources,
\* which an opinion never has.
EvidenceInv ==
    \A r \in Requests : TypeOf[r] = "opinion_subjective" =>
        sources[r] = 0 /\ confidence[r] = 100

LEMMA LifetimeWithinType ==
    ASSUME NEW r \in Requests, EvidenceInv
    PROVE  CacheTTL(r) <= QueryTypeTTL(TypeOf[r])
  <1>1. TypeOf[r] \in QueryTypes
    BY PipelineAssumption
  <1>2. TypeOf[r] # "opinion_subjective" => QueryTypeTTL(TypeOf[r]) >= 3600
    BY <1>1 DEF QueryTypeTTL, QueryTypes
  <1>3. QueryTypeTTL(TypeOf[r]) \in Nat
    BY DEF QueryTypeTTL
  <1>4. TypeOf[r] = "opinion_subjective" => ~(confidence[r] < 50)
    BY DEF EvidenceInv
  <1> QED
    BY <1>2, <1>3, <1>4 DEF CacheTTL

\* Low confidence never prolongs the life of a verdict beyond what its query
\* type allows (verify.py:46-52, 238-246, 349-361; source_router.py:58-67).
THEOREM LifetimesBounded == Spec => []TTLWithinPolicy
  <1> DEFINE Inv == EvidenceInv /\ TTLWithinPolicy
  <1>1. Init => Inv
    <2>1. \A r \in Requests : QueryTypeTTL(TypeOf[r]) >= 0
      BY DEF QueryTypeTTL
    <2> QED
      BY <2>1 DEF Init, EvidenceInv, TTLWithinPolicy
  <1>2. TypeOK /\ Inv /\ [Next]_vars => Inv'
    <2> SUFFICES ASSUME TypeOK, EvidenceInv, TTLWithinPolicy, [Next]_vars PROVE Inv'
      OBVIOUS
    <2> USE DEF locals, stores
    <2>1. ASSUME NEW r \in Requests, Judge(r) PROVE Inv'
      <3>1. EvidenceInv'
        BY <2>1 DEF Judge, DropEvidence, EvidenceInv, TypeOK
      <3>2. TTLWithinPolicy'
        BY <2>1, LifetimeWithinType DEF Judge, TTLWithinPolicy, TypeOK
      <3> QED
        BY <3>1, <3>2
    <2>2. ASSUME NEW r \in Requests, Retrieve(r) PROVE Inv'
      <3>1. PICK n \in 0 .. (IF claims[r] THEN Cardinality(SourcesFor(TypeOf[r])) ELSE 0) :
               sources' = [sources EXCEPT ![r] = n]
        BY <2>2 DEF Retrieve
      <3>2. TypeOf[r] = "opinion_subjective" => n = 0
        <4>1. SourcesFor("opinion_subjective") = {}
          BY DEF SourcesFor
        <4>2. Cardinality(SourcesFor("opinion_subjective")) = 0
          BY <4>1, FS_EmptySet
        <4> QED
          BY <3>1, <4>2
      <3>3. EvidenceInv'
        BY <2>2, <3>1, <3>2 DEF Retrieve, EvidenceInv, TypeOK
      <3> QED
        BY <2>2, <3>3 DEF Retrieve, TTLWithinPolicy
    <2>3. ASSUME NEW r \in Requests, Consensus(r) PROVE Inv'
      <3>1. PICK percent \in (IF sources[r] > 1 THEN Confidences ELSE {100}) :
               confidence' = [confidence EXCEPT ![r] = percent]
        BY <2>3 DEF Consensus
      <3>2. TypeOf[r] = "opinion_subjective" => percent = 100
        BY <3>1 DEF EvidenceInv
      <3>3. EvidenceInv'
        BY <2>3, <3>1, <3>2 DEF Consensus, EvidenceInv, TypeOK
      <3> QED
        BY <2>3, <3>3 DEF Consensus, TTLWithinPolicy
    <2>4. ASSUME NEW r \in Requests,
                 \/ LookupHit(r) \/ PreprocessFails(r) \/ Respond(r)
          PROVE  Inv'
      BY <2>4 DEF LookupHit, PreprocessFails, Respond, Return, DropEvidence,
         EvidenceInv, TTLWithinPolicy, TypeOK
    <2>5. ASSUME NEW r \in Requests,
                 \/ Admit(r) \/ Reject(r) \/ LookupMiss(r) \/ Preprocess(r)
                 \/ Store(r) \/ RecordEvent(r) \/ WriteHistory(r)
                 \/ WriteHistoryFails(r) \/ WriteHistoryInvalid(r) \/ LateStore(r)
          PROVE  Inv'
      BY <2>5 DEF Admit, Reject, LookupMiss, Preprocess, Store, RecordEvent,
         WriteHistory, WriteHistoryFails, WriteHistoryInvalid, LateStore,
         EvidenceInv, TTLWithinPolicy
    <2>6. CASE Forget \/ Restart
      BY <2>6 DEF Forget, Restart, EvidenceInv, TTLWithinPolicy
    <2>7. CASE UNCHANGED vars
      BY <2>7 DEF vars, EvidenceInv, TTLWithinPolicy
    <2> QED
      BY <2>1, <2>2, <2>3, <2>4, <2>5, <2>6, <2>7 DEF Next, Handle, Background
  <1>3. Inv => TTLWithinPolicy
    OBVIOUS
  <1> QED
    BY <1>1, <1>2, <1>3, TypeCorrect, PTL DEF Spec

-----------------------------------------------------------------------------
(* The background writes: the two MongoDB collections, strengthened by     *)
(* where the coroutine of a recorded request is, past the write, so that   *)
(* it never writes again.                                                  *)

HistoryPlaced ==
    \A i \in DOMAIN history :
        LET r == history[i].request_id
        IN  /\ r \in Requests
            /\ pc[r] \in {"done", "lost"}
            /\ resp[r] # NoResponse
            /\ history[i] = HistoryRecordOf(r)

EventsPlaced ==
    \A i \in DOMAIN events :
        LET r == events[i].request_id
        IN  /\ r \in Requests
            /\ pc[r] \in {"history", "done", "lost"}
            /\ resp[r] # NoResponse /\ ~IsHit(r)
            /\ events[i].score = resp[r].score
            /\ events[i].user_id = UserOf[r]

WarnedAtTheEnd == \A r \in Requests : pc[r] # "done" => warning[r] = "none"

AuditInv ==
    /\ TypeInv
    /\ HistoryPlaced /\ OnceEach(history)
    /\ EventsPlaced /\ OnceEach(events)
    /\ WarnedAtTheEnd
    /\ AccountedFor

\* A log grows by a record of a request it does not name yet.
LEMMA AppendKeepsOnceEach ==
    ASSUME NEW S, NEW log \in Seq(S), NEW e \in S, OnceEach(log),
           \A i \in DOMAIN log : log[i].request_id # e.request_id
    PROVE  OnceEach(Append(log, e))
  <1>1. /\ DOMAIN log = 1 .. Len(log) /\ Len(log) \in Nat
        /\ DOMAIN Append(log, e) = 1 .. Len(log) + 1
        /\ \A i \in 1 .. Len(log) : Append(log, e)[i] = log[i]
        /\ Append(log, e)[Len(log) + 1] = e
    OBVIOUS
  <1> QED
    BY <1>1 DEF OnceEach

\* What a step that writes to neither collection must leave alone.
LEMMA UnwrittenKeeps ==
    ASSUME AuditInv, TypeInv', history' = history, events' = events,
           \A r \in Requests : pc[r] \in {"history", "done", "lost"} =>
               resp'[r] = resp[r] /\ (pc'[r] = pc[r] \/ pc'[r] = "lost"),
           \A r \in Requests : pc[r] = "done" =>
               pc'[r] = "done" /\ warning'[r] = warning[r],
           \A r \in Requests : pc[r] # "done" /\ pc'[r] = "done" =>
               warning'[r] = "offline",
           \A r \in Requests : pc'[r] # "done" => warning'[r] = "none"
    PROVE  AuditInv'
  <1>1. HistoryPlaced'
    BY DEF AuditInv, HistoryPlaced, HistoryRecordOf
  <1>2. EventsPlaced'
    BY DEF AuditInv, EventsPlaced, IsHit
  <1>3. OnceEach(history)' /\ OnceEach(events)'
    BY DEF AuditInv, OnceEach
  <1>4. WarnedAtTheEnd'
    BY DEF WarnedAtTheEnd
  <1>5. AccountedFor'
    <2> SUFFICES ASSUME NEW r \in Requests, pc'[r] = "done"
                 PROVE  /\ Recorded(r)' \/ warning'[r] # "none"
                        /\ warning'[r] \in {"offline", "invalid"} => ~Recorded(r)'
      BY DEF AccountedFor
    <2>1. CASE pc[r] = "done"
      BY <2>1 DEF AuditInv, AccountedFor, Recorded
    <2>2. CASE pc[r] # "done"
      <3>1. warning'[r] = "offline"
        BY <2>2
      <3>2. pc[r] # "lost"
        BY <2>2
      <3>3. ~Recorded(r)'
        BY <2>2, <3>2 DEF AuditInv, HistoryPlaced, Recorded
      <3> QED
        BY <3>1, <3>3
    <2> QED
      BY <2>1, <2>2
  <1> QED
    BY <1>1, <1>2, <1>3, <1>4, <1>5 DEF AuditInv

\* The three steps that write history, or try to.
LEMMA HistoryStepKeeps ==
    ASSUME AuditInv, TypeInv', NEW r \in Requests, pc[r] = "history",
           pc' = [pc EXCEPT ![r] = "done"], resp' = resp, events' = events,
           \/ /\ history' = Append(history, HistoryRecordOf(r))
              /\ warning' = warning \/ warning' = [warning EXCEPT ![r] = "refused"]
           \/ /\ history' = history
              /\ \E w \in {"refused", "invalid"} : warning' = [warning EXCEPT ![r] = w]
    PROVE  AuditInv'
  <1> DEFINE rec == HistoryRecordOf(r)
  <1>1. rec.request_id = r
    BY DEF HistoryRecordOf
  <1>2. \A i \in DOMAIN history : history[i].request_id # r
    BY DEF AuditInv, HistoryPlaced
  <1>3. resp[r] # NoResponse
    BY NoResponseAssumption DEF AuditInv, TypeInv, ResponsePlaced
  <1>4. \A s \in Requests : pc'[s] = IF s = r THEN "done" ELSE pc[s]
    BY DEF AuditInv, TypeInv, TypeOK
  <1>5. rec \in HistoryRecords
    BY PipelineAssumption DEF HistoryRecordOf, HistoryRecords, AuditInv, TypeInv,
       ResponsePlaced, Responses
  <1>6. history \in Seq(HistoryRecords)
    BY DEF AuditInv, TypeInv, TypeOK
  <1> HIDE DEF rec
  <1>7. history' = history \/
        /\ history' = Append(history, rec)
        /\ DOMAIN history' = DOMAIN history \cup {Len(history) + 1}
        /\ \A i \in DOMAIN history : history'[i] = history[i]
        /\ history'[Len(history) + 1] = rec
    <2>1. history' = history \/ history' = Append(history, rec)
      BY DEF rec
    <2>2. /\ DOMAIN history = 1 .. Len(history) /\ Len(history) \in Nat
          /\ DOMAIN Append(history, rec) = 1 .. Len(history) + 1
          /\ \A i \in 1 .. Len(history) : Append(history, rec)[i] = history[i]
          /\ Append(history, rec)[Len(history) + 1] = rec
      BY <1>5, <1>6
    <2>3. 1 .. Len(history) + 1 = 1 .. Len(history) \cup {Len(history) + 1}
      BY <2>2
    <2> QED
      BY <2>1, <2>2, <2>3
  <1>8. HistoryPlaced'
    <2> DEFINE fits(x) == /\ x.request_id \in Requests
                          /\ pc'[x.request_id] \in {"done", "lost"}
                          /\ resp[x.request_id] # NoResponse
                          /\ x = HistoryRecordOf(x.request_id)
    <2>1. \A i \in DOMAIN history : fits(history[i])
      BY <1>4 DEF AuditInv, HistoryPlaced
    <2>2. fits(rec)
      BY <1>1, <1>3, <1>4 DEF rec
    <2> HIDE DEF fits
    <2>3. \A i \in DOMAIN history' : fits(history'[i])
      BY <1>7, <2>1, <2>2
    <2> QED
      BY <2>3 DEF fits, HistoryPlaced, HistoryRecordOf
  <1>9. OnceEach(history)'
    <2>1. CASE history' = history
      BY <2>1 DEF AuditInv, OnceEach
    <2>2. CASE history' = Append(history, rec)
      BY <2>2, <1>1, <1>2, <1>5, <1>6, AppendKeepsOnceEach DEF AuditInv
    <2> QED
      BY <1>7, <2>1, <2>2
  <1>10. EventsPlaced' /\ OnceEach(events)'
    BY <1>4 DEF AuditInv, EventsPlaced, OnceEach, IsHit
  <1>11. WarnedAtTheEnd'
    BY <1>4 DEF AuditInv, WarnedAtTheEnd, TypeInv, TypeOK
  <1>12. AccountedFor'
    <2> SUFFICES ASSUME NEW s \in Requests, pc'[s] = "done"
                 PROVE  /\ Recorded(s)' \/ warning'[s] # "none"
                        /\ warning'[s] \in {"offline", "invalid"} => ~Recorded(s)'
      BY DEF AccountedFor
    <2>1. CASE s # r
      <3>1. pc[s] = "done" /\ warning'[s] = warning[s]
        BY <1>4, <2>1 DEF AuditInv, TypeInv, TypeOK
      <3>2. Recorded(s)' <=> Recorded(s)
        BY <1>1, <1>7, <2>1 DEF Recorded
      <3> QED
        BY <3>1, <3>2 DEF AuditInv, AccountedFor
    <2>2. CASE s = r
      <3>1. warning[r] = "none"
        BY DEF AuditInv, WarnedAtTheEnd
      <3>2. CASE history' = Append(history, rec)
        BY <1>1, <1>7, <2>2, <3>1, <3>2 DEF Recorded, AuditInv, TypeInv, TypeOK
      <3>3. CASE history' = history /\ warning'[r] \in {"refused", "invalid"}
        BY <1>2, <2>2, <3>3 DEF Recorded
      <3> QED
        BY <3>2, <3>3 DEF AuditInv, TypeInv, TypeOK, rec
    <2> QED
      BY <2>1, <2>2
  <1> QED
    BY <1>8, <1>9, <1>10, <1>11, <1>12 DEF AuditInv

LEMMA RecordEventKeeps ==
    ASSUME AuditInv, TypeInv', NEW r \in Requests, RecordEvent(r)
    PROVE  AuditInv'
  <1> DEFINE event == [user_id |-> UserOf[r], request_id |-> r, score |-> resp[r].score]
  <1>1. /\ pc[r] = "event" /\ pc' = [pc EXCEPT ![r] = "history"]
        /\ resp' = resp /\ history' = history /\ warning' = warning
        /\ events' = events \/ events' = Append(events, event)
    BY DEF RecordEvent, Goto
  <1>2. \A i \in DOMAIN events : events[i].request_id # r
    BY <1>1 DEF AuditInv, EventsPlaced
  <1>3. resp[r] # NoResponse /\ ~IsHit(r) /\ resp[r] \in Responses
    BY <1>1, NoResponseAssumption DEF AuditInv, TypeInv, ResponsePlaced, IsHit
  <1>4. \A s \in Requests : pc'[s] = IF s = r THEN "history" ELSE pc[s]
    BY <1>1 DEF AuditInv, TypeInv, TypeOK
  <1>5. event \in EventRecords
    BY <1>3, PipelineAssumption DEF EventRecords, Responses
  <1>6. events \in Seq(EventRecords)
    BY DEF AuditInv, TypeInv, TypeOK
  <1>7. /\ event.request_id = r
        /\ event.score = resp[r].score
        /\ event.user_id = UserOf[r]
    OBVIOUS
  <1> HIDE DEF event
  <1>8. EventsPlaced'
    <2> DEFINE fits(x) == /\ x.request_id \in Requests
                          /\ pc'[x.request_id] \in {"history", "done", "lost"}
                          /\ resp[x.request_id] # NoResponse /\ ~IsHit(x.request_id)
                          /\ x.score = resp[x.request_id].score
                          /\ x.user_id = UserOf[x.request_id]
    <2>1. \A i \in DOMAIN events : fits(events[i])
      BY <1>4 DEF AuditInv, EventsPlaced
    <2>2. fits(event)
      BY <1>3, <1>4, <1>7
    <2>3. /\ DOMAIN events = 1 .. Len(events) /\ Len(events) \in Nat
          /\ DOMAIN Append(events, event) = 1 .. Len(events) + 1
          /\ \A i \in 1 .. Len(events) : Append(events, event)[i] = events[i]
          /\ Append(events, event)[Len(events) + 1] = event
      BY <1>5, <1>6
    <2> HIDE DEF fits
    <2>4. \A i \in DOMAIN Append(events, event) : fits(Append(events, event)[i])
      BY <2>1, <2>2, <2>3
    <2>5. \A i \in DOMAIN events' : fits(events'[i])
      BY <1>1, <2>1, <2>4
    <2> QED
      BY <1>1, <2>5 DEF fits, EventsPlaced, IsHit
  <1>9. OnceEach(events)'
    <2>1. CASE events' = events
      BY <2>1 DEF AuditInv, OnceEach
    <2>2. CASE events' = Append(events, event)
      BY <2>2, <1>2, <1>5, <1>6, <1>7, AppendKeepsOnceEach DEF AuditInv
    <2> QED
      BY <1>1, <2>1, <2>2
  <1>10. HistoryPlaced' /\ OnceEach(history)'
    BY <1>1, <1>4 DEF AuditInv, HistoryPlaced, HistoryRecordOf, OnceEach
  <1>11. WarnedAtTheEnd' /\ AccountedFor'
    BY <1>1, <1>4 DEF AuditInv, WarnedAtTheEnd, AccountedFor, Recorded
  <1> QED
    BY <1>8, <1>9, <1>10, <1>11 DEF AuditInv

LEMMA InitAuditInv == Init => AuditInv
  BY InitTypeInv DEF Init, AuditInv, HistoryPlaced, EventsPlaced, OnceEach,
     WarnedAtTheEnd, AccountedFor

LEMMA NextAuditInv == AuditInv /\ [Next]_vars => AuditInv'
  <1> SUFFICES ASSUME AuditInv, [Next]_vars PROVE AuditInv'
    OBVIOUS
  <1>0. TypeInv'
    BY NextTypeInv DEF AuditInv
  <1> USE DEF stores, locals, Goto
  <1>1. ASSUME NEW r \in Requests,
               \/ Admit(r) \/ Reject(r) \/ LookupMiss(r) \/ Preprocess(r)
               \/ PreprocessFails(r) \/ Retrieve(r) \/ Consensus(r) \/ Store(r)
               \/ LateStore(r)
        PROVE  AuditInv'
    <2>1. /\ history' = history /\ events' = events
          /\ resp' = resp /\ warning' = warning
      BY <1>1 DEF Admit, Reject, LookupMiss, Preprocess, PreprocessFails, Retrieve,
         Consensus, Store, LateStore
    <2>2. \A s \in Requests :
             pc'[s] = pc[s] \/ (/\ pc[s] \notin {"history", "done", "lost"}
                               /\ pc'[s] # "done")
      BY <1>1 DEF Admit, Reject, LookupMiss, Preprocess, PreprocessFails, Retrieve,
         Consensus, Store, LateStore, Return, AuditInv, TypeInv, TypeOK
    <2>3. \A s \in Requests : pc'[s] # "done" => warning'[s] = "none"
      BY <2>1, <2>2 DEF AuditInv, WarnedAtTheEnd
    <2> QED
      BY <1>0, <2>1, <2>2, <2>3, UnwrittenKeeps
  <1>2. ASSUME NEW r \in Requests, LookupHit(r) \/ Judge(r) \/ Respond(r)
        PROVE  AuditInv'
    <2>1. history' = history /\ events' = events
      BY <1>2 DEF LookupHit, Judge, Respond
    <2>2. pc[r] \in {"lookup", "judge", "respond"}
      BY <1>2 DEF LookupHit, Judge, Respond
    <2>3. \A s \in Requests \ {r} : pc'[s] = pc[s] /\ resp'[s] = resp[s]
      BY <1>2 DEF LookupHit, Judge, Respond, Return, AuditInv, TypeInv, TypeOK
    <2>4. \/ warning' = warning /\ pc'[r] # "done"
          \/ /\ warning' = [warning EXCEPT ![r] = "offline"]
             /\ pc'[r] = "done"
      BY <1>2 DEF LookupHit, Judge, Respond, Return, WarnIfOffline, Warn,
         AuditInv, TypeInv, TypeOK
    <2>5. \A s \in Requests \ {r} : warning'[s] = warning[s]
      BY <2>4 DEF AuditInv, TypeInv, TypeOK
    <2>6. warning[r] = "none" /\ (pc'[r] = "done" => warning'[r] = "offline")
      BY <2>2, <2>4 DEF AuditInv, WarnedAtTheEnd, TypeInv, TypeOK
    <2>7. \A s \in Requests : pc'[s] # "done" => warning'[s] = "none"
      BY <2>3, <2>4, <2>5, <2>6 DEF AuditInv, WarnedAtTheEnd
    <2> QED
      BY <1>0, <2>1, <2>2, <2>3, <2>5, <2>6, <2>7, UnwrittenKeeps
  <1>3. ASSUME NEW r \in Requests, RecordEvent(r) PROVE AuditInv'
    BY <1>0, <1>3, RecordEventKeeps
  <1>4. ASSUME NEW r \in Requests,
               WriteHistory(r) \/ WriteHistoryFails(r) \/ WriteHistoryInvalid(r)
        PROVE  AuditInv'
    <2>1. /\ pc[r] = "history" /\ pc' = [pc EXCEPT ![r] = "done"]
          /\ resp' = resp /\ events' = events
      BY <1>4 DEF WriteHistory, WriteHistoryFails, WriteHistoryInvalid
    <2>2. \/ /\ history' = Append(history, HistoryRecordOf(r))
             /\ warning' = warning \/ warning' = [warning EXCEPT ![r] = "refused"]
          \/ /\ history' = history
             /\ \E w \in {"refused", "invalid"} : warning' = [warning EXCEPT ![r] = w]
      BY <1>4 DEF WriteHistory, WriteHistoryFails, WriteHistoryInvalid, Warn
    <2> QED
      BY <1>0, <2>1, <2>2, HistoryStepKeeps
  <1>5. CASE Forget \/ Restart
    <2>1. /\ history' = history /\ events' = events
          /\ resp' = resp /\ warning' = warning
      BY <1>5 DEF Forget, Restart
    <2>2. \A s \in Requests : pc'[s] = pc[s] \/ (pc[s] # "done" /\ pc'[s] = "lost")
      BY <1>5 DEF Forget, Restart, Finished
    <2>3. \A s \in Requests : pc'[s] # "done" => warning'[s] = "none"
      BY <2>1, <2>2 DEF AuditInv, WarnedAtTheEnd
    <2> QED
      BY <1>0, <2>1, <2>2, <2>3, UnwrittenKeeps
  <1>6. CASE UNCHANGED vars
    BY <1>0, <1>6, UnwrittenKeeps DEF vars, AuditInv, WarnedAtTheEnd
  <1> QED
    BY <1>1, <1>2, <1>3, <1>4, <1>5, <1>6 DEF Next, Handle, Background

LEMMA AuditInvHolds == Spec => []AuditInv
  BY InitAuditInv, NextAuditInv, PTL DEF Spec

-----------------------------------------------------------------------------
(* The theorems.                                                           *)

\* However requests, failed inserts and restarts interleave, a user's history
\* holds each of his requests at most once, with what he was answered
\* (verify.py:60-108, 166-176, 414-424).
THEOREM HistoryTellsTheTruth == Spec => []HistoryFaithful
  <1>1. AuditInv => HistoryFaithful
    BY DEF AuditInv, HistoryPlaced, HistoryFaithful
  <1> QED
    BY <1>1, AuditInvHolds, PTL

\* The analytics count no cache hit and no run twice (verify.py:375-403).
THEOREM EventsAreFreshRuns == Spec => []EventsCountFreshRuns
  <1>1. AuditInv => EventsCountFreshRuns
    BY DEF AuditInv, EventsPlaced, EventsCountFreshRuns
  <1> QED
    BY <1>1, AuditInvHolds, PTL

\* No request that ran to its end goes missing without a word in the log
\* (verify.py:87-108, 166-181, 414-429, mongo.py:159-168).
THEOREM NobodyForgotten == Spec => []AccountedFor
  <1>1. AuditInv => AccountedFor
    BY DEF AuditInv
  <1> QED
    BY <1>1, AuditInvHolds, PTL

=============================================================================
