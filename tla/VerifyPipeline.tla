--------------------------- MODULE VerifyPipeline ---------------------------
(***************************************************************************)
(* POST /api/verify (app/api/routes/verify.py): concurrent requests of     *)
(* several users through cache lookup, claim extraction, retrieval,        *)
(* consensus, judgement, caching, and the background writes to MongoDB.    *)
(*                                                                         *)
(* A request is one coroutine on the event loop.  An action runs from one  *)
(* await that touches shared state, or that can fail on its own, to the    *)
(* next; between two awaits nothing else runs.  The result cache is the    *)
(* ResultCache that the two tiers of TieredCache implement.                *)
(***************************************************************************)
EXTENDS Integers, Sequences, FiniteSets, FiniteSetsExt

CONSTANTS
    Requests,    \* one POST each, named by its uuid4 request_id
    Users,       \* the ids a JWT can carry, sequences of characters
    UserOf,      \* the JWT sub claim each request carries
    Question,    \* Question[r], Answer[r]: the texts as received,
    Answer,      \*   sequences of characters
    Blank,       \* the characters str.strip removes
    MinLength,   \* min_length of both fields (5 in the code)
    TypeOf,      \* what determine_query_type says of each question
    RawScores,   \* RawScores[r]: integers the LLM may put under "score"
    Confidences, \* percentages the mediator reports, bounded by nothing; 100
                 \*   when it gives up
    MaxLate,     \* bound: SETEX commands given up and still under way
    NoResponse

QueryTypes == {"encyclopedic", "recent_event", "numeric_statistical",
               "opinion_subjective", "medical_health", "finance", "programming"}

ASSUME PipelineAssumption ==
    /\ UserOf \in [Requests -> Users]
    /\ TypeOf \in [Requests -> QueryTypes]
    /\ RawScores \in [Requests -> SUBSET Int]
    /\ MaxLate \in Nat
    /\ Confidences \subseteq Int /\ 100 \in Confidences

VARIABLES
    pc,         \* where each request's coroutine is
    claims,     \* locals of the coroutine: whether any claim was extracted,
    sources,    \*   how many sources returned evidence,
    confidence, \*   source_confidence, in percent
    resp,       \* final_response
    ttl,        \* cache_ttl passed to set_cached, 0 before
    cache,      \* per key, the responses a lookup can return
    late,       \* requests whose SETEX was given up and may still be executed
    db,         \* app.state.db is not None
    history,    \* the user_history collection, in insertion order
    events,     \* the events collection, in insertion order
    warning     \* what the log says against the request's history record

locals == <<claims, sources, confidence>>
stores == <<cache, late, history, events, warning>>
vars == <<pc, locals, resp, ttl, db, stores>>

Running   == {"lookup", "preprocess", "retrieve", "consensus", "judge",
              "store", "respond"}
Answered  == {"event", "history", "done"}
Finished  == {"rejected", "failed", "done", "lost"}
PCs       == {"new"} \cup Running \cup Answered \cup Finished

-----------------------------------------------------------------------------
(* The texts and their cache key.                                          *)

Solid(s) == {i \in DOMAIN s : s[i] # Blank}
Strip(s) == IF Solid(s) = {} THEN <<>> ELSE SubSeq(s, Min(Solid(s)), Max(Solid(s)))

\* pydantic checks min_length first; the validator strips afterwards.
Acceptable(r) == Len(Question[r]) >= MinLength /\ Len(Answer[r]) >= MinLength

\* Mutant: only the answer is hashed.
KeyOfAnswer(r) == Strip(Answer[r])

\* SHA-256 of question + answer, taken to be injective on its input.
KeyOf(r) == Strip(Question[r]) \o Strip(Answer[r])
Keys == {KeyOf(r) : r \in Requests}
KeyAsked == [r \in Requests |-> KeyOf(r)]

(* Scores and verdicts.                                                    *)

\* Mutant: the LLM's number is trusted.
NoClamp(s) == s

Clamp(s) == IF s < 0 THEN 0 ELSE IF s > 100 THEN 100 ELSE s

\* Mutant: the score read as a risk, as the field's description has it.
ParsedAsRisk(s) == [score |-> Clamp(s), flag |-> Clamp(s) > 60, explanation |-> "llm"]

\* _parse_judge_response; the verdict it reads is dropped by the next step.
Parsed(s) == [score |-> Clamp(s), flag |-> Clamp(s) < 60, explanation |-> "llm"]

\* _heuristic_judge: no client, the call raised, or the reply did not parse.
Heuristic == [score |-> 50, flag |-> FALSE, explanation |-> "unavailable"]

\* judge() catches every exception, so verify() always gets one of these and
\* its own fallback, with _judge_failed, is never taken.
Judgements(r) == {Heuristic} \cup {Parsed(s) : s \in RawScores[r]}

VerdictFor(score) ==
    IF score >= 70 THEN "accurate"
    ELSE IF score >= 40 THEN "uncertain" ELSE "hallucination"

\* judge_per_claim is called with request.question, where request is the
\* Starlette Request: the AttributeError is caught and leaves None.
ClaimResults(anyClaim) == "none"

\* VerifyResponse.from_judge_response.
ResponseTo(r, j) ==
    [request_id |-> r, score |-> j.score, verdict |-> VerdictFor(j.score),
     flag |-> j.flag, explanation |-> j.explanation,
     claim_results |-> ClaimResults(claims[r]), cache_hit |-> FALSE]

Responses ==
    [request_id : Requests, score : 0..100,
     verdict : {"accurate", "uncertain", "hallucination"}, flag : BOOLEAN,
     explanation : {"llm", "unavailable"}, claim_results : {"none", "scored"},
     cache_hit : BOOLEAN]

(* Routing and lifetimes.                                                  *)

\* Mutant: opinions routed by the default rule and the search engine.
SourcesForOpinionsToo(type) == {"serpapi", "wikipedia"}

SourcesFor(type) ==
    CASE type = "encyclopedic"        -> {"wikipedia", "serpapi", "scholar", "gov"}
      [] type = "recent_event"        -> {"serpapi", "wikipedia", "gov", "scholar", "news"}
      [] type = "numeric_statistical" -> {"wikipedia", "serpapi", "gov", "scholar", "finance"}
      [] type = "opinion_subjective"  -> {}
      [] type = "medical_health"      -> {"medical", "scholar", "gov"}
      [] type = "finance"             -> {"finance", "news", "serpapi"}
      [] type = "programming"         -> {"serpapi", "wikipedia"}

\* _QUERY_TYPE_TTL with its default, in seconds.
QueryTypeTTL(type) ==
    CASE type = "encyclopedic"        -> 604800
      [] type = "numeric_statistical" -> 86400
      [] type = "opinion_subjective"  -> 1800
      [] OTHER                        -> 3600

\* A low source confidence replaces the lifetime of the type.
CacheTTL(r) == IF confidence[r] < 50 THEN 3600 ELSE QueryTypeTTL(TypeOf[r])

ASSUME NoResponseAssumption == NoResponse \notin Responses

HistoryRecords == [user_id : {Strip(u) : u \in Users}, request_id : Requests, score : 0..100,
                   verdict : {"accurate", "uncertain", "hallucination"},
                   cache_hit : BOOLEAN]
EventRecords == [user_id : Users, request_id : Requests, score : 0..100]

Warnings == {"none", "offline", "refused", "invalid"}

TypeOK ==
    /\ pc \in [Requests -> PCs]
    /\ claims \in [Requests -> BOOLEAN]
    /\ sources \in [Requests -> Nat]
    /\ confidence \in [Requests -> Int]
    /\ resp \in [Requests -> Responses \cup {NoResponse}]
    /\ ttl \in [Requests -> Nat]
    /\ cache \in [Keys -> SUBSET Responses]
    /\ late \subseteq Requests
    /\ db \in BOOLEAN
    /\ history \in Seq(HistoryRecords)
    /\ events \in Seq(EventRecords)
    /\ warning \in [Requests -> Warnings]

Init ==
    /\ pc = [r \in Requests |-> "new"]
    /\ claims = [r \in Requests |-> FALSE]
    /\ sources = [r \in Requests |-> 0]
    /\ confidence = [r \in Requests |-> 100]
    /\ resp = [r \in Requests |-> NoResponse]
    /\ ttl = [r \in Requests |-> 0]
    /\ cache = [k \in Keys |-> {}]
    /\ late = {}
    /\ db \in BOOLEAN
    /\ history = <<>>
    /\ events = <<>>
    /\ warning = [r \in Requests |-> "none"]

-----------------------------------------------------------------------------
(* The result cache, through what ResultCache allows it to do.             *)

Cache == INSTANCE ResultCache
    WITH live <- cache, asked <- KeyAsked, reply <- resp, Clients <- Requests,
         Values <- Responses, Miss <- NoResponse, NoReply <- NoResponse,
         NoKey <- NoResponse

\* Some of the commands sent, given up by their callers, are still under way.
GiveUp(sent) ==
    \E more \in SUBSET sent :
        /\ Cardinality(late \cup more) <= MaxLate
        /\ late' = late \cup more

\* The entry becomes retrievable; others may be displaced.
Remember(k, e) ==
    \E kept \in Cache!Shrunk : cache' = [kept EXCEPT ![k] = @ \cup {e}]

Warn(r, reason) == warning' = [warning EXCEPT ![r] = reason]
WarnIfOffline(r) == IF db THEN UNCHANGED warning ELSE Warn(r, "offline")

Goto(r, label) == pc' = [pc EXCEPT ![r] = label]

\* Nothing reads what extraction, retrieval and consensus left behind any more.
DropEvidence(r) ==
    /\ claims' = [claims EXCEPT ![r] = FALSE]
    /\ sources' = [sources EXCEPT ![r] = 0]
    /\ confidence' = [confidence EXCEPT ![r] = 100]

\* verify returns and its locals are gone.
Return(r, label) == Goto(r, label) /\ DropEvidence(r)

\* Authentication, rate limit and validation pass.
Admit(r) ==
    /\ pc[r] = "new"
    /\ Acceptable(r)
    /\ Goto(r, "lookup")
    /\ UNCHANGED <<locals, resp, ttl, db, stores>>

\* 401, 403, 422 or 429: nothing of the handler runs.
Reject(r) ==
    /\ pc[r] = "new"
    /\ Goto(r, "rejected")
    /\ UNCHANGED <<locals, resp, ttl, db, stores>>

\* Mutant: a hit schedules both background tasks.
LookupHitCounted(r) ==
    /\ pc[r] = "lookup"
    /\ \E e \in cache[KeyOf(r)] :
         resp' = [resp EXCEPT ![r] = [e EXCEPT !.cache_hit = TRUE]]
    /\ Return(r, IF db THEN "event" ELSE "done")
    /\ WarnIfOffline(r)
    /\ UNCHANGED <<ttl, db, cache, late, history, events>>

\* Mutant: the cached object is also given the new request's id.
LookupHitRenamed(r) ==
    /\ pc[r] = "lookup"
    /\ \E e \in cache[KeyOf(r)] :
         LET hit == [e EXCEPT !.cache_hit = TRUE, !.request_id = r]
         IN  /\ resp' = [resp EXCEPT ![r] = hit]
             /\ Remember(KeyOf(r), hit) \/ UNCHANGED cache
    /\ Return(r, IF db THEN "history" ELSE "done")
    /\ WarnIfOffline(r)
    /\ UNCHANGED <<ttl, db, late, history, events>>

\* Layer 0, hit.  cache_hit is set in the very object the in-memory tier
\* holds, or in a fresh copy decoded from Redis.  Only history is scheduled.
LookupHit(r) ==
    /\ pc[r] = "lookup"
    /\ \E e \in cache[KeyOf(r)] :
         LET hit == [e EXCEPT !.cache_hit = TRUE]
         IN  /\ resp' = [resp EXCEPT ![r] = hit]
             /\ Remember(KeyOf(r), hit) \/ UNCHANGED cache
    /\ Return(r, IF db THEN "history" ELSE "done")
    /\ WarnIfOffline(r)
    /\ UNCHANGED <<ttl, db, late, history, events>>

LookupMiss(r) ==
    /\ pc[r] = "lookup"
    /\ Goto(r, "preprocess")
    /\ UNCHANGED <<locals, resp, ttl, db, stores>>

\* Layer 2: the LLM or the heuristic finds claims, or neither does.
Preprocess(r) ==
    /\ pc[r] = "preprocess"
    /\ \E found \in BOOLEAN : claims' = [claims EXCEPT ![r] = found]
    /\ Goto(r, "retrieve")
    /\ UNCHANGED <<sources, confidence, resp, ttl, db, stores>>

\* Layer 2 raises: HTTP 500.
PreprocessFails(r) ==
    /\ pc[r] = "preprocess"
    /\ Return(r, "failed")
    /\ UNCHANGED <<resp, ttl, db, stores>>

\* Layer 3: any of the routed sources may fail or know nothing, and an
\* exception of the whole layer leaves no evidence.
Retrieve(r) ==
    /\ pc[r] = "retrieve"
    /\ \E n \in 0 .. (IF claims[r] THEN Cardinality(SourcesFor(TypeOf[r])) ELSE 0) :
         sources' = [sources EXCEPT ![r] = n]
    /\ Goto(r, "consensus")
    /\ UNCHANGED <<claims, confidence, resp, ttl, db, stores>>

\* Layer 3b: only several sources are put to the mediator.
Consensus(r) ==
    /\ pc[r] = "consensus"
    /\ \E percent \in (IF sources[r] > 1 THEN Confidences ELSE {100}) :
         confidence' = [confidence EXCEPT ![r] = percent]
    /\ Goto(r, "judge")
    /\ UNCHANGED <<claims, sources, resp, ttl, db, stores>>

\* Layer 4 to the await of set_cached: the verdict, the response, its ttl.
Judge(r) ==
    /\ pc[r] = "judge"
    /\ \E j \in Judgements(r) : resp' = [resp EXCEPT ![r] = ResponseTo(r, j)]
    /\ ttl' = [ttl EXCEPT ![r] = CacheTTL(r)]
    /\ DropEvidence(r)
    /\ Goto(r, "store")
    /\ UNCHANGED <<db, stores>>

\* Layer 5b; an exception of the cache is not fatal, and a SETEX that timed
\* out may still reach Redis.
Store(r) ==
    /\ pc[r] = "store"
    /\ Remember(KeyOf(r), resp[r]) \/ UNCHANGED cache
    /\ GiveUp({r})
    /\ Goto(r, "respond")
    /\ UNCHANGED <<locals, resp, ttl, db, history, events, warning>>

\* The two background tasks are scheduled, in this order, and verify returns.
Respond(r) ==
    /\ pc[r] = "respond"
    /\ Return(r, IF db THEN "event" ELSE "done")
    /\ WarnIfOffline(r)
    /\ UNCHANGED <<resp, ttl, db, cache, late, history, events>>

\* record_async; a failed insert is logged and forgotten.
RecordEvent(r) ==
    /\ pc[r] = "event"
    /\ \/ events' = Append(events, [user_id |-> UserOf[r], request_id |-> r,
                                    score |-> resp[r].score])
       \/ UNCHANGED events
    /\ Goto(r, "history")
    /\ UNCHANGED <<locals, resp, ttl, db, cache, late, history, warning>>

\* UserHistoryRecord strips both texts; neither may have been blank.
Recordable(r) == Strip(Question[r]) # <<>> /\ Strip(UserOf[r]) # <<>>

HistoryRecordOf(r) ==
    [user_id |-> Strip(UserOf[r]), request_id |-> r, score |-> resp[r].score,
     verdict |-> resp[r].verdict, cache_hit |-> resp[r].cache_hit]

\* _write_history inserts the record.
WriteHistory(r) ==
    /\ pc[r] = "history"
    /\ Recordable(r)
    /\ history' = Append(history, HistoryRecordOf(r))
    /\ Goto(r, "done")
    /\ UNCHANGED <<locals, resp, ttl, db, cache, late, events, warning>>

\* Mutant: the failed insert is swallowed without a word.
WriteHistoryFailsSilently(r) ==
    /\ pc[r] = "history"
    /\ Recordable(r)
    /\ Goto(r, "done")
    /\ UNCHANGED <<locals, resp, ttl, db, stores>>

\* Mutant: an insert without an answer is tried once more.
WriteHistoryFailsTwice(r) ==
    /\ pc[r] = "history"
    /\ Recordable(r)
    /\ \E first \in {history, Append(history, HistoryRecordOf(r))} :
         history' \in {first, Append(first, HistoryRecordOf(r))}
    /\ Warn(r, "refused")
    /\ Goto(r, "done")
    /\ UNCHANGED <<locals, resp, ttl, db, cache, late, events>>

\* insert_one raises, whether MongoDB refused the record or only its answer
\* was lost; the repository logs the error and returns an empty id.
WriteHistoryFails(r) ==
    /\ pc[r] = "history"
    /\ Recordable(r)
    /\ history' \in {history, Append(history, HistoryRecordOf(r))}
    /\ Warn(r, "refused")
    /\ Goto(r, "done")
    /\ UNCHANGED <<locals, resp, ttl, db, cache, late, events>>

\* UserHistoryRecord raises before anything is inserted.
WriteHistoryInvalid(r) ==
    /\ pc[r] = "history"
    /\ ~Recordable(r)
    /\ Warn(r, "invalid")
    /\ Goto(r, "done")
    /\ UNCHANGED <<locals, resp, ttl, db, cache, late, history, events>>

\* Redis executes a SETEX that nobody waits for any more.
LateStore(r) ==
    /\ r \in late
    /\ Remember(KeyOf(r), resp[r])
    /\ late' = late \ {r}
    /\ UNCHANGED <<pc, locals, resp, ttl, db, history, events, warning>>

\* Entries expire, are evicted, or change tier.
Forget ==
    /\ cache' \in Cache!Shrunk
    /\ UNCHANGED <<pc, locals, resp, ttl, db, late, history, events, warning>>

\* The process dies and lifespan runs again: coroutines and background tasks
\* are gone, MongoDB is reachable or not for the life of the new process.  A
\* SETEX the old process had sent may still be executed.
Restart ==
    /\ pc' = [r \in Requests |->
                IF pc[r] \in Finished \cup {"new"} THEN pc[r] ELSE "lost"]
    /\ claims' = [r \in Requests |-> FALSE]
    /\ sources' = [r \in Requests |-> 0]
    /\ confidence' = [r \in Requests |-> 100]
    /\ cache' \in Cache!Shrunk
    /\ GiveUp({r \in Requests : pc[r] = "store"})
    /\ db' \in BOOLEAN
    /\ UNCHANGED <<resp, ttl, history, events, warning>>

\* The handler up to its response, and the tasks it leaves behind.
Handle(r) ==
    \/ LookupHit(r) \/ LookupMiss(r)
    \/ Preprocess(r) \/ PreprocessFails(r)
    \/ Retrieve(r) \/ Consensus(r) \/ Judge(r)
    \/ Store(r) \/ Respond(r)
Background(r) ==
    \/ RecordEvent(r)
    \/ WriteHistory(r) \/ WriteHistoryFails(r) \/ WriteHistoryInvalid(r)

Next ==
    \/ \E r \in Requests : Admit(r) \/ Reject(r) \/ Handle(r) \/ Background(r)
    \/ \E r \in Requests : LateStore(r)
    \/ Forget
    \/ Restart

Spec == Init /\ [][Next]_vars

-----------------------------------------------------------------------------
(* What must hold.                                                         *)

Fresh(e) == [e EXCEPT !.cache_hit = FALSE]
IsHit(r) == resp[r] # NoResponse /\ resp[r].cache_hit

\* Everything the cache can return under a key is the response that some
\* request for that key computed itself, only its cache_hit marker aside,
\* which hits flip in the shared in-memory object (verify.py:161, 361).
CacheSound ==
    \A k \in Keys : \A e \in cache[k] :
        LET o == e.request_id
        IN  /\ KeyOf(o) = k
            /\ resp[o] = Fresh(e)

\* A user served from the global cache gets a verdict that another request
\* computed by running the whole pipeline on the same text, question and answer
\* read as one, marked as a hit (verify.py:145-182, response.py:118-125).
HitServesSameText ==
    \A r \in Requests : IsHit(r) =>
        LET o == resp[r].request_id
        IN  /\ o # r
            /\ Strip(Question[o]) \o Strip(Answer[o]) = Strip(Question[r]) \o Strip(Answer[r])
            /\ resp[o] = Fresh(resp[r])

OnceEach(log) == \A i, j \in DOMAIN log : log[i].request_id = log[j].request_id => i = j
Recorded(r) == \E i \in DOMAIN history : history[i].request_id = r

\* Each request leaves at most one history record, owned by the user who sent
\* it, with the score, verdict and hit marker that user was answered
\* (verify.py:60-108, 166-176, 414-424).  The record goes by the id of the
\* request, which on a hit is not the id in the response the user got.
HistoryFaithful ==
    /\ OnceEach(history)
    /\ \A i \in DOMAIN history :
         LET r == history[i].request_id
         IN  resp[r] # NoResponse /\ history[i] = HistoryRecordOf(r)

\* The dashboards count every pipeline run once and no cache hit: a hit leaves
\* no event, a run at most one, with its own score (verify.py:375-403).
EventsCountFreshRuns ==
    /\ OnceEach(events)
    /\ \A i \in DOMAIN events :
         LET r == events[i].request_id
         IN  /\ resp[r] # NoResponse /\ ~IsHit(r)
             /\ events[i].score = resp[r].score
             /\ events[i].user_id = UserOf[r]

\* A request that ran to its end is in the history, or the log says why it may
\* not be; one that was never handed to MongoDB is not in the history
\* (verify.py:87-108, 166-181, 414-429, mongo.py:159-168).
AccountedFor ==
    \A r \in Requests : pc[r] = "done" =>
        /\ Recorded(r) \/ warning[r] # "none"
        /\ warning[r] \in {"offline", "invalid"} => ~Recorded(r)

\* No verdict stays cached longer than its query type allows: the 3600 s for
\* low confidence only ever shorten it, since an opinion, whose own lifetime
\* is shorter, never has two sources to disagree (verify.py:46-52, 355-361;
\* source_router.py:58-67).
TTLWithinPolicy ==
    \A r \in Requests : ttl[r] <= QueryTypeTTL(TypeOf[r])

\* An answer called a hallucination is always flagged, one called accurate
\* never, whatever the LLM wrote and whether cached or not
\* (llm_judge.py:173-207, response.py:176-183).
FlagMatchesVerdict ==
    \A r \in Requests : resp[r] # NoResponse =>
        /\ resp[r].verdict = "hallucination" => resp[r].flag
        /\ resp[r].verdict = "accurate" => ~resp[r].flag

-----------------------------------------------------------------------------
(* What comments and documents say, and the code does not do.              *)

\* verify.py:343 "Error fallbacks -> 60s (self-evict quickly so next call
\* retries)", verify.py:255 "so we don't cache stale verdicts".
ErrorsSelfEvict ==
    \A r \in Requests :
        (ttl[r] > 0 /\ resp[r].explanation = "unavailable") => ttl[r] <= 60

\* verify.py:146 "Key = SHA-256(question + answer) -- deterministic,
\* collision-resistant": a hit should be the verdict on the very question and
\* the very answer that were sent.
HitServesSameQuery ==
    \A r \in Requests : IsHit(r) =>
        LET o == resp[r].request_id
        IN  /\ Strip(Question[o]) = Strip(Question[r])
            /\ Strip(Answer[o]) = Strip(Answer[r])

\* verify.py:164-165 "the user's audit trail should record every request they
\* made, cached or not": nothing but MongoDB should prevent it.
EveryRequestAudited ==
    \A r \in Requests : pc[r] = "done" =>
        Recorded(r) \/ warning[r] \in {"offline", "refused"}

=============================================================================
