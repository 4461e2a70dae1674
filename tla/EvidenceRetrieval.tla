------------------------- MODULE EvidenceRetrieval -------------------------
(***************************************************************************)
(* Layer 3: SourceRouter.retrieve_evidence and the retrievers below        *)
(* app/services/retrieval.  Every verification fans out one task per claim *)
(* and source; each task runs one or more HTTP requests through the pool   *)
(* that all verifications share; Wikipedia and SerpAPI remember, under the *)
(* claim, what they found and that they found nothing.                     *)
(*                                                                         *)
(* A text is known by who found it, for which claim, with which search     *)
(* term.  The services answer as they like; any request may fail.          *)
(***************************************************************************)
EXTENDS Integers, Sequences, FiniteSets, FiniteSetsExt

CONSTANTS
    Batches,        \* calls of retrieve_evidence that may overlap
    Claims,
    ClaimsOf,       \* the extracted claims of each, in order
    Sources,        \* what get_sources_for_query_type returned
    Terms,          \* Terms[s][c]: how many search terms source s makes of c
    ApiKey,         \* serpapi_key: "unset", "placeholder" or "set"
    MaxConnections, \* of the shared httpx client (20 in the code)
    Miss,           \* a search that found nothing
    Unknown         \* no entry in the cache

\* The sources that cache what they find, the others being asked each time.
Memoised == {"wikipedia", "serpapi"}

ASSUME RetrievalAssumption ==
    /\ IsFiniteSet(Sources)
    /\ ClaimsOf \in [Batches -> Seq(Claims)]
    /\ Terms \in [Sources -> [Claims -> Nat \ {0}]]
    /\ \A s \in Sources \ Memoised, c \in Claims : Terms[s][c] = 1
    /\ ApiKey \in {"unset", "placeholder", "set"}
    /\ MaxConnections \in Nat \ {0}

VARIABLES
    running,  \* running[b]: retrieve_evidence has not returned
    stage,    \* stage[t]: where task t is
    fetch,    \* fetch[t][n]: the request for the n-th search term of t
    result,   \* result[t]: what the retriever returned
    memo,     \* what the cache holds for each memoised source and claim
    evidence  \* evidence[b]: the evidence_map returned last

tasks == <<stage, fetch, result>>
vars == <<running, tasks, memo, evidence>>

\* (claim x source): the claim by its place, for one may come twice.
Tasks == UNION {{b} \X (DOMAIN ClaimsOf[b]) \X Sources : b \in Batches}
TasksOf(b) == {t \in Tasks : t[1] = b}
Claim(t) == ClaimsOf[t[1]][t[2]]
Source(t) == t[3]

\* Mutant: the key lacks the prefix of its source.
MemoKeyBare(s, c) == <<"wikipedia", c>>

MemoKey(s, c) == <<s, c>>
MemoKeys == {MemoKey(s, c) : s \in Memoised, c \in Claims}

\* text: a SerpAPI result can come without any snippet.
Findings == [source : Sources, claim : Claims, term : Nat, text : BOOLEAN]
HasText(x) == x # Miss /\ x.text

Waiting  == {"queued", "queued again"}
InFlight == {"asked", "asked again"}
Misses   == {"empty", "failed"}
Requests == Waiting \cup InFlight \cup Misses \cup {"unsent", "found", "bare"}
Stages   == {"idle", "lookup", "fetch", "done"}

ASSUME MarkersAreNotFindings == Miss \notin Findings /\ Unknown \notin Findings

TypeOK ==
    /\ running \in [Batches -> BOOLEAN]
    /\ stage \in [Tasks -> Stages]
    /\ fetch \in [Tasks -> Seq(Requests)]
    /\ result \in [Tasks -> Findings \cup {Miss}]
    /\ memo \in [MemoKeys -> Findings \cup {Miss, Unknown}]
    /\ \A b \in Batches : \A s \in DOMAIN evidence[b] :
         s \in Sources /\ evidence[b][s] \in Seq(Findings)

Init ==
    /\ running = [b \in Batches |-> FALSE]
    /\ stage = [t \in Tasks |-> "idle"]
    /\ fetch = [t \in Tasks |-> <<>>]
    /\ result = [t \in Tasks |-> Miss]
    /\ memo = [k \in MemoKeys |-> Unknown]
    /\ evidence = [b \in Batches |-> <<>>]

-----------------------------------------------------------------------------

\* Only the SerpAPI retriever knows the placeholder for what it is.
Configured(s) ==
    \/ s = "wikipedia"
    \/ ApiKey = "set"
    \/ ApiKey = "placeholder" /\ s # "serpapi"

\* Mutant: SerpAPI fires all its terms at once as well.
FirstRequestsAllAtOnce(t) == [n \in 1 .. Terms[Source(t)][Claim(t)] |-> "queued"]

\* Wikipedia fires all its terms at once; SerpAPI, which charges for each, the
\* first only; the other sources have one.
FirstRequests(t) ==
    [n \in 1 .. Terms[Source(t)][Claim(t)] |->
        IF Source(t) = "wikipedia" \/ n = 1 THEN "queued" ELSE "unsent"]

FirstStage(s) ==
    IF ~Configured(s) THEN "done" ELSE IF s \in Memoised THEN "lookup" ELSE "fetch"

\* retrieve_evidence creates its tasks.
Call(b) ==
    /\ ~running[b]
    /\ running' = [running EXCEPT ![b] = TRUE]
    /\ stage' = [t \in Tasks |-> IF t \in TasksOf(b) THEN FirstStage(Source(t)) ELSE stage[t]]
    /\ fetch' = [t \in Tasks |->
         IF t \in TasksOf(b) /\ FirstStage(Source(t)) = "fetch" THEN FirstRequests(t)
         ELSE fetch[t]]
    /\ evidence' = [evidence EXCEPT ![b] = <<>>]
    /\ UNCHANGED <<result, memo>>

\* get_cached answers; an entry that says "not found" is an answer too.
LookupHit(t) ==
    LET entry == memo[MemoKey(Source(t), Claim(t))]
    IN  /\ stage[t] = "lookup"
        /\ entry # Unknown
        /\ result' = [result EXCEPT ![t] = entry]
        /\ stage' = [stage EXCEPT ![t] = "done"]
        /\ UNCHANGED <<running, fetch, memo, evidence>>

LookupMiss(t) ==
    /\ stage[t] = "lookup"
    /\ stage' = [stage EXCEPT ![t] = "fetch"]
    /\ fetch' = [fetch EXCEPT ![t] = FirstRequests(t)]
    /\ UNCHANGED <<running, result, memo, evidence>>

Busy == UNION {{t} \X {n \in DOMAIN fetch[t] : fetch[t][n] \in InFlight} : t \in Tasks}

\* Mutant: a term that failed is tried again.
NextTermRetried(f, n, how) == [f EXCEPT ![n] = "queued"]

\* Mutant: a term that failed ends the search.
NextTermAborts(f, n, how) == [f EXCEPT ![n] = how]

\* The n-th term found nothing or failed; SerpAPI goes on to the next.
NextTerm(f, n, how) ==
    [m \in DOMAIN f |-> IF m = n THEN how
                        ELSE IF m = n + 1 /\ f[m] = "unsent" THEN "queued" ELSE f[m]]

\* The pool has a connection for the request.
Send(t, n) ==
    /\ fetch[t][n] \in Waiting
    /\ Cardinality(Busy) < MaxConnections
    /\ fetch' = [fetch EXCEPT ![t][n] = IF @ = "queued" THEN "asked" ELSE "asked again"]
    /\ UNCHANGED <<running, stage, result, memo, evidence>>

\* It has none for a second: PoolTimeout, to the retriever a failure like any.
PoolTimeout(t, n) ==
    /\ fetch[t][n] \in Waiting
    /\ Cardinality(Busy) >= MaxConnections
    /\ fetch' = [fetch EXCEPT ![t] = NextTerm(@, n, "failed")]
    /\ UNCHANGED <<running, stage, result, memo, evidence>>

\* What the service can say that is not a failure: Wikipedia names a page
\* first, then gives its text; SerpAPI may list results without snippets.
Answers(t, n) ==
    CASE Source(t) = "wikipedia" /\ fetch[t][n] = "asked" -> {"queued again"}
      [] Source(t) = "serpapi" -> {"found", "bare"}
      [] Source(t) \notin Memoised /\ ApiKey = "placeholder" -> {}
      [] OTHER -> {"found"}

Answered(t, n) ==
    /\ fetch[t][n] \in InFlight
    /\ \E a \in Answers(t, n) : fetch' = [fetch EXCEPT ![t][n] = a]
    /\ UNCHANGED <<running, stage, result, memo, evidence>>

\* The service answers that it knows nothing of the term.
Empty(t, n) ==
    /\ fetch[t][n] \in InFlight
    /\ Answers(t, n) # {}
    /\ fetch' = [fetch EXCEPT ![t] = NextTerm(@, n, "empty")]
    /\ UNCHANGED <<running, stage, result, memo, evidence>>

\* A read timeout, a refused key, an error page: the service may have done its
\* work, and charged for it, all the same.
Failed(t, n) ==
    /\ fetch[t][n] \in InFlight
    /\ fetch' = [fetch EXCEPT ![t] = NextTerm(@, n, "failed")]
    /\ UNCHANGED <<running, stage, result, memo, evidence>>

Hits(t) == {n \in DOMAIN fetch[t] : fetch[t][n] \in {"found", "bare"}}
Finding(t, n) == [source |-> Source(t), claim |-> Claim(t), term |-> n,
                  text |-> fetch[t][n] = "found"]

\* Mutant: the broadest term wins.
OutcomeOfBroadest(t) == IF Hits(t) = {} THEN Miss ELSE Finding(t, Max(Hits(t)))

\* The first term, in order of precision, that found something.
Outcome(t) == IF Hits(t) = {} THEN Miss ELSE Finding(t, Min(Hits(t)))

\* All requests of the task have ended: it stores its outcome, whatever it is,
\* and returns.  The store may fail silently.
Finish(t) ==
    /\ stage[t] = "fetch"
    /\ \A n \in DOMAIN fetch[t] : fetch[t][n] \notin Waiting \cup InFlight
    /\ result' = [result EXCEPT ![t] = Outcome(t)]
    /\ \/ Source(t) \in Memoised
          /\ memo' = [memo EXCEPT ![MemoKey(Source(t), Claim(t))] = Outcome(t)]
       \/ UNCHANGED memo
    /\ stage' = [stage EXCEPT ![t] = "done"]
    /\ UNCHANGED <<running, fetch, evidence>>

\* The claims of b, by their places, that s has a text for.
Given(b, s) == {i \in DOMAIN ClaimsOf[b] : HasText(result[<<b, i, s>>])}

\* The k-th of a finite set of places.
Nth(places, k) == CHOOSE i \in places : Cardinality({j \in places : j < i}) = k - 1

Pieces(b, s) ==
    [k \in 1 .. Cardinality(Given(b, s)) |-> result[<<b, Nth(Given(b, s), k), s>>]]

\* Mutant: a source is named though it has nothing.
AnswerOfAll(b) == [s \in Sources |-> Pieces(b, s)]

\* The results are joined per source, and those without a text left out.
Answer(b) == [s \in {s \in Sources : Pieces(b, s) # <<>>} |-> Pieces(b, s)]

\* gather has all its results.
Gather(b) ==
    /\ running[b]
    /\ \A t \in TasksOf(b) : stage[t] = "done"
    /\ running' = [running EXCEPT ![b] = FALSE]
    /\ evidence' = [evidence EXCEPT ![b] = Answer(b)]
    /\ stage' = [t \in Tasks |-> IF t \in TasksOf(b) THEN "idle" ELSE stage[t]]
    /\ fetch' = [t \in Tasks |-> IF t \in TasksOf(b) THEN <<>> ELSE fetch[t]]
    /\ result' = [t \in Tasks |-> IF t \in TasksOf(b) THEN Miss ELSE result[t]]
    /\ UNCHANGED memo

\* The cache lets an entry go.
Expire(k) ==
    /\ memo[k] # Unknown
    /\ memo' = [memo EXCEPT ![k] = Unknown]
    /\ UNCHANGED <<running, tasks, evidence>>

Next ==
    \/ \E b \in Batches : Call(b) \/ Gather(b)
    \/ \E t \in Tasks : LookupHit(t) \/ LookupMiss(t) \/ Finish(t)
    \/ \E t \in Tasks : \E n \in DOMAIN fetch[t] :
          Send(t, n) \/ PoolTimeout(t, n) \/ Answered(t, n) \/ Empty(t, n) \/ Failed(t, n)
    \/ \E k \in MemoKeys : Expire(k)

Spec == Init /\ [][Next]_vars

Advance(t) ==
    \/ LookupHit(t) \/ LookupMiss(t) \/ Finish(t)
    \/ \E n \in DOMAIN fetch[t] :
          Send(t, n) \/ PoolTimeout(t, n) \/ Answered(t, n) \/ Empty(t, n) \/ Failed(t, n)

\* The event loop runs every task that can go on, and each request ends: the
\* client's connect, read, write and pool timeouts are all finite.
FairSpec == /\ Spec
            /\ \A t \in Tasks : WF_vars(Advance(t))
            /\ \A b \in Batches : WF_vars(Gather(b))

-----------------------------------------------------------------------------

Promise == INSTANCE SourceRouter

\* Evidence shown under a source was found by that source, for a claim of the
\* verification that shows it, and stands in the order of the claims, whatever
\* order the tasks ended in and whoever filled the cache
\* (source_router.py:77-78, 151-164; cache.py:81-88).
EvidenceAttributed ==
    \A b \in Batches : \A s \in DOMAIN evidence[b] : Promise!Supports(evidence[b][s], b, s)

\* However its tasks interleave and fail, retrieve_evidence gives each caller
\* one answer, of its own, that names no source without a text: the mediator
\* is asked when two are named (source_router.py:130-164, verify.py:234-241).
KeepsPromise == Promise!Spec

\* A task reports, and the cache keeps for an hour, that nothing was found only
\* after every search term was tried and missed by itself, be it for want of
\* results or by an error of its own: one timeout does not end a search
\* (serp_retriever.py:134-141, wikipedia_retriever.py:186-191, 222-232).
MissesAreExhaustive ==
    \A t \in Tasks : (stage[t] = "done" /\ fetch[t] # <<>> /\ result[t] = Miss) =>
        \A n \in DOMAIN fetch[t] : fetch[t][n] \in Misses

\* SerpAPI, at a credit for each term, is asked for one term at a time and for
\* no other once one has found something: every narrower term has ended before
\* a broader one is sent, empty or with an error (serp_retriever.py:89-139).
CreditsSpared ==
    \A t \in Tasks : Source(t) = "serpapi" =>
        \A m, n \in DOMAIN fetch[t] :
            (m < n /\ fetch[t][n] # "unsent") => fetch[t][m] \in Misses

\* The most precise term that found something gives the evidence, although the
\* requests for all terms race (wikipedia_retriever.py:216-229).
PreciseTermWins ==
    \A t \in Tasks : (stage[t] = "done" /\ fetch[t] # <<>> /\ result[t] # Miss) =>
        \A n \in DOMAIN fetch[t] : n < result[t].term => fetch[t][n] \in Misses

\* retrieve_evidence returns, whatever the services do and however few
\* connections there are (source_router.py:146-164, http_client.py:28-39).
EveryBatchReturns == \A b \in Batches : running[b] ~> ~running[b]

=============================================================================
