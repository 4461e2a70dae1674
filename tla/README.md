# A specification of the AI hallucination detector

The repository holds a FastAPI backend that judges whether an AI's answer to a
question is likely hallucinated, a Chrome extension that puts the service into
web pages, and two dashboards. This directory models the parts in which order,
failure and concurrency decide about correctness, checks the models with TLC on
small instances, and proves the most important properties with TLAPS for all
instances.

    tlc -config VerifyPipeline.cfg MCVerifyPipeline    # a run; all runs are listed below
    tlapm VerifyPipelineProofs.tla                     # a proof

Paths in this file are relative to the root of the repository.

## 1. The system

### A verification from end to end

The extension (or a test client) POSTs a question and an answer to
`/api/verify`. `app/api/routes/verify.py` takes the request through layers: look
up the verdict cache; extract claims; ask the sources that fit the type of the
question; when several answered, let a mediator compare them; trim the evidence;
let an LLM judge the answer; store the verdict; answer. After the response,
background tasks write an analytics event and a history record to MongoDB. All
of it is one asyncio event loop in one process. Requests interleave at awaits,
and only there.

### Components

State is what a component keeps between two of its operations.

| component | source | state | operations | what makes it correct |
|---|---|---|---|---|
| Verify endpoint | `app/api/routes/verify.py` | locals of each coroutine, queued background tasks | verify, `_write_history` | a user is answered about his own text; history and analytics agree with the answers; nothing is lost without a word in the log |
| Request and response models | `app/models/*` | none | validation, thresholds | whatever passes on the way in passes on the way out; verdict and flag agree |
| Result cache | `app/core/cache.py` | `_redis_client`, Redis, `_fallback_cache` | init, get, set, close | an answer is a value stored under that key, and not older than a lifetime; the memory tier stays bounded; no caller hangs |
| LLM judge | `app/services/judge/llm_judge.py` | none | judge, judge_per_claim, extract_triplets | scores in 0..100; a failure is told from a verdict |
| Consensus mediator | `app/services/judge/grok_mediator.py` | none | check_consensus | evidence stays within the budget; a failure is harmless |
| Query preprocessing | `app/services/preprocessing` | none | claims, query type | text processing |
| Source router, retrievers | `app/services/retrieval/*` | tasks under way; entries in the result cache | retrieve_evidence, seven searches | evidence is attributed to who found it, for what; no needless paid search; always returns |
| Shared HTTP client | `app/core/http_client.py` | connection pool | requests | a full pool delays or fails a request, never more |
| Application lifespan | `main.py` | `app.state.db`, clients | startup, shutdown | works with any subset of its services |
| History store | `app/db/mongo.py` | `user_history` | insert, list, index | one faithful record per request; reading it page by page skips none |
| Analytics | `app/services/analytics/tracker.py`, `app/api/routes/analytics.py` | `events` | record, aggregate, clear | each pipeline run counted once; statistics leave out nothing that was there throughout their read |
| Authentication | `app/core/auth.py`, `app/api/dependencies.py` | none | token checks | a record belongs to who asked |
| Rate limiter | `app/core/limiter.py` | counters in slowapi | count, refuse | limits per user |
| Evidence aggregation | `app/services/retrieval/evidence_aggregator.py` | none | dedupe, rank, trim | nothing is lost but by the budget, and the worst first |
| Chat injector | `chrome-extension/ai-chat-injector.js` | `isInjecting`, `rightPanel`, buttons, timers | observe, inject, verify, close | one button per answer, one panel, no dead button, no endless spinner |
| Content overlays | `chrome-extension/content.js` | overlay, timers | show, fade, close | what is seen is up to date; every answer is closed in the end |
| Popup, background | `chrome-extension/popup.js`, `background.js` | button, loader, result, error, its timers | verify, show, hide | the loader stands for a call and stands alone |
| Dashboards | `dashboard`, `analytics-dashboard` | cards, charts, poll timer | poll, draw | what is stored comes to be shown |
| Configuration, logging | `app/core/config.py`, `logging.py` | none | | |
| Unused cache helper | `app/utils` | imported by nothing | | |

Interactions: the endpoint calls everything else on the server. The retrievers
and the endpoint share one cache (under different key prefixes); all
verifications share the HTTP pool; the in-memory tier hands out the very object
it holds, which the endpoint changes. The injector, the popup and the overlays
are clients of the endpoint over HTTP. The dashboards read what the background
tasks wrote.

### What is hard

* Interleavings at awaits: identical requests that both miss; a SETEX that times
  out and lands later; the shared, mutable cached object; racing search terms.
* Partial failure: each of six services may fail in each verification, and each
  caller catches everything. Failures are turned into data, and the question is
  what that data is taken for later.
* Crash: coroutines and background tasks are lost between any two awaits; Redis
  and MongoDB are decided upon once, at startup.
* Boundaries: thresholds of scores, the clamp, lifetimes, the size of the
  in-memory tier, the token budget.
* The page of a chat: the host redraws answers and drops panels, timers fire
  late, results arrive after a panel was closed.
* Timers of the extension that name what they act on when they fire, not when
  they are set: overlays that fade, close and come in any order.
* Reads without a snapshot: statistics in batches, the history in pages, both
  while records are inserted out of the order of their timestamps or deleted.

`PROJECT.json` lists each hazard at its line with the properties that cover it.

## 2. The modules

    ResultCache       what the cache promises                (abstract)
       ^   ^
       |   +------ VerifyPipeline   POST /api/verify         (uses it: INSTANCE)
       |                |   |
    TieredCache         |   +---- EvidenceBudget      between retrieval and judge, the texts
    (implements it)     +-------- EvidenceRetrieval   layer 3 in detail
                        |   |     (implements SourceRouter, its abstract promise)
                        |   |
                        |   +---- Analytics       the events it leaves, cleared, read, drawn
                        +-------- HistoryPages    the records it leaves, read page by page

    ChatPanel, Extension          clients of /api/verify in the browser

Every module takes its sizes and inputs as CONSTANTS. `MC*` modules hold the
small instances, the `.cfg` files pick one. `*Proofs` hold theorems. Definitions
that begin with the comment "Mutant:" are plausible wrong versions of the
definition after them: substituted for it, each makes TLC report one of the
properties violated, which shows that the property depends on the code.

### ResultCache, TieredCache

`TieredCache` is `app/core/cache.py`. `connected` is `_redis_client is not None`;
`redis` and `fallback` are the contents of the tiers; `older` is the recency order
inside `TTLCache`, as a set of pairs; `op[c]` is the Redis call that coroutine `c` awaits; `late`
are SETEX commands whose caller gave up before the server applied them.
`SendGet`/`RedisGet`/`FailGet` are `get_cached` before and after its await,
`SendSet`/`RedisSet`/`AckSet`/`FailSet` are `set_cached`, `GetLocal`/`SetLocal`
both without Redis. The code under `_fallback_lock` contains no await, so each
critical section is one step. Time is relative: entries carry ages and `Tick`
drops what reached the end of its life. An entry that expired is dropped from the
model's in-memory tier at once; the library does so at its next write, and hides
it from readers until then.

`ResultCache` is the promise: a lookup returns `None` or a value that was stored
under the key it was called with (`asked`) and not given up since. `KeepsPromise`
states that the two tiers implement it (`live[k]` is what either tier holds,
`asked` and `reply` the last call of a coroutine and its answer, without its age).
`VerifyPipeline` is built on the promise, not on the tiers. A restart loses what
was in flight or leaves it to the server, which may still apply it.

### VerifyPipeline

One request is one coroutine; `pc[r]` says at which await it stands, `claims`,
`sources`, `confidence`, `resp`, `ttl` are the locals that are read after an
await. `cache` is `live` of `ResultCache`. `db` is `app.state.db is not None`.
`late` are requests whose SETEX timed out and may still be applied. `history` and
`events` are the two collections, in insertion order, and `warning` is what the
log says against a request's history record.

| action | code |
|---|---|
| `Admit`, `Reject` | authentication, rate limit, validation |
| `LookupHit`, `LookupMiss` | layer 0, with the mutation of the shared object and the history task of a hit |
| `Preprocess`, `PreprocessFails` | layer 2 |
| `Retrieve`, `Consensus`, `Judge` | layers 3 to 5, to the await of `set_cached` |
| `Store`, `Respond` | layer 5b, the response, the background tasks |
| `RecordEvent`, `WriteHistory...` | the background tasks, each may fail before or after MongoDB applied it |
| `LateStore` | Redis applies a SETEX that its caller gave up |
| `Forget`, `Restart` | expiry and eviction; a crash with the lifespan of the next process |

Texts are sequences of characters, because what is stripped, measured and
concatenated decides about the cache key and about validation. User ids are texts
for the same reason: the history strips them and refuses blank ones. SHA-256 is
taken to be injective on its input, which is the concatenation: two requests whose
question and answer make one text share a key, in the model as in the code.

### SourceRouter, EvidenceRetrieval

`SourceRouter.retrieve_evidence` with the retrievers below it. A task is a place
in the list of claims and a source. `fetch[t]` is the state of its requests, one
per search term: Wikipedia fires all its terms at once and takes two requests for
each, SerpAPI goes through its terms one by one, the five others have one term.
A request that misses is `empty` or `failed`, where a failure may be one of the pool
(`PoolTimeout`) or one after the service did its work (`Failed`); the code treats all
of them alike.
`memo` is the part of the result cache the two caching retrievers use; an entry
`Miss` is the cached "not found". The pool is the number of requests in flight
through the shared client. The fallback path of each retriever, which opens a
short-lived client when none was injected, serves tests and standalone use only
and is not modelled: the lifespan always injects one. `Gather` answers with what the
tasks of each source found, in the order of the claims (`Given`, `Nth`), and leaves
out the sources that found nothing (`Answer`).

`SourceRouter` is the promise, without tasks, requests, pool or cache: a call is
open, and then returns an `evidence_map` in which each source stands with texts that
it found itself, for claims of the call, in their order, and at least one.
`KeepsPromise` states that `EvidenceRetrieval` implements it, for overlapping calls
that share the cache and the connections as well. `VerifyPipeline` takes of this
layer only how many sources a map names: `CountsAgree` proves that this is one of
the numbers its `Retrieve` picks from.

### EvidenceBudget

`EvidenceAggregator.aggregate` and then `check_consensus`, on texts as sequences
of `Characters`: the full stop, the blank, the newline and the digits are what the
code tells apart. Normalisation, containment, score, stable sort, the cut at the
last sentence and the rounding of token counts are translated; the text the
mediator puts in the place of the aggregated one follows. A source's evidence is a
sequence of `Parts`, which is what the code makes of it first: stripped, and not
blank. `At` takes members of a sequence by their places, as the loops of
`deduplicate` do, `Ordered` lists a finite set in a strict order, which makes the
stable sort `Ranked`, and `Joined` is `"\n\n".join`, a recursive function.

### ChatPanel

`chrome-extension/ai-chat-injector.js`. Each action is a task of the browser: a
timer (`Inject`, `Close`), a click (`Click`, `ClickClose`), the continuation of a
fetch (`Succeed`, `Fail`), or a change by the host page (`HostAdds`, `HostTypes`,
`HostRedraws`, `HostDropsPanel`). `Observe` is the callback of the
MutationObserver, which runs right after the task that changed the document and
is therefore part of that action, also for the script's own changes. A button is
told apart from earlier ones of the same answer by the number of changes the host
had made when it was injected, for a call holds on to a button the host has
thrown away. The observer asks for `childList` and `subtree` only: a host that adds
nodes is observed (`HostAdds`), one that writes on in a text node, or flips the
`data-is-streaming` attribute by which the selectors find an answer of Claude's, is
not (`HostTypes`). `seen` is not state of the code: it collects the answers that were
long enough at a change the observer was told of, for `EveryAnswerVerifiable` to
speak about.

### Analytics

What becomes of the events: `Answer` queues the task of a verification, `Record`
runs it, `StartClear`/`Delete`/`EndClear` are `DELETE /api/analytics/clear` with
the documents MongoDB deletes one by one, `Ask`/`ReadRest` are
`GET /api/analytics/stats` with the first batch of the cursor and the rest, and
`Render` is the page that gets the answer. Events are numbered in the order of
their timestamps, which they get when the request is answered, so they may be
stored in another order. `Scope` is `get_optional_user`: a caller without a valid
token acts for all users. What is read but not yet answered may be stale; `due`
keeps what a read may not leave out. Of the arithmetic of the statistics only
the set of events they are made of is kept, since every card and chart is a
function of it.

Both dashboards poll by an interval timer and by hand without waiting for the
answer before, so polls overlap. `page` says which of the two is open. A chart is
kept as the events it was drawn from, and may be `lost`: the deep dashboard replaces
the parent of a canvas by a text when there is nothing to draw, and a later poll
finds no canvas. `RaisesAt` says where drawing then ends: `renderVerdictChart` with nothing to draw
dereferences a null; with something to draw it hands the null to Chart.js, which
may raise or only complain, so both are possible.

### HistoryPages

`GET /api/history` read to the end: `Begin`, then `Read` with a growing skip,
until a page is not full. `Page` is what MongoDB returns, `Sent` what `get_history`
makes of it, which leaves out documents that do not parse (`Unreadable`; this code
writes none). `Stamp` is `_write_history` up to its await, `Insert` the
moment MongoDB applies it; a record stamped first may be inserted last and then
lands behind the front. `due` is what was there at `Begin`. The paging client is
external: the repository has the parameters `skip` and `limit`, and nobody who
uses them.

### Extension

The overlays of `content.js`, the menu of `background.js` that starts them, and
`popup.js`. `overlays` is what is in the document, in order. All overlays have one
id, so `removeOverlay` (`Removed`) finds the first, whichever was meant, and
restarts its fading without effect if it fades already. `FadeOut` is the timer of
200 ms, `AutoClose` the one of 8 or 20 s. The only order of timers the model
assumes is that of 200 ms before 8 s: an `AutoClose` waits until what was fading
when it was set is gone (`until`). In the popup each error has its own timer of 5 s
(`hides`), which hides whatever error is there when it fires. The popup is closed
and opened anew by `Reopen`; its page keeps nothing.

## 3. The runs

| run | instance | asks |
|---|---|---|
| `tiered_cache` | 2 callers, 2 keys, 2 values with lifetimes 1 and 3 around the cache-wide 2, memory tier of 1, 1 late SETEX | `TypeOK`, `ServedWithinLifetime`, `FallbackBounded`, `KeepsPromise`, `CallsReturn` |
| `verify_pipeline` | 3 requests: one text divided in two ways, one of them with stray blanks and passing for an opinion; another question with the first one's answer, from a user whose id is blank. Scores -5, 39, 70, 120; 1 late SETEX | `TypeOK`, `FlagMatchesVerdict`, `CacheSound`, `HitServesSameText`, `HistoryFaithful`, `EventsCountFreshRuns`, `AccountedFor`, `TTLWithinPolicy` |
| `retrieval_fan_out` | 1 verification, 2 claims, 2 caching sources, 2 connections | `EvidenceAttributed`, `KeepsPromise` |
| `retrieval_live` | a verification with a claim and one without, a source of each kind, 2 terms, 1 connection | `PreciseTermWins`, `MissesAreExhaustive`, `CreditsSpared`, `EveryBatchReturns` |
| `budget_trim` | 3 parts out of 10, in every order and with repetition, from 1 source or 2; a budget of 8 characters | `NothingLost`, `NoneRedundant`, `BudgetKept`, `BestKeptWhole` |
| `chat_panel` | 2 answers, 2 verifications, 2 clicks on close, 2 redraws or drops | `OneButtonEach`, `ButtonTellsState`, `OnePanel`, `SpinnerMeansWorking`, `EveryAnswerVerifiable`, `InjectionSettles` |
| `analytics` | 3 events of 2 users, one without sources; batches of 1, a cap of 2; 2 polls, 1 clear, 1 fault | `StatsMissNothing`, `CardsCatchUp`, `ChartsCatchUp` |
| `history_pages` | 7 records, one of them unreadable, pages of 2 | `PagesMissNothing`, `RepeatsAreAccounted` |
| `extension` | 3 verifications, 1 click on close, 2 error timers of the popup | `OnlyFirstFades`, `SpinnerOnTopMeansWorking`, `OneUnlessCrowded`, `LoaderStandsAlone`, `ClosesUnlessCrowded` |

Why the bounds are enough:

* Cache: the interesting races have two callers at one key and a third party that
  evicts, which a second key does. One late SETEX is enough to overwrite a newer
  value. Ages 0 to 2 outlive the short and the cache-wide lifetime. The size
  bound needs one key more than there are slots. With a single slot the recency
  order is empty; that eviction is right for any number of slots is proved
  (`FallbackStaysBounded`).
* Pipeline: two requests for one key give every order of miss, store and hit; the
  third has another key. That one text passes for a question about a program in one
  division and for an opinion in the other is what lets a lifetime of an hour meet
  one of half an hour. Scores matter only by their order to the thresholds: the last
  hallucination (39), the first accurate one (70), one beyond each end, and the
  heuristic's 50. They are given per request to keep the product small; the theorem
  has no such bound. Confidences matter only by their order to 50.
* Retrieval: a source of each kind, two terms to tell the more precise from the
  broader, one connection so that every further request waits.
* Budget: the parts are chosen on both sides of every comparison: contained in
  one another, equal but for punctuation, with an early stop, ending just below
  the limit, too long, boilerplate, with and without digits, with white space for most
  of the budget.
* Chat: two clicks give a call that outlives the panel another one opened; two
  clicks on close give a timer that outlives its panel; two changes let the host
  redraw twice under one waiting call.
* Analytics: three events against a cap of two and batches of one give a first
  batch, a rest and something beyond the cap; an event stored before, within and
  behind what was read; and a delete of what was read and of what was not. Two
  polls overlap and answer in either order.
* History: seven records in pages of two leave room for three pages with inserts
  before each of them, in front and behind, and a page that is short in the middle
  for want of one that parses.
* Extension: three verifications are the fewest with which one overlay is added
  while another one fades and a third is removed in place of it. Two error timers
  give one that outlives the error it was set for.

Runs that find a disagreement between what the repository says and what it does
(`expect: violation`):

| run | says | does |
|---|---|---|
| `verify_errors` | "Error fallbacks → 60s (self-evict quickly so next call retries)" (`verify.py:343`) | `LLMJudge.judge` catches everything itself, so a verdict made up because the LLM failed is cached as long as a real one, up to 7 days |
| `verify_audit` | "the user's audit trail should record every request they made" (`verify.py:164`) | lengths are checked before stripping; a question of blanks is answered and its record refused by `UserHistoryRecord` |
| `verify_collision` | "Key = SHA-256(question + answer) — deterministic, collision-resistant" (`verify.py:146`) | question and answer are written without a separator, so a request whose text divides otherwise is served the verdict on another question and another answer |

### Fairness

Safety properties are checked without fairness. Liveness assumes:

* `TieredCache`: a Redis call ends, if only by failing. redis-py is created with
  `socket_timeout=3` and no retry (`cache.py:118-120`). Nothing is assumed of the
  server: the fairness is on the failure alone.
* `EvidenceRetrieval`: a task that can go on does, and each request ends (connect,
  read, write and pool timeouts, `http_client.py:28-33`; the read timeout is per
  chunk, so a service that sends a byte now and then is taken to come to an end). Weak fairness is per
  task, not per action: which of answer, failure or pool timeout comes is open.
* `VerifyPipeline`: nothing, and no liveness is claimed. MongoDB's client has a
  timeout for finding a server and none for an answer (`mongo.py:82-85`), so an
  insert on a connection that went silent is waited for without a bound.
* `ChatPanel`: timers fire. The user, the host and the server owe nothing, which
  is why it is checked with `CHECK_DEADLOCK FALSE`: a page may fall silent. Without
  the bounds on the host's changes `InjectionSettles` reads "once the page does".
* `Analytics`: each poll goes on (the interval timer fires every 15 or 20 s, and a
  request that is not lost is answered). Verifications, their tasks, clears and
  faults owe nothing; as all four are bounded, the properties read "once they
  stop".
* `Extension`: the timers of the page fire. The user and the server owe nothing, so
  a spinner may stay for ever; answers and errors may not.

## 4. The proofs

TLC shows a property for an instance, the theorems below for every value of the
constants under the modules' `ASSUME`s, which TLC evaluates in the runs. The
assumptions are the typing of the constants, positive lifetimes, and markers
(`Absent`, `NoResponse`, ...) that are no data.

| module | theorem | property | argument |
|---|---|---|---|
| `VerifyPipelineProofs` | `TypeCorrect` | `TypeOK` | inductive with `ResponsePlaced`: which stages have a response, and whose. Without it `Store` could put `NoResponse` into the cache |
| | `CacheHoldsOwnResults` | `CacheSound` | `CacheInv`: also each answer given as a hit is traced to the computed one (`HitTraced`), and a request that is computing has not answered |
| | `HitsAnswerTheText` | `HitServesSameText` | from `CacheInv`: the entry's request had the same key, and the key is the text |
| | `FlagsAgree` | `FlagMatchesVerdict` | every judgement is consistent after the clamp, for all integers; responses and cache only hold judgements |
| | `LifetimesBounded` | `TTLWithinPolicy` | `EvidenceInv`: the number of sources is bounded by the routing, and confidence stays 100 unless there were two |
| | `HistoryTellsTheTruth`, `EventsAreFreshRuns`, `NobodyForgotten` | `HistoryFaithful`, `EventsCountFreshRuns`, `AccountedFor` | one invariant, `AuditInv`: where in its life a request can have a record, an event, a warning, so that an append never repeats a request |
| `TieredCacheProofs` | `AnswersAreYoung` | `ServedWithinLifetime` | `Inv`: no tier holds an entry beyond the tier's own lifetime |
| | `TypeCorrect`, `FallbackStaysBounded` | `TypeOK`, `FallbackBounded` | `BoundInv`: the keys are finitely many and totally ordered by use. A store that finds the tier full needs a victim: if each of n keys had an older one, the numbers of older keys would be n different ones in 1..n-1 |
| | `TiersImplementCache` | `KeepsPromise` | each step of the tiers, with the refinement mapping, is a `Begin`, `Get`, `Lookup`, `Leave`, `Put`, `Forget`, `Restart` or a stutter of `ResultCache`. That a call under way is for the key asked (`op[c].key = asked[c]`) is an invariant of its own |
| `EvidenceRetrievalProofs` | `TypeCorrect` | | `TypeOK` is inductive with `EvidenceIsMap`. That the k-th piece of a source exists needs `NthIsThere`: ranks in a finite set are distinct, so each is taken |
| | `CreditsAreSpared` | `CreditsSpared` | inductive with `RequestsPlaced` (a task has requests only from its start to its end) and `HeldBack` (a term not yet sent follows one that has not failed) |
| | `NoSearchGivesUp` | `MissesAreExhaustive` | `Settled`, `LookupsMemoised` and `HeldBack`: an outcome is `Miss` only if nothing hit, and then the first term held back would follow one that failed |
| | `MostPreciseTermWins` | `PreciseTermWins` | `Settled`: a task that is done returns the outcome of its requests, or what was remembered; the least hit is the first that is not a miss |
| | `EveryTermHasItsPlace` | | the requests of a task are as many as its claim has terms, from the first to the last of its steps: what the properties above say of requests they say of all terms |
| | `EvidenceIsAttributed` | `EvidenceAttributed` | `ResultsAttributed`, `MemoAttributed`: source and claim of a finding are those of the task that has it and of the key it is kept under. The order of the pieces is that of the places (`NthInOrder`) |
| | `RouterKeepsPromise` | `KeepsPromise` | `Call` and `Gather` are a `Call` and a `Return` of `SourceRouter`; no other step changes what a caller sees (`TasksAreHidden`). What `Gather` answers are pieces, attributed and not empty (`GatherAnswers`) |
| | `CountsAgree` | | `AnswersStand`: what a caller holds is an answer, so its sources are routed ones, and a text needs a claim |
| `EvidenceBudgetProofs` | `TypeCorrect` | | `TypeOK` is inductive, with the mediator's text a text (`SectionsAreText`) |
| | `NothingIsLost`, `NothingIsSaidTwice` | `NothingLost`, `NoneRedundant` | of the parts that contain a given one a longest is contained in none, so it is kept (`ContainerIsKept`): a chain of parts dropped for one another ends. Of two kept parts one within the other would be as long, hence the same, and only the first of the same stays |
| | `BudgetIsKept` | `BudgetKept` | `CutIs`: the cut is at the limit or in its second half; stripping takes white space only, so what is solid in the first half stays (`HalfStays`) |
| | `BestAreKeptWhole` | `BestKeptWhole` | ranking is a permutation in the order of the scores (`RankedSorts`); what is joined first stays in front and ends with a newline (`JoinedGrows`), so that a cut at a break is not before it, and its last character is not white, so that stripping stops there (`FrontStays`) |
| `ChatPanelProofs` | `PanelUnique`, `SpinnersEnd` | `OnePanel`, `SpinnerMeansWorking` | `PanelInv`: the document holds no panel but the one the script knows |
| | `ButtonUnique`, `ButtonsHonest` | `OneButtonEach`, `ButtonTellsState` | `ButtonInv`: answer and count of changes identify a button, and a waiting call keeps its button |
| `AnalyticsProofs` | `TypeCorrect` | `TypeOK` | inductive as it stands |
| | `StatsComplete` | `StatsMissNothing` | `HalfInv`: while a read is half done, the due events it has not got are still stored and newer than all it got; the rest is cut by the cap only if the cap is reached |
| `HistoryPagesProofs` | `TypeCorrect` | `TypeOK` | inductive as it stands |
| | `NothingMissed` | `PagesMissNothing` | `MissInv`: a due record not yet given has at least `skip` newer ones (`Behind`). An insert can only add newer ones, a page gives all ranks below `skip + Limit`, and a page that is not full reaches the end of the list |
| | `RepeatsCaused` | `RepeatsAreAccounted` | `RepeatInv`: records given so far plus repetitions make `skip`; the records in front of a page are `skip` many, and those of them not given before came since |
| `ExtensionProofs` | `TypeCorrect` | `TypeOK` | inductive as it stands |
| | `FirstFades`, `SpinnersWork` | `OnlyFirstFades`, `SpinnerOnTopMeansWorking` | one invariant, `OverlayInv`: what fades is the first, so as long as there are others the top stays, and each settled verification puts another overlay on top of its spinner |
| | `OneLeft` | `OneUnlessCrowded` | from its part `PairInv`: without a crowd there are two overlays at most, and of two the first fades |
| | `LoaderAlone` | `LoaderStandsAlone` | inductive: no timer of an error touches the loader |

The provers have no induction over data, since the library's induction theorems
take an operator as a parameter. Where an argument needs one, it is made with
counting, which they do have:

* Ranks. In a finite set in a strict order the numbers of those that stand before a
  member are distinct and below the size, and an injection between finite sets of
  one size is onto, so each number is somebody's rank. That gives the pages of the
  history, the pieces of a source, the sorted and the deduplicated list, and a least
  and a greatest number in every finite set (`OrderedLists`, `Extremes`).
* Least counterexamples. What the n-th stage of a recursive function satisfies
  (`JoinedIsText`, `JoinedGrows`, `JoinedEnds`, `FlattenKeeps`) is proved by the
  least stage up to the length of the sequence that would not. That the recursion
  has a solution at all, on which everything about a recursive function rests, is
  proved the same way (`JoinedSolves`, `FlattenIsDefined`).

The invariant behind the theorems of `EvidenceBudgetProofs` is small, as a
verification has three steps: the evidence is one of `Retrievals`, and as long as
the aggregator's answer stands it is `Aggregate` of the evidence. What that is, for
any texts, is in the lemmas. Their assumptions are that the markers are different
characters, the phrases of boilerplate finitely many, and the parts stripped and
not blank, which `aggregate` sees to itself (`evidence_aggregator.py:188`).

`TypeOK` of `Analytics`, `HistoryPages`, `Extension`, `EvidenceRetrieval` and
`EvidenceBudget` is proved and not run: a theorem for all constants makes the run redundant.

Every safety property of a run is a theorem. Only model-checked is liveness, which
is out of this prover's reach as is `ENABLED`: `CallsReturn`,
`EveryBatchReturns`, `EveryAnswerVerifiable`, `InjectionSettles`, `CardsCatchUp`,
`ChartsCatchUp`, `ClosesUnlessCrowded`.

## 5. What the code does that a reader may not expect

Found while modelling, visible in the modules, without a run of its own:

* The in-memory tier ignores an entry's ttl and keeps it for the cache-wide one
  (`cache.py:222`), so the short lifetimes hold with Redis only.
  `ServedWithinLifetime` is as weak as that requires.
* `cache_enabled = False` only skips Redis (`main.py:50`); the in-memory tier
  still caches.
* The heuristic's score of 50 is "uncertain" but not flagged, while an LLM's 50 is.
* A hit is answered with the id of the request that was computed, while the history
  records the new one's (`verify.py:161-176`). `history.py:41` says the record's id is
  "sourced directly from the pipeline's `VerifyResponse.request_id`", and `verify.py:81`
  says the same: for hits they are two different ids. With the response's id, records
  of one user could share theirs, so `HistoryFaithful` describes the code.
* The cache key joins question and answer without a separator (`verify.py:149-153`):
  the run `verify_collision`. What does hold is `HitServesSameText`.
* A user id is stripped for the history and refused when blank (`history.py:91-98`),
  while the events, and the reads of the history, take it as it comes: a user whose id
  has blanks around it finds no records.
* SerpAPI's terms are tried in sequence "so we only fall through to the next term if
  the current one genuinely returns no results" (`serp_retriever.py:8-11`, `75-77`).
  The code also goes on after a timeout or an error (`serp_retriever.py:134-139`), when
  the credit for the term before may have been charged. `CreditsSpared` is what is left:
  one term at a time, and none after a result.
* A source that failed, or that found no free connection, is cached as one that found
  nothing (`wikipedia_retriever.py:251-266`), for as long.
* Nothing bounds the wait for MongoDB's answer (`mongo.py:82-85`): an insert that hangs
  keeps the history task behind it from running.
* `get_history` leaves out documents that do not parse (`verify.py:459-464`), which
  makes a page short; a client that stops at a short page misses what is behind.
* The chat observer is told of added and removed nodes only
  (`ai-chat-injector.js:497-500`): an answer that grows within a text node, or that
  turns up by an attribute (`:417`), waits for a change elsewhere to get its button.
* MongoDB's failures on insert are logged by the repository, and the caller logs
  "saved" at debug level all the same.
* A mediator that fails reports full confidence.
* In the side panel the answer that arrives last is shown, whichever button was
  clicked last (`ai-chat-injector.js:729`); a result opens a closed panel again
  while an error then goes unseen; the timer of a second click on close may remove
  a panel opened since (`:399`); and a button verifies the text its answer had at
  injection, not what it streamed afterwards (`:527`).
* `verify.py:287` hands `judge_per_claim` the `request.question` of the Starlette
  request, which has none; the AttributeError is caught (`:300`), so
  `claim_results` is `None` in every response, although `response.py:133` says
  "Each claim gets its own score, verdict, and character-offset mapping".
* As soon as two sources answer, the mediator's text replaces the aggregated one
  (`verify.py:245`). It is joined from the raw evidence (`grok_mediator.py:36,92,98`),
  which was neither deduplicated nor cut to the budget.
* Without a database `DELETE /api/analytics/clear` deletes nothing and answers
  "cleared" (`tracker.py:290`). A caller whose token is invalid is taken for nobody,
  and nobody clears and reads the analytics of all users (`dependencies.py:109`).
* The deep dashboard loses the canvas of a chart for good when it once has nothing
  to draw in it, which is so when it is opened before the first verification; the
  charts after it may then stand still (`analytics-dashboard/app.js:148,230,270`).
* Both dashboards post to `/api/verify` without a token
  (`dashboard/app.js:340`, `analytics-dashboard/app.js:796`) and are always refused.
* An overlay added while another fades leads to one that no timer removes: the
  removal finds the fading one again (`content.js:389-395`). And a timer closes
  whatever overlay is first, which may be a later verification's
  (`content.js:530`).
* In the popup the timer of an earlier error hides a later one before its five
  seconds are over (`popup.js:179`).
* "The last 10 events" of the statistics are the last of the oldest 10000
  (`tracker.py:99,164`).

## 6. What is not modelled

* What a regular expression or a prompt computes from a text (query types,
  claims, the LLM): any outcome is possible, or it is a constant of the request.
* `/api/health`, and the analytics routes `history`, `preprocessing` and `pipeline`:
  they read like `stats` and aggregate otherwise.
* Tokens and rate limiting: decoding is PyJWT's and counting is slowapi's; what is
  left here is a pure function of the request each.
* The dashboards' other tabs, which render one answer each and keep nothing.
* Rendering, layout, selectors, configuration, logging, the unused cache helper.

## 7. Plan

In the order of importance. All are done.

1. `ResultCache`, `TieredCache`: the refinement everything else rests on.
2. `VerifyPipeline` on top of `ResultCache`.
3. `EvidenceRetrieval`.
4. Proofs about the cache and the pipeline.
5. `EvidenceBudget`.
6. `ChatPanel` and its proofs.
7. `Analytics` with the dashboards, `HistoryPages`, and their proofs.
8. `Extension` (overlays and popup) and its proofs.
9. The bound and the recency order of the memory tier, proved.
10. Proofs about `EvidenceRetrieval`: all of its safety properties.
11. Proofs about `EvidenceBudget`: all of its properties, with the lemmas about
    sequences they rest on.
12. `SourceRouter`, the promise of layer 3, and the proof that the retrieval keeps it.
