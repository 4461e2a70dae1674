------------------------------ MODULE Analytics ------------------------------
(***************************************************************************)
(* The analytics of the verifications: the events that background tasks    *)
(* store in MongoDB (services/analytics/tracker.py), the route that clears *)
(* them (routes/analytics.py), and the overview of the two dashboards that *)
(* poll the statistics (dashboard/app.js, analytics-dashboard/app.js).     *)
(*                                                                         *)
(* Events are numbered in the order of their timestamps, which they get    *)
(* before they are stored.  MongoDB gives no snapshot: a read takes a first *)
(* batch and fetches the rest later, from where it stood in the index on    *)
(* the timestamp, and a delete takes one document after the other.          *)
(***************************************************************************)
EXTENDS Integers, FiniteSets

CONSTANTS
    Users,
    MaxEvents,  \* bound: verifications that leave an event
    OwnerOf,    \* the user of each
    Sourced,    \* the events that name sources
    Batch,      \* documents in the first batch of a cursor (101)
    Cap,        \* documents the statistics are made of (10000)
    Polls,      \* bound: statistics requests of the page under way
    MaxClears,  \* bound: calls of the clear route
    MaxFaults,  \* bound: failed requests and restarts
    None        \* no clear under way

Events == 1 .. MaxEvents
Charts == {"verdict", "score", "sources", "trend"}

ASSUME AnalyticsAssumption ==
    /\ {MaxEvents, MaxClears, MaxFaults} \subseteq Nat
    /\ {Batch, Cap} \subseteq Nat \ {0} /\ Batch <= Cap
    /\ OwnerOf \in [Events -> Users]
    /\ Sourced \subseteq Events

VARIABLES
    db,       \* app.state.db is not None
    made,     \* verifications answered so far
    pending,  \* their record_async tasks still to run
    events,   \* the collection
    clear,    \* the delete_many under way
    clears,   \* how many were started
    page,     \* which dashboard is open
    polls,    \* its statistics requests
    cards,    \* the events its stat cards were made of
    chart,    \* the events each chart was drawn from
    lost,     \* the charts whose canvas is gone
    faults

store  == <<made, pending, events>>
clearing == <<clear, clears>>
view   == <<page, cards, chart, lost>>
vars == <<db, store, clearing, polls, view, faults>>

Idle == [at |-> "idle", got |-> {}, due |-> {}]
\* at: how far the request is; got: the documents read so far; due: those that
\* were in the collection when the read began and were not deleted since.
Poll == [at : {"idle", "half", "answered"}, got : SUBSET Events, due : SUBSET Events]
Clear == [scope : SUBSET Users, due : SUBSET Events]

TypeOK ==
    /\ db \in BOOLEAN
    /\ made \in 0 .. MaxEvents
    /\ pending \subseteq 1 .. made /\ events \subseteq 1 .. made
    /\ pending \cap events = {}
    /\ clear \in Clear \cup {None} /\ clears \in 0 .. MaxClears
    /\ page \in {"dashboard", "analytics-dashboard"}
    /\ polls \in [Polls -> Poll]
    /\ cards \subseteq Events
    /\ chart \in [Charts -> SUBSET Events] /\ lost \subseteq Charts
    /\ faults \in 0 .. MaxFaults

Init ==
    /\ db \in BOOLEAN
    /\ made = 0 /\ pending = {} /\ events = {}
    /\ clear = None /\ clears = 0
    /\ page \in {"dashboard", "analytics-dashboard"}
    /\ polls = [i \in Polls |-> Idle]
    /\ cards = {} /\ chart = [c \in Charts |-> {}] /\ lost = {}
    /\ faults = 0

-----------------------------------------------------------------------------

\* The verify route answers; the event waits for the response to be sent.
Answer ==
    /\ made < MaxEvents
    /\ made' = made + 1
    /\ pending' = IF db THEN pending \cup {made'} ELSE pending
    /\ UNCHANGED <<db, events, clearing, polls, view, faults>>

\* record_async: a failed insert is logged, whether it was applied or not.
Record(n) ==
    /\ n \in pending
    /\ pending' = pending \ {n}
    /\ events' \in {events, events \cup {n}}
    /\ UNCHANGED <<db, made, clearing, polls, view, faults>>

\* get_optional_user: no valid token, no user, and so no filter.
Scope(u, valid) == IF valid THEN {u} ELSE Users

Within(scope) == {n \in events : OwnerOf[n] \in scope}

\* clear_async: without a database there is nothing to do, and that is all.
StartClear(u, valid) ==
    /\ clear = None /\ clears < MaxClears
    /\ clears' = clears + 1
    /\ clear' = IF db THEN [scope |-> Scope(u, valid), due |-> Within(Scope(u, valid))]
                ELSE None
    /\ UNCHANGED <<db, store, polls, view, faults>>

\* The server deletes a document; one stored meanwhile may be deleted too.
Delete(n) ==
    /\ clear # None
    /\ n \in Within(clear.scope)
    /\ events' = events \ {n}
    /\ clear' = [clear EXCEPT !.due = @ \ {n}]
    /\ polls' = [i \in Polls |-> [polls[i] EXCEPT !.due = @ \ {n}]]
    /\ UNCHANGED <<db, made, pending, clears, view, faults>>

\* It is done with those it found when it began, and the route answers.
EndClear ==
    /\ clear # None
    /\ clear.due = {}
    /\ clear' = None
    /\ UNCHANGED <<db, store, clears, polls, view, faults>>

\* The delete fails half-way, and the route with it.
ClearFails ==
    /\ clear # None
    /\ faults < MaxFaults
    /\ faults' = faults + 1
    /\ clear' = None
    /\ UNCHANGED <<db, store, clears, polls, view>>

\* The process dies with its tasks and requests; Mongo stops deleting early or
\* has done so.  The PING of the next one decides whether there is a database.
Restart ==
    /\ faults < MaxFaults
    /\ faults' = faults + 1
    /\ db' \in BOOLEAN
    /\ pending' = {}
    /\ clear' = None
    /\ polls' = [i \in Polls |->
         IF polls[i].at = "half" THEN Idle ELSE polls[i]]
    /\ UNCHANGED <<made, events, clears, view>>

-----------------------------------------------------------------------------

\* At most k of the events in S, the oldest ones.
Oldest(S, k) == {n \in S : Cardinality({m \in S : m < n}) < k}

\* The interval of the page, its refresh button or the end of a verification
\* sends a request.  get_events_from_db has no events without a database, and
\* is done if the first batch is not full.
Ask(i) ==
    LET first == IF db THEN Oldest(events, Batch) ELSE {}
    IN  /\ polls[i].at = "idle"
        /\ polls' = [polls EXCEPT ![i] =
             IF Cardinality(first) < Batch \/ Batch = Cap
             THEN [at |-> "answered", got |-> first, due |-> {}]
             ELSE [at |-> "half", got |-> first, due |-> events]]
        /\ UNCHANGED <<db, store, clearing, view, faults>>

\* Mutant: the rest is found by counting what was read.
RestByCount(got) == events \ Oldest(events, Cardinality(got))

\* Mutant: only the first batch is read.
RestUnread(got) == {}

\* The cursor goes on after the last document it returned.
Rest(got) == {n \in events : \A m \in got : m < n}

ReadRest(i) ==
    /\ polls[i].at = "half"
    /\ polls' = [polls EXCEPT
         ![i].got = @ \cup Oldest(Rest(@), Cap - Cardinality(@)),
         ![i].due = {},
         ![i].at = "answered"]
    /\ UNCHANGED <<db, store, clearing, view, faults>>

\* The error is logged, and the page left as it is.
AskFails(i) ==
    /\ polls[i].at # "idle"
    /\ faults < MaxFaults
    /\ faults' = faults + 1
    /\ polls' = [polls EXCEPT ![i] = Idle]
    /\ UNCHANGED <<db, store, clearing, view>>

Place == [verdict |-> 1, score |-> 2, sources |-> 3, trend |-> 4]

\* Nothing to draw; only the score chart is drawn for no events too.
Blank(c, got) == c # "score" /\ (IF c = "sources" THEN got \cap Sourced ELSE got) = {}

\* Mutant: a chart that shows something stays.
DrawnOnce(c, got) == IF chart[c] = {} THEN got ELSE chart[c]

Drawn(c, got) == got

\* The deep dashboard puts "no data" in the place of the canvas, for good.
Loses(c, got) == page = "analytics-dashboard" /\ Blank(c, got)

\* Drawing in order raises at a lost canvas when there is nothing to show, and
\* may when there is something (Chart.js is asked to draw on null).
RaisesAt(k, got) ==
    /\ \A c \in Charts : (Place[c] < k /\ c \in lost) => ~Blank(c, got)
    /\ k <= 4 => \E c \in Charts : Place[c] = k /\ c \in lost

\* The answers render in the order they arrive, first the cards.  A chart that
\* is not drawn again shows what it did.
Render(i) ==
    /\ polls[i].at = "answered"
    /\ cards' = polls[i].got
    /\ \E k \in 1 .. 5 :
          /\ RaisesAt(k, polls[i].got)
          /\ lost' = lost \cup {c \in Charts : Place[c] < k /\ Loses(c, polls[i].got)}
          /\ chart' = [c \in Charts |->
               IF c \in lost' THEN {}
               ELSE IF Place[c] < k THEN Drawn(c, polls[i].got) ELSE chart[c]]
    /\ polls' = [polls EXCEPT ![i] = Idle]
    /\ UNCHANGED <<db, store, clearing, page, faults>>

Next ==
    \/ Answer \/ EndClear \/ ClearFails \/ Restart
    \/ \E n \in Events : Record(n) \/ Delete(n)
    \/ \E u \in Users, valid \in BOOLEAN : StartClear(u, valid)
    \/ \E i \in Polls :
          Ask(i) \/ ReadRest(i) \/ Render(i) \/ AskFails(i)

Spec == Init /\ [][Next]_vars

Proceed(i) == Ask(i) \/ ReadRest(i) \/ Render(i)

\* The interval timer keeps firing, and a request that is not lost is answered;
\* verifications, their tasks, clears and faults owe nothing.
FairSpec == Spec /\ \A i \in Polls : WF_vars(Proceed(i))

-----------------------------------------------------------------------------

\* Statistics leave out no event that was in the collection from the request
\* to the answer, whatever was stored or deleted between the two batches of
\* their read; beyond the cap they make no such promise (tracker.py:86-109).
StatsMissNothing ==
    [][\A i \in Polls :
         (polls[i].at = "half" /\ polls'[i].at = "answered"
             /\ Cardinality(polls'[i].got) < Cap)
         => polls[i].due \subseteq polls'[i].got]_vars

Readable == IF db THEN Oldest(events, Cap) ELSE {}

\* When the events stand still, the cards come to show them, however many
\* requests overlap, fail or answer late (dashboard/app.js:19, 80-90;
\* analytics-dashboard/app.js:25, 97-107).
CardsCatchUp == <>[](cards = Readable)

\* So does every chart that is drawn before any whose canvas is gone: all of
\* the plain dashboard, and of the deep one those in front of the first that
\* had to show nothing once.  What is behind that one may stand still for good,
\* though its canvas is there (dashboard/app.js:92-121;
\* analytics-dashboard/app.js:109-150, 224-271).
ChartsCatchUp ==
    <>[](\A c \in Charts :
            (\A d \in lost : Place[c] < Place[d]) => chart[c] = Readable)

=============================================================================
