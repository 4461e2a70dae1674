---------------------------- MODULE HistoryPages ----------------------------
(***************************************************************************)
(* GET /api/history (api/routes/verify.py) over the collection user_history *)
(* (db/mongo.py): a client reads the records of its user page by page, each *)
(* page cut by skip and limit from the list as it is then, while background *)
(* tasks of the same user's verifications insert more.                     *)
(*                                                                         *)
(* Records are numbered in the order of their timestamps.  A record gets    *)
(* its timestamp when its task runs and is in the collection only once the  *)
(* insert is applied, so that a later one may be there first.  A page is    *)
(* one reply of MongoDB, as long as it has at most 101 documents.           *)
(***************************************************************************)
EXTENDS Integers, FiniteSets

CONSTANTS
    Limit,       \* the limit a client asks for (10 by default)
    MaxRecords,  \* bound: verifications of the user
    Unreadable   \* records that some other program wrote and that do not parse

ASSUME HistoryAssumption ==
    Limit \in Nat \ {0} /\ MaxRecords \in Nat /\ Unreadable \subseteq Nat

VARIABLES
    db,        \* app.state.db is not None
    stamped,   \* records that have their timestamp
    inserting, \* those whose insert is under way
    history,   \* the collection
    reading,   \* the client is between two pages
    skip,      \* what it asks the next page to skip
    got,       \* the records it was given since it began
    repeated,  \* how often it was given one it had
    due,       \* the records in the collection when it began
    complete   \* it was given a last page

writer == <<stamped, inserting, history>>
client == <<reading, skip, got, repeated, due, complete>>
vars == <<db, writer, client>>

TypeOK ==
    /\ db \in BOOLEAN
    /\ stamped \in 0 .. MaxRecords
    /\ inserting \subseteq 1 .. stamped /\ history \subseteq 1 .. stamped
    /\ inserting \cap history = {}
    /\ reading \in BOOLEAN /\ complete \in BOOLEAN
    /\ skip \in Nat /\ repeated \in Nat
    /\ got \subseteq history /\ due \subseteq history

Init ==
    /\ db \in BOOLEAN
    /\ stamped = 0 /\ inserting = {} /\ history = {}
    /\ reading = FALSE /\ complete = FALSE
    /\ skip = 0 /\ repeated = 0
    /\ got = {} /\ due = {}

\* _write_history makes the record, with its timestamp, and awaits the insert.
Stamp ==
    /\ db
    /\ stamped < MaxRecords
    /\ stamped' = stamped + 1
    /\ inserting' = inserting \cup {stamped'}
    /\ UNCHANGED <<db, history, client>>

Insert(n) ==
    /\ n \in inserting
    /\ history' = history \cup {n}
    /\ inserting' = inserting \ {n}
    /\ UNCHANGED <<db, stamped, client>>

\* The insert fails and is logged, or the process dies first.
InsertFails(n) ==
    /\ n \in inserting
    /\ inserting' = inserting \ {n}
    /\ UNCHANGED <<db, stamped, history, client>>

\* A process without its tasks; its PING decides whether it has a database.
Restart ==
    /\ db' \in BOOLEAN
    /\ inserting' = {}
    /\ UNCHANGED <<stamped, history, client>>

Newer(n) == {m \in history : m > n}

\* Mutant: skip counts pages.
PageOfPages(s) ==
    {n \in history : Cardinality(Newer(n)) \in s * Limit .. (s + 1) * Limit - 1}

\* Mutant: one record more, to see whether there is another page.
PageOneMore(s) == {n \in history : Cardinality(Newer(n)) \in s .. s + Limit}

\* list_for_user: newest first, without the first s, and at most Limit.
Page(s) == {n \in history : Cardinality(Newer(n)) \in s .. s + Limit - 1}

\* get_history leaves out what does not parse.
Sent(s) == Page(s) \ Unreadable

\* The client begins to read.
Begin ==
    /\ ~reading
    /\ reading' = TRUE /\ complete' = FALSE
    /\ skip' = 0 /\ repeated' = 0
    /\ got' = {}
    /\ due' = history
    /\ UNCHANGED <<db, writer>>

\* A page is answered; the client takes one that is not full for the last.
Read ==
    /\ reading /\ db
    /\ got' = got \cup Sent(skip)
    /\ repeated' = repeated + Cardinality(got \cap Sent(skip))
    /\ skip' = skip + Limit
    /\ complete' = (Cardinality(Sent(skip)) < Limit)
    /\ reading' = ~complete'
    /\ UNCHANGED <<db, writer, due>>

\* 503 without a database, or the request is lost: the client gives up.
Refused ==
    /\ reading
    /\ reading' = FALSE
    /\ UNCHANGED <<db, writer, skip, got, repeated, due, complete>>

Next ==
    \/ Stamp \/ Restart \/ Begin \/ Read \/ Refused
    \/ \E n \in 1 .. MaxRecords : Insert(n) \/ InsertFails(n)

Spec == Init /\ [][Next]_vars

-----------------------------------------------------------------------------

\* A client that has read to the last page was given every record there was
\* when it began, although each page is cut from a list that has grown
\* meanwhile, at the front or further down; unless a page was cut short in the
\* middle of the list by a record that does not parse (mongo.py:188-197;
\* verify.py:457-466).
PagesMissNothing ==
    (complete /\ history \cap Unreadable = {}) => due \subseteq got

\* It is given a record again only because another one has come meanwhile:
\* never more often than records were inserted since it began
\* (mongo.py:188-197).
RepeatsAreAccounted == repeated <= Cardinality(history \ due)

=============================================================================
