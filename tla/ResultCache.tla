---------------------------- MODULE ResultCache ----------------------------
(***************************************************************************)
(* What app/core/cache.py promises its callers, whichever tier answers.    *)
(* get_cached(key) returns either None or a value that set_cached stored   *)
(* under that very key and that no tier has given up since.  A store may   *)
(* displace older values and evict other keys; nothing is ever promised to *)
(* stay.  A lookup names its key when it starts (asked), and only a value  *)
(* of that key can be its answer.                                          *)
(***************************************************************************)

CONSTANTS
    Clients,  \* coroutines of the application that call the cache
    Keys,     \* raw keys, one per distinct hashed key
    Values,   \* what callers store
    Miss,     \* None returned by get_cached
    NoReply,  \* the coroutine has not been answered
    NoKey     \* the coroutine has no lookup to be answered

VARIABLES
    live,     \* live[k]: the values a lookup of k can still return
    asked,    \* asked[c]: the key argument of the last get_cached of c
    reply     \* reply[c]: what that call returned

\* Every cache content reachable from the present one by forgetting.
Shrunk == {kept \in [Keys -> UNION {SUBSET live[k] : k \in Keys}] :
             \A k \in Keys : kept[k] \subseteq live[k]}

Init ==
    /\ live = [k \in Keys |-> {}]
    /\ asked = [c \in Clients |-> NoKey]
    /\ reply = [c \in Clients |-> NoReply]

\* The coroutine has done with its last lookup.
Release(c) ==
    /\ asked' = [asked EXCEPT ![c] = NoKey]
    /\ reply' = [reply EXCEPT ![c] = NoReply]

\* get_cached(k) is called.
Begin(c, k) ==
    /\ asked' = [asked EXCEPT ![c] = k]
    /\ reply' = [reply EXCEPT ![c] = NoReply]
    /\ UNCHANGED live

\* get_cached returns, to a caller that waits for it.
Get(c) ==
    /\ asked[c] \in Keys
    /\ reply[c] = NoReply
    /\ \E a \in live[asked[c]] \cup {Miss} : reply' = [reply EXCEPT ![c] = a]
    /\ UNCHANGED <<live, asked>>

\* get_cached(k) is called and returns before anyone else runs.
Lookup(c, k) ==
    /\ asked' = [asked EXCEPT ![c] = k]
    /\ \E a \in live[k] \cup {Miss} : reply' = [reply EXCEPT ![c] = a]
    /\ UNCHANGED live

\* The coroutine turns to something else: a store that is not visible yet.
Leave(c) ==
    /\ Release(c)
    /\ UNCHANGED live

\* A store of v becomes visible; a caller that starts it lets its answer go.
Put(k, v) ==
    /\ \E kept \in Shrunk : live' = [kept EXCEPT ![k] = @ \cup {v}]
    /\ \/ UNCHANGED <<asked, reply>>
       \/ \E c \in Clients : Release(c)

\* Expiry, eviction, a lost tier.
Forget ==
    /\ live' \in Shrunk
    /\ UNCHANGED <<asked, reply>>

\* The application process restarts: its coroutines are gone.
Restart ==
    /\ live' \in Shrunk
    /\ asked' = [c \in Clients |-> NoKey]
    /\ reply' = [c \in Clients |-> NoReply]

Next ==
    \/ \E c \in Clients : Get(c) \/ Leave(c)
    \/ \E c \in Clients, k \in Keys : Begin(c, k) \/ Lookup(c, k)
    \/ \E k \in Keys, v \in Values : Put(k, v)
    \/ Forget
    \/ Restart

Spec == Init /\ [][Next]_<<live, asked, reply>>

=============================================================================
