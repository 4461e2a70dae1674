------------------------ MODULE MCEvidenceRetrieval ------------------------
(***************************************************************************)
(* Small instances of EvidenceRetrieval.                                   *)
(***************************************************************************)
EXTENDS EvidenceRetrieval

\* One verification with two claims, a search term for each.
FanOutBatches == {"b1"}
FanOutClaims == {"c1", "c2"}
FanOutClaimsOf == [b1 |-> <<"c1", "c2">>]
FanOutSources == {"wikipedia", "serpapi"}
FanOutTerms == [s \in FanOutSources |-> [c \in FanOutClaims |-> 1]]

\* A verification without claims next to one with a source of each kind.
MixedBatches == {"b1", "b2"}
MixedClaims == {"c1"}
MixedClaimsOf == [b1 |-> <<"c1">>, b2 |-> <<>>]
MixedSources == {"wikipedia", "serpapi", "scholar"}
MixedTerms == [s \in MixedSources |-> [c1 |-> IF s = "scholar" THEN 1 ELSE 2]]
=============================================================================
