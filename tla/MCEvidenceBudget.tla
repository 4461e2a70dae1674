-------------------------- MODULE MCEvidenceBudget --------------------------
(***************************************************************************)
(* Small instances of EvidenceBudget: three parts of evidence, in every    *)
(* order, from one source or two.  "_" is the blank, "/" the newline.      *)
(***************************************************************************)
EXTENDS EvidenceBudget

MCParts == {
    <<"a">>,
    <<"a", ".">>,
    <<"b", "_", "a">>,                       \* contains the first two
    <<"b", "/", "a", "_", "1">>,             \* contains all of these
    <<"b", ".", "1">>,
    <<"1", ".", "b", ".", "b", "a">>,        \* the first stop is early
    <<"1", "b", "b", "a", "b", ".", "b">>,   \* ends just below the limit
    <<"c", ".", "1", "a", "b", "b", "a", "a", "b", "b", "a", "a">>,  \* does not fit
    <<"b", "_", "_", "_", "_", "/", "_", "_", "_", "1">>,  \* white before the limit
    <<"c", "c", "c">> }                      \* boilerplate

MCRetrievals ==
    {<<>>} \cup {<<<<p>>>> : p \in MCParts}
    \cup {<<<<p, q, r>>>> : p, q, r \in MCParts} \cup {<<<<p, q>>, <<r>>>> : p, q, r \in MCParts}
MCCharacters == {"a", "b", "c", "i", "1", "-", ".", "_", "/"}
MCDigits == {"1"}
MCBoilerplate == {<<"c", "c">>}
MCHeading == <<"-", "/">>
MCInsight == <<"i", "1">>
=============================================================================
