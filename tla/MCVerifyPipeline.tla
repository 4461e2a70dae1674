-------------------------- MODULE MCVerifyPipeline --------------------------
(***************************************************************************)
(* Small instances of VerifyPipeline.  Characters are single letters; with *)
(* MinLength = 2 a field of two characters is the shortest accepted.        *)
(* Requests are listed as records, so that each scenario reads as one.      *)
(***************************************************************************)
EXTENDS VerifyPipeline

Post(user, question, answer, type) ==
    [user |-> user, question |-> question, answer |-> answer, type |-> type]

Fact == <<"f", "q">>
Opinion == <<"o", "q">>
Reply == <<"a", "a">>
Spaces == <<" ", " ">>
Alice == <<"u">>
Bob == <<"w">>
MCUsers == {Alice, Bob, Spaces}

\* One text, cut into question and answer at different places by two users,
\* one of whom adds stray blanks and whose question passes for an opinion, the
\* cached verdict on which may not live as long.  A third, whose id is blank,
\* has another question and the answer of the first.
Clash == <<Post(Alice, Fact, Reply \o <<"a">>, "programming"),
           Post(Bob, <<" ">> \o Fact \o <<"a", " ">>, Reply, "opinion_subjective"),
           Post(Spaces, Opinion, Reply \o <<"a">>, "opinion_subjective")>>
ClashRequests == DOMAIN Clash
ClashUserOf == [r \in DOMAIN Clash |-> Clash[r].user]
ClashQuestion == [r \in DOMAIN Clash |-> Clash[r].question]
ClashAnswer == [r \in DOMAIN Clash |-> Clash[r].answer]
ClashTypeOf == [r \in DOMAIN Clash |-> Clash[r].type]

\* A question of blanks only, long enough before it is stripped.
Blanks == <<Post(Alice, Spaces, Reply, "encyclopedic"),
            Post(Bob, Spaces, Reply, "encyclopedic")>>
BlanksRequests == DOMAIN Blanks
BlanksUserOf == [r \in DOMAIN Blanks |-> Blanks[r].user]
BlanksQuestion == [r \in DOMAIN Blanks |-> Blanks[r].question]
BlanksAnswer == [r \in DOMAIN Blanks |-> Blanks[r].answer]
BlanksTypeOf == [r \in DOMAIN Blanks |-> Blanks[r].type]

\* Out of range on both sides, the highest hallucination and the lowest accurate
\* one; the heuristic adds 50.
ClashRawScores == <<{-5}, {120}, {39, 70}>>
BlanksRawScores == <<{-5}, {120}>>

\* What the mediator reports is not clamped; 100 is what it says when it fails.
MCConfidences == {-20, 100}
=============================================================================
