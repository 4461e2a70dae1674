--------------------------- MODULE EvidenceBudget ---------------------------
(***************************************************************************)
(* What the judge reads: EvidenceAggregator.aggregate, which removes what  *)
(* is said twice, puts the best first and cuts to a budget, and the        *)
(* consensus mediator after it, for one verification at a time.            *)
(*                                                                         *)
(* A text is a sequence of characters.  The only ones told apart are the   *)
(* full stop, which stands for all punctuation, the blank, the newline     *)
(* and the digits; letters are lower case.  A source's evidence is the     *)
(* sequence of the parts that the blank lines in it separate.              *)
(***************************************************************************)
EXTENDS Integers, Sequences, FiniteSets, FiniteSetsExt, SequencesExt

CONSTANTS
    Retrievals,     \* the evidence_maps to try: a sequence of parts per source
    MaxTokens,      \* settings.max_evidence_tokens
    Medium, Long, Huge,  \* the lengths the ranking tells apart: 50, 500, 1000
    Characters,
    Digits,
    Boilerplate,    \* phrases of advertisements and the like
    Heading,        \* the mediator's line above each source
    Insight,        \* its analysis, above all of them
    Stop, Blank, Newline

ASSUME BudgetAssumption ==
    /\ MaxTokens \in Nat \ {0}
    /\ {Medium, Long, Huge} \subseteq Nat /\ Medium <= Long /\ Long <= Huge
    /\ Cardinality({Stop, Blank, Newline}) = 3

White == {Blank, Newline}
Texts == Seq(Characters)

\* What aggregate makes of a source's evidence: it strips the parts and drops
\* those that are blank.
Parts == {t \in Texts : t # <<>> /\ t[1] \notin White /\ t[Len(t)] \notin White}

ASSUME TextAssumption ==
    /\ {Stop, Blank, Newline} \cup Digits \subseteq Characters
    /\ Boilerplate \subseteq Texts /\ IsFiniteSet(Boilerplate)
    /\ {Heading, Insight} \subseteq Texts
    /\ Retrievals \subseteq Seq(Seq(Parts))

VARIABLES
    step,          \* where verify is
    evidence_map,
    aggregated,    \* aggregator.aggregate's answer, then the text for the judge
    mediation      \* what became of check_consensus

vars == <<step, evidence_map, aggregated, mediation>>

BlankLine == <<Newline, Newline>>

\* Joined(texts)[n] is what the first n make.
Joined(texts) ==
    LET done[n \in 0 .. Len(texts)] ==
          IF n = 0 THEN <<>> ELSE IF n = 1 THEN texts[1] ELSE done[n - 1] \o BlankLine \o texts[n]
    IN  done

Join(texts) == Joined(texts)[Len(texts)]

\* The members of S from the first to the last in the strict order R.
Ordered(S, R) ==
    [k \in 1 .. Cardinality(S) |->
        CHOOSE i \in S : Cardinality({j \in S : <<j, i>> \in R}) = k - 1]

Rising(S) == {p \in S \X S : p[1] < p[2]}

\* What stands at the given places.
At(t, places) ==
    [k \in 1 .. Cardinality(places) |-> t[Ordered(places, Rising(places))[k]]]

Strip(t) ==
    LET solid == {i \in DOMAIN t : t[i] \notin White}
    IN  IF solid = {} THEN <<>> ELSE SubSeq(t, Min(solid), Max(solid))

-----------------------------------------------------------------------------

\* Runs of white space become one blank first, punctuation goes last.
Normalised(t) ==
    LET single == At(t, {i \in DOMAIN t : t[i] \notin White \/ i = 1 \/ t[i-1] \notin White})
        spaced == [i \in DOMAIN single |-> IF single[i] \in White THEN Blank ELSE single[i]]
    IN  At(spaced, {i \in DOMAIN spaced : spaced[i] # Stop})

In(x, y) == \E k \in 0 .. Len(y) - Len(x) : SubSeq(y, k + 1, k + Len(x)) = x

\* Mutant: exact repetitions are looked for in the raw texts.
FirstOfEachRaw(ps) == {i \in DOMAIN ps : \A j \in 1 .. i - 1 : ps[j] # ps[i]}

FirstOfEach(ps) ==
    {i \in DOMAIN ps : \A j \in 1 .. i - 1 : Normalised(ps[j]) # Normalised(ps[i])}

\* Mutant: the part that contains the other goes.
ContainedReversed(p, q) ==
    /\ In(Normalised(q), Normalised(p))
    /\ Len(Normalised(q)) < Len(Normalised(p))

Contained(p, q) ==
    /\ In(Normalised(p), Normalised(q))
    /\ Len(Normalised(p)) < Len(Normalised(q))

Deduplicated(ps) ==
    LET unique == At(ps, FirstOfEach(ps))
    IN  At(unique, {i \in DOMAIN unique :
                       \A j \in DOMAIN unique : ~Contained(unique[i], unique[j])})

\* In halves of a point.
Score(t) ==
    LET length == IF Len(t) < Medium THEN 1 ELSE IF Len(t) <= Long THEN 6
                  ELSE IF Len(t) <= Huge THEN 4 ELSE 2
        penalty == 2 * Cardinality({phrase \in Boilerplate : In(phrase, t)})
    IN  length - penalty + (IF \E i \in DOMAIN t : t[i] \in Digits THEN 1 ELSE 0)

\* Mutant: the worst first.
BeforeAscending(ps) ==
    {p \in (DOMAIN ps) \X (DOMAIN ps) :
        \/ Score(ps[p[1]]) < Score(ps[p[2]])
        \/ Score(ps[p[1]]) = Score(ps[p[2]]) /\ p[1] < p[2]}

\* sorted is stable, also in reverse.
Before(ps) ==
    {p \in (DOMAIN ps) \X (DOMAIN ps) :
        \/ Score(ps[p[1]]) > Score(ps[p[2]])
        \/ Score(ps[p[1]]) = Score(ps[p[2]]) /\ p[1] < p[2]}

Ranked(ps) == [k \in DOMAIN ps |-> ps[Ordered(DOMAIN ps, Before(ps))[k]]]

CharLimit == 4 * MaxTokens

\* How many characters stand up to the last end of a sentence or line.
LastBreak(t) == Max({0} \cup {i \in DOMAIN t : t[i] \in {Stop, Newline}})

\* Mutant: the cut is at the last end of a sentence, wherever that is.
TrimAtAnyBreak(t) ==
    LET head == SubSeq(t, 1, CharLimit)
    IN  IF Len(t) \div 4 <= MaxTokens THEN t ELSE Strip(SubSeq(head, 1, LastBreak(head)))

\* A token is taken for four characters, rounded down.  The cut is at a break
\* only if that leaves more than half of the budget.
Trim(t) ==
    LET head == SubSeq(t, 1, CharLimit)
        last == LastBreak(head)
    IN  IF Len(t) \div 4 <= MaxTokens THEN t
        ELSE Strip(IF 2 * (last - 1) > CharLimit THEN SubSeq(head, 1, last) ELSE head)

Flat(map) == FlattenSeq(map)
Kept(map) == Ranked(Deduplicated(Flat(map)))
Aggregate(map) == Trim(Join(Kept(map)))

-----------------------------------------------------------------------------

Init ==
    /\ step = "retrieve"
    /\ evidence_map = <<>>
    /\ aggregated = <<>>
    /\ mediation = "none"

Retrieve ==
    /\ step = "retrieve"
    /\ evidence_map' \in Retrievals
    /\ step' = "aggregate"
    /\ UNCHANGED <<aggregated, mediation>>

AggregateEvidence ==
    /\ step = "aggregate"
    /\ aggregated' = Aggregate(evidence_map)
    /\ step' = IF Len(evidence_map) > 1 THEN "mediate" ELSE "judge"
    /\ UNCHANGED <<evidence_map, mediation>>

\* Each source's evidence as it came, under a heading.
Sections == Join([k \in DOMAIN evidence_map |-> Heading \o Join(evidence_map[k])])

\* The answer replaces what was aggregated, with the mediator's analysis, or
\* without when there is no client or the call fails.
Mediate ==
    /\ step = "mediate"
    /\ \/ mediation' = "analysed" /\ aggregated' = Insight \o BlankLine \o Sections
       \/ mediation' = "skipped" /\ aggregated' = Sections
    /\ step' = "judge"
    /\ UNCHANGED evidence_map

\* The next verification.
Judge ==
    /\ step = "judge"
    /\ step' = "retrieve"
    /\ evidence_map' = <<>> /\ aggregated' = <<>> /\ mediation' = "none"

Next == Retrieve \/ AggregateEvidence \/ Mediate \/ Judge

Spec == Init /\ [][Next]_vars

-----------------------------------------------------------------------------

\* The aggregator has answered and its answer stands.
Fresh == step = "mediate" \/ (step = "judge" /\ mediation = "none")

\* Whatever a source said is still said by a part that the aggregator keeps, if
\* in a longer part, although parts are dropped for parts that are themselves
\* dropped (evidence_aggregator.py:54-71).
NothingLost ==
    Fresh => \A k \in DOMAIN evidence_map : \A i \in DOMAIN evidence_map[k] :
        \E j \in DOMAIN Kept(evidence_map) :
            In(Normalised(evidence_map[k][i]), Normalised(Kept(evidence_map)[j]))

\* No two parts that are kept say the same, be it with other punctuation, or
\* one within the other (evidence_aggregator.py:48-71).
NoneRedundant ==
    Fresh => \A i, j \in DOMAIN Kept(evidence_map) : i # j =>
        ~In(Normalised(Kept(evidence_map)[i]), Normalised(Kept(evidence_map)[j]))

\* The aggregator keeps to the budget, up to the three characters lost in
\* rounding, and loses no more than it must: a text that fits stands as it is,
\* and of one that does not all of the first half of the budget stays, however
\* much white space there is around the cut.  The mediator's text, which takes
\* its place when two sources answer, is not cut
\* (evidence_aggregator.py:147-167, verify.py:241-245).
BudgetKept ==
    Fresh =>
        LET whole == Join(Kept(evidence_map))
        IN  /\ Len(aggregated) <= CharLimit + 3
            /\ Len(whole) <= CharLimit + 3 => aggregated = whole
            /\ IsPrefix(aggregated, whole)
            /\ \A i \in DOMAIN whole :
                 (2 * i <= CharLimit /\ whole[i] \notin White) => i <= Len(aggregated)

\* What falls to the budget is the worst: as many of the best parts as end
\* below the limit are there, whole and in front, wherever the cut falls
\* (evidence_aggregator.py:129, 158-165).
BestKeptWhole ==
    Fresh =>
        LET kept == Kept(evidence_map)
        IN  \A n \in DOMAIN kept : Len(Join(SubSeq(kept, 1, n))) < CharLimit =>
              /\ IsPrefix(Join(SubSeq(kept, 1, n)), aggregated)
              /\ \A i \in 1 .. n : \A j \in n + 1 .. Len(kept) : Score(kept[i]) >= Score(kept[j])

=============================================================================
