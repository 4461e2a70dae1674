---------------------------- MODULE SourceRouter ----------------------------
(***************************************************************************)
(* What SourceRouter.retrieve_evidence promises the verifications that     *)
(* call it, whatever becomes of its tasks: nothing until it returns, and   *)
(* then an evidence_map, in which a source appears only with texts that it *)
(* found itself, for the claims of the call and in their order.  A source  *)
(* that has nothing does not appear, so that the size of the map tells     *)
(* whether there is anything to compare.                                   *)
(***************************************************************************)
EXTENDS Integers, Sequences

CONSTANTS
    Batches,   \* calls that may overlap
    ClaimsOf,  \* the claims of each, in order
    Sources,
    Findings   \* what the sources can find: records with source, claim, text

VARIABLES
    running,   \* running[b]: the call has not returned
    evidence   \* evidence[b]: what it returned last

Init ==
    /\ running = [b \in Batches |-> FALSE]
    /\ evidence = [b \in Batches |-> <<>>]

\* The pieces are texts s found for claims of b, at most one each, in order.
Supports(pieces, b, s) ==
    /\ \A k \in DOMAIN pieces : pieces[k].source = s /\ pieces[k].text
    /\ \E place \in [DOMAIN pieces -> DOMAIN ClaimsOf[b]] :
         /\ \A k \in DOMAIN pieces : ClaimsOf[b][place[k]] = pieces[k].claim
         /\ \A k, l \in DOMAIN pieces : k < l => place[k] < place[l]

Answer(b, map) ==
    \A s \in DOMAIN map :
        s \in Sources /\ map[s] \in Seq(Findings) \ {<<>>} /\ Supports(map[s], b, s)

Call(b) ==
    /\ ~running[b]
    /\ running' = [running EXCEPT ![b] = TRUE]
    /\ evidence' = [evidence EXCEPT ![b] = <<>>]

Return(b) ==
    /\ running[b]
    /\ running' = [running EXCEPT ![b] = FALSE]
    /\ Answer(b, evidence'[b])
    /\ evidence' = [evidence EXCEPT ![b] = evidence'[b]]

Next == \E b \in Batches : Call(b) \/ Return(b)

Spec == Init /\ [][Next]_<<running, evidence>>

=============================================================================
