----------------------------- MODULE MCRunRecord -----------------------------
(* TLC instance of RunRecord: a genealogy with a claim that feeds the verdict *)
(* and a source that only feeds the extraction, and outcomes that invalidate  *)
(* nothing, the claim, or an id outside the genealogy.                        *)
EXTENDS RunRecord, TLC

CONSTANTS claim, source, final, label

MCNode == {claim, source, final}
MCEdge == {<<claim, final>>}
MCFindings == {<<{}, {}>>, <<{claim}, {}>>, <<{source}, {}>>, <<{}, {claim}>>}
\* An outcome without an invalidation has the same steps but fewer writes.
InvalidClaim == {{claim}}
InvalidLabel == {{}, {label}}

OutcomeSymmetry == Permutations(Outcome)
=============================================================================
