---------------------------- MODULE MCPromotion ----------------------------
(***************************************************************************)
(* Small instances of Promotion.  Revision 2 renders the tree revision 1   *)
(* rendered: a merge need not change a byte of the release.                *)
(***************************************************************************)
EXTENDS PromotionImplements, TLC

CONSTANTS r1, r2, r3

MCRendered == [v \in Revisions |-> IF v = 0 THEN "d0" ELSE IF v = 3 THEN "d3" ELSE "d1"]
MCDigests == {"d0", "d1", "d3", "edited"}
RunSymmetry == Permutations(Runs)

\* Nothing reads what promote() held in a run that has ended, but for an accepted
\* one: states that differ in no more than that are one state.
Ongoing(f) ==
    [r \in Runs |-> IF pc[r] \in Ended /\ outcome[r] # "accepted" THEN None ELSE f[r]]

OngoingView ==
    <<tip, host, hands, pc, request, outcome, log, Ongoing(reached), Ongoing(staged),
      Ongoing(live), Ongoing(previous), Ongoing(trouble), Ongoing(prior)>>
=============================================================================
