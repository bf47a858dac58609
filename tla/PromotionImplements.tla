------------------------ MODULE PromotionImplements ------------------------
(***************************************************************************)
(* Promotion implements PromotionRecord, as long as nobody changes the     *)
(* host by hand: from stage() to the filing of its receipt a run is hidden *)
(* behind the release it found, and takes effect in one step.              *)
(***************************************************************************)
EXTENDS Promotion

Staged == {"reload", "observe", "judge", "accept", "rollback"}

InForce ==
    IF \E r \in Runs : pc[r] \in Staged
    THEN prior[CHOOSE r \in Runs : pc[r] \in Staged].pointer
    ELSE host.pointer

Journal == [i \in 1..Len(log) |-> [run |-> log[i].run, outcome |-> log[i].outcome,
                                   proved |-> log[i].restored = TRUE]]

Record == INSTANCE PromotionRecord WITH inForce <- InForce, journal <- Journal

\* The receipts mean what PromotionRecord says: an accepted run's release is in
\* force, a rolled-back run with proof changed nothing, in one step each.
ImplementsRecord == Record!Spec
=============================================================================
