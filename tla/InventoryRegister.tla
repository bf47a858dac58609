-------------------------- MODULE InventoryRegister --------------------------
(***************************************************************************)
(* What a reviewer who merges a request may count on: the private inventory *)
(* is a register, a merged request takes the very document it was reviewed  *)
(* against to its result, in one step or not at all, and nobody but the     *)
(* operator changes it otherwise.  A store that truncates a write leaves    *)
(* Torn.                                                                    *)
(***************************************************************************)
EXTENDS InventoryDocuments

VARIABLES doc,     \* the document in the store
          merged,  \* the requests merged so far
          hands    \* how many documents were written by hand

Init == merged = {} /\ hands = 0

Merge == merged \subseteq merged' /\ UNCHANGED <<doc, hands>>

Apply(q) ==
    /\ doc = q.digest
    /\ doc' \in {Result(q, doc), Torn}
    /\ UNCHANGED <<merged, hands>>

ByHand == hands' = hands + 1 /\ UNCHANGED merged

Next == Merge \/ ByHand \/ \E q \in merged : Apply(q)

Spec == Init /\ [][Next]_<<doc, merged, hands>>
=============================================================================
