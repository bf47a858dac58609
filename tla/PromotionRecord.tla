-------------------------- MODULE PromotionRecord --------------------------
(***************************************************************************)
(* What the receipts promise to somebody who reads only them.              *)
(*                                                                         *)
(* A promotion is one step: it is accepted and its release is in force, or *)
(* it is rolled back with proof and the release in force did not change.   *)
(* Any other ending - a failed outcome, a rollback nothing proves, a job   *)
(* that vanished without a receipt - promises nothing about the host, which *)
(* is why each of them needs a human.                                      *)
(***************************************************************************)
EXTENDS Naturals, Sequences

CONSTANTS Runs, Initial, None

VARIABLES inForce,   \* the release in force, as far as a reader can tell
          journal    \* [run, outcome, proved], oldest first

Releases == Runs \cup {Initial, None}

Init ==
    \/ inForce = None /\ journal = <<>>
    \/ /\ inForce = Initial
       /\ journal = <<[run |-> Initial, outcome |-> "accepted", proved |-> TRUE]>>

Unfiled(r) == \A i \in 1..Len(journal) : journal[i].run # r

Enter(r, result, proof) ==
    /\ Unfiled(r)
    /\ journal' = Append(journal, [run |-> r, outcome |-> result, proved |-> proof])

Accept(r) ==
    /\ \E proof \in BOOLEAN : Enter(r, "accepted", proof)
    /\ inForce' = r

\* inForce = None never gets a rolled-back receipt: there is nothing to restore.
RollBack(r) ==
    /\ inForce # None
    /\ Enter(r, "rolled-back", TRUE)
    /\ UNCHANGED inForce

Unsettle(r) ==
    /\ \/ \E proof \in BOOLEAN : Enter(r, "failed", proof)
       \/ Enter(r, "rolled-back", FALSE)
    /\ inForce' \in Releases

Vanish ==
    /\ inForce' \in Releases
    /\ UNCHANGED journal

Next ==
    \/ \E r \in Runs : Accept(r) \/ RollBack(r) \/ Unsettle(r)
    \/ Vanish

Spec == Init /\ [][Next]_<<inForce, journal>>
=============================================================================
