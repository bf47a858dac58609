------------------------------ MODULE MCDrift ------------------------------
(***************************************************************************)
(* Small instances of Drift.  A hand edit changes an expression, and leaves *)
(* the rule set's identity alone.                                           *)
(***************************************************************************)
EXTENDS Drift, TLC

CONSTANT r1

MCRendered == [v \in Revisions |-> IF v = 0 THEN "d0" ELSE "d1"]
MCNames == [d \in Digests |-> IF d = "d1" THEN "new rules" ELSE "rules"]
=============================================================================
