------------------------------- MODULE Drift -------------------------------
(***************************************************************************)
(* drift.compare(), run by an operator at any moment: the tree the          *)
(* operator's checkout renders, a reading of the host and a filed receipt,  *)
(* each fetched when the operator gets to it, while promotions go on and    *)
(* the host is changed by hand.                                             *)
(*                                                                         *)
(* A receipt is its place in log.  Its targets_up and routes_verified are   *)
(* one fact: a reading agrees with them (up) or does not.                   *)
(***************************************************************************)
EXTENDS Promotion

CONSTANT Names   \* [tree -> the groups and names of the rules it holds]

ASSUME NamesAssumption ==
    /\ DOMAIN Names = Digests /\ None \notin {Names[d] : d \in Digests}
    /\ "hand" \notin Runs

VARIABLES
    seen,      \* the rules_semantic_digest of each run's read-back
    recorded,  \* the rules_semantic_digest of each receipt of log
    desired,   \* the tree the operator's checkout renders, or None
    reading,   \* the operator's live observation, or None
    receipt,   \* the operator's receipt, or None
    report,    \* the DriftReport, or None
    since      \* history: what touched the host since the last acceptance

artifacts == <<desired, reading, receipt, report>>
driftVars == <<vars, seen, recorded, artifacts, since>>

LastReceipt == IF Accepted = {} THEN None ELSE CHOOSE i \in Accepted : \A j \in Accepted : j <= i

-----------------------------------------------------------------------------
(* rules_semantic_digest() and compare(). *)

\* Mutant: the digest is over what the rules evaluate to, too.
DigestOfEvaluation(tree, up) == IF tree = None THEN None ELSE <<Names[tree], up>>

\* Group and name of every rule the evaluators run; not their expressions.
RulesDigest(tree, up) == IF tree = None THEN None ELSE Names[tree]

Incomparable(tree, observation, document) ==
    {name \in {"desired", "live", "receipt"} :
        \/ name = "desired" /\ tree = None
        \/ name = "live" /\ observation = None
        \/ name = "receipt" /\ document = None}

DesiredVsLive(tree, observation) ==
    {fact \in {"tree"} : tree # None /\ observation # None /\ observation.tree # tree}

\* Mutant: a release that is where it was is taken for a host that is as it was.
LiveVsReceiptByPointer(observation, document) ==
    {fact \in {"release", "up"} :
        /\ observation # None /\ document # None
        /\ \/ fact = "release" /\ observation.current # log[document].current
           \/ fact = "up" /\ ~observation.up}

LiveVsReceipt(observation, document) ==
    {fact \in {"release", "rules", "up"} :
        /\ observation # None /\ document # None
        /\ \/ fact = "release" /\ observation.current # log[document].current
           \/ fact = "rules" /\ observation.rules # recorded[document]
           \/ fact = "up" /\ ~observation.up}

ReceiptVsDesired(tree, document) ==
    {fact \in {"rendered"} : tree # None /\ document # None /\ log[document].tree # tree}

Compared(tree, observation, document) ==
    [incomparable |-> Incomparable(tree, observation, document),
     desired_vs_live |-> DesiredVsLive(tree, observation),
     live_vs_receipt |-> LiveVsReceipt(observation, document),
     receipt_vs_desired |-> ReceiptVsDesired(tree, document)]

\* DriftReport.clean.
Clean(result) == \A pair \in DOMAIN result : result[pair] = {}

-----------------------------------------------------------------------------
(* The operator. *)

DriftInit ==
    /\ Init
    /\ seen = [r \in Runs |-> None]
    /\ recorded = [i \in 1..Len(log) |-> RulesDigest(host.loaded, TRUE)]
    /\ desired = None /\ reading = None /\ receipt = None /\ report = None
    /\ since = {}

CheckOut ==
    /\ desired = None /\ report = None
    /\ desired' = Rendered[tip]
    /\ UNCHANGED <<vars, seen, recorded, reading, receipt, report, since>>

\* after and last are history.
Look(up) ==
    /\ reading = None /\ report = None
    /\ reading' = [tree |-> TreeAt(host.store, host.pointer), current |-> host.pointer,
                   rules |-> RulesDigest(host.loaded, up), up |-> up,
                   after |-> since, last |-> LastReceipt]
    /\ UNCHANGED <<vars, seen, recorded, desired, receipt, report, since>>

\* Any receipt that was filed, whatever its outcome.
PickUp(i) ==
    /\ receipt = None /\ report = None
    /\ receipt' = i
    /\ UNCHANGED <<vars, seen, recorded, desired, reading, report, since>>

Compare ==
    /\ report = None
    /\ report' = Compared(desired, reading, receipt)
    /\ UNCHANGED <<vars, seen, recorded, desired, reading, receipt, since>>

-----------------------------------------------------------------------------
(* A promotion goes on. *)

\* Mutant: only an accepted promotion leaves a record of the rules it read.
RecordsAcceptance ==
    IF Len(log') = Len(log) \/ log'[Len(log')].outcome # "accepted" THEN recorded
    ELSE Append(recorded, seen[log'[Len(log')].run])

\* A receipt records the rules of the reading it was built from: the rollback's
\* own when it is rolled back, the run's read-back, if it got to one, otherwise.
Records ==
    IF Len(log') = Len(log) THEN recorded
    ELSE LET filed == log'[Len(log')]
         IN  Append(recorded, IF filed.outcome = "rolled-back" THEN RulesDigest(host'.loaded, TRUE)
                              ELSE seen[filed.run])

\* What may have left the host other than the last accepted receipt says: a change
\* by hand, or a run from its stage() on, until it is rolled back with proof.  An
\* accepted run leaves the changes made since its evaluators were surely reloaded.
Since ==
    LET settled == {r \in Runs : Files(r, "rolled-back") /\ log'[Len(log')].restored = TRUE}
        staging == {r \in Runs : pc[r] = "stage" /\ pc'[r] # "stage"}
        byHand == IF hands' # hands THEN {"hand"} ELSE {}
    IN  IF \E r \in Runs : Files(r, "accepted")
        THEN IF \E r \in Runs : Files(r, "accepted") /\ LoadedAt(r) # hands THEN {"hand"} ELSE {}
        ELSE (since \cup byHand \cup staging) \ settled

Promote ==
    /\ Next
    /\ seen' = [r \in Runs |-> IF live'[r] # live[r] THEN RulesDigest(host'.loaded, TRUE)
                               ELSE seen[r]]
    /\ recorded' = Records
    /\ since' = Since
    /\ UNCHANGED artifacts

DriftNext ==
    \/ Promote
    \/ CheckOut
    \/ \E up \in BOOLEAN : Look(up)
    \/ \E i \in 1..Len(log) : PickUp(i)
    \/ Compare

DriftSpec == DriftInit /\ [][DriftNext]_driftVars

-----------------------------------------------------------------------------
(* Properties. *)

Facts == [incomparable : SUBSET {"desired", "live", "receipt"}, desired_vs_live : SUBSET {"tree"},
          live_vs_receipt : SUBSET {"release", "rules", "up"},
          receipt_vs_desired : SUBSET {"rendered"}]

\* Every variable has its type, and every receipt filed has its recorded rules.
DriftTypeOK ==
    /\ TypeOK
    /\ Len(recorded) = Len(log)
    /\ desired \in Digests \cup {None}
    /\ reading # None => /\ reading.tree \in Digests \cup {None}
                         /\ reading.current \in Dirs \cup {None}
    /\ receipt # None => receipt \in 1..Len(log)
    /\ report # None => report \in Facts
    /\ since \subseteq Runs \cup {"hand"}

\* No change by hand came between the last sure reload of the evaluators and the
\* read-back receipt i was built from.
Loaded(i) == log[i].run \in Runs => LoadedAt(log[i].run) = live[log[i].run].at

\* A clean comparison with an accepted receipt is about the host: when it was read,
\* the release held the tree the checkout renders, and the evaluators ran the rules
\* that tree names - unless the receipt recorded an edit they had loaded and that
\* was undone - however far apart the three artifacts were fetched.
CleanMeansDeployed ==
    report # None /\ Clean(report) /\ receipt \in Accepted =>
        /\ reading.tree = desired
        /\ Loaded(receipt) => reading.rules = Names[desired]

\* The pair that blames a change outside promotion is never raised over a host
\* that promotions left as the last accepted receipt says: a run that was turned
\* away, failed before stage() or was rolled back with proof leaves nothing for it.
NoFalseAlarm ==
    report # None /\ reading # None /\ receipt # None =>
        (receipt = reading.last /\ reading.after = {} =>
            report.live_vs_receipt \subseteq {"up"})
=============================================================================
