---------------------------- MODULE LiveReceipt ----------------------------
(***************************************************************************)
(* The accepted receipt of a read-back, and receipt_findings()'s re-check   *)
(* of it.  The re-check sees the receipt's counts but no row of the         *)
(* document, and of what the promotion was authorized to do only what its   *)
(* caller hands it: the receipt-check command hands it nothing but whether  *)
(* this is the first promotion.                                             *)
(***************************************************************************)
EXTENDS LiveHost

CONSTANTS Declared,  \* [job with an `expected`, or federation -> number of targets]
          Filings,   \* what a promotion brings to its receipt besides the read-back:
                     \* [validation, images, plan, execution, rendered, run, shaped, private]
          Handed     \* what the re-check is handed, each None when it is not:
                     \* [first, verdict, images, plan, execution, rendered]

\* contracts/bundle.schema.json asks a bundle for a gate.
ASSUME DeclaredAssumption ==
    /\ \A job \in DOMAIN Declared : job \in DOMAIN Expected /\ Declared[job] = Expected[job]
    /\ Alerts # {}

Counted(rows, health) == Cardinality({i \in DOMAIN rows : rows[i].health = health})

\* An inventory that declares no count expects what it finds.
ExpectedTotal(live) ==
    LET total == FoldFunction(LAMBDA n, m : n + m, 0, Declared)
    IN  IF total = 0 THEN Len(live.targets) ELSE total

\* Mutant: a job is up when any target of it is.
TargetsUpByJob(live) ==
    Cardinality({live.targets[i].job : i \in {j \in DOMAIN live.targets : live.targets[j].health = "up"}})

TargetsUp(live) == Counted(live.targets, "up")

\* Mutant: a rule is healthy until something is seen to be wrong with the host.
RulesUnlessFiring(live) == Len(live.rules)

RulesHealthy(live) == Counted(live.rules, "ok")

\* build_receipt(), of what the promotion read back and what it brought.
Receipt(live, filing) ==
    [filing |-> filing, previous |-> live.previous,
     targets_expected |-> ExpectedTotal(live), targets_up |-> TargetsUp(live),
     rules_loaded |-> Len(live.rules), rules_healthy |-> RulesHealthy(live),
     delivered |-> live.canary.delivered]

-----------------------------------------------------------------------------
(* The re-check. *)

Checks == {"render_check", "secret_scan", "promtool_config", "promtool_rules",
           "amtool_config", "compose_config"}

\* The schema, of an accepted receipt: every check ran and no other is known, and the
\* images are listed, each once.  The shapes of the other fields are `shaped`.
WellFormed(filing) ==
    /\ filing.shaped
    /\ DOMAIN filing.validation = Checks
    /\ filing.images # <<>> /\ Cardinality(ToSet(filing.images)) = Len(filing.images)

ReleaseFindings(receipt, handed) ==
    {code \in {"NO-ROLLBACK-TARGET"} : receipt.previous = None /\ ~handed.first}

\* What was not handed in is not compared.
Differs(handed, recorded) == handed # None /\ handed # recorded

\* _authorization_findings(), _image_findings() and _digest_findings().
AuthorizedFindings(filing, handed) ==
    {code \in {"PLAN-DIGEST", "EXECUTION-PLAN-ABSENT", "EXECUTION-PLAN-DIGEST", "IMAGE-SET",
               "RENDERED-DIGEST"} :
        \/ code = "PLAN-DIGEST" /\ Differs(handed.plan, filing.plan)
        \/ code = "EXECUTION-PLAN-ABSENT" /\ handed.execution # None /\ filing.execution = None
        \/ code = "EXECUTION-PLAN-DIGEST" /\ filing.execution # None
                                         /\ Differs(handed.execution, filing.execution)
        \/ code = "IMAGE-SET" /\ Differs(handed.images, ToSet(filing.images))
        \/ code = "RENDERED-DIGEST" /\ Differs(handed.rendered, filing.rendered)}

AcceptedFindings(receipt, handed) ==
    {code \in {"FAILED-CHECK", "TARGETS", "NO-RULES", "UNHEALTHY-RULES", "CANARY",
               "UNPROVEN-RUN", "WITHOUT-VERDICT"} :
        \/ code = "FAILED-CHECK" /\ \E name \in DOMAIN receipt.filing.validation :
                                        ~receipt.filing.validation[name]
        \/ code = "TARGETS" /\ receipt.targets_up # receipt.targets_expected
        \/ code = "NO-RULES" /\ receipt.rules_loaded = 0
        \/ code = "UNHEALTHY-RULES" /\ receipt.rules_loaded # 0
                                    /\ receipt.rules_healthy # receipt.rules_loaded
        \/ code = "CANARY" /\ ~receipt.delivered
        \/ code = "UNPROVEN-RUN" /\ receipt.filing.run = None
        \/ code = "WITHOUT-VERDICT" /\ Differs(handed.verdict, "deployed_repaired")}

\* Of the receipt of a promotion that got to accept(): a receipt of another shape is
\* not looked at further.
Findings(filing, handed) ==
    LET receipt == Receipt(latest, filing)
    IN  IF ~WellFormed(filing) THEN {"SCHEMA"}
        ELSE {code \in {"PRIVATE"} : filing.private}
             \cup ReleaseFindings(receipt, handed)
             \cup AuthorizedFindings(filing, handed)
             \cup AcceptedFindings(receipt, handed)

-----------------------------------------------------------------------------
(* Properties. *)

\* What the verdict overlooks the counts do not: the receipt of a host that runs a
\* rule of a declared name which fails to evaluate, in whichever group it is, does not
\* pass its re-check, whatever the promotion brings to it and whatever the re-check is
\* handed.  (The verdict alone may overlook it: see DeclaredRulesEvaluate.)
ReceiptCoversEveryGate ==
    latest # None
    /\ (\E i \in DOMAIN latest.rules :
           latest.rules[i].name \in Alerts /\ latest.rules[i].health # "ok")
    => \A filing \in Filings, handed \in Handed : Findings(filing, handed) # {}

\* What the promotion brings is in order: all six checks, passed, of the images, plans
\* and tree that were authorized, in a run somebody else can name.
InOrder(filing, handed) ==
    /\ WellFormed(filing) /\ ~filing.private
    /\ \A name \in Checks : filing.validation[name]
    /\ filing.run # None
    /\ handed.verdict \in {None, "deployed_repaired"}
    /\ handed.images \in {None, ToSet(filing.images)}
    /\ handed.plan \in {None, filing.plan}
    /\ handed.execution \in {None, filing.execution}
    /\ handed.rendered \in {None, filing.rendered}

\* The verdict and the re-check count the same things.  Of a host that is judged
\* repaired and declared count by count, the receipt passes exactly when the promotion
\* brings it in order, no loaded rule is unhealthy and the read-back has the release
\* before it, unless this is the first: verify() asks for neither of the last two, and
\* no count of targets, rules or deliveries that it accepts is refused.
RepairedReceiptPasses ==
    latest # None /\ Repaired(baseline, latest) /\ DOMAIN Declared = DOMAIN Expected =>
        \A filing \in Filings, handed \in Handed :
            Findings(filing, handed) = {} <=>
                /\ InOrder(filing, handed)
                /\ \A i \in DOMAIN latest.rules : latest.rules[i].health = "ok"
                /\ latest.previous # None \/ handed.first
=============================================================================
