----------------------------- MODULE LiveVerify -----------------------------
(***************************************************************************)
(* live_verify.verify(): the conditions a read-back of the control plane    *)
(* has to meet before a promotion is deployed_repaired.  Conditions 1 to 5  *)
(* are here, over the documents the facility hands in; condition 6 is       *)
(* RollbackUnmet of module Promotion.                                       *)
(*                                                                         *)
(* A document is a record of the sections of                                *)
(* observability-live-observation.v2, each a sequence of rows.              *)
(***************************************************************************)
EXTENDS Integers, Sequences, FiniteSets

CONSTANTS None,       \* Python's None
          Subject,    \* the host (and environment) the desired state describes
          Tree,       \* [rendered path -> digest]
          Expected,   \* [declared job -> number of targets]
          Alerts,     \* the alert names of the declared gates
          Counters,   \* the counters those gates' predicates name
          Window,     \* the longest window of those gates; None if one is unreadable
          Routes,     \* [declared route -> receiver]
          Receivers,  \* declared receivers
          Surfaces    \* declared surfaces: [name, kind, family, exposure]

ASSUME VerifyAssumption == Window \in Nat \cup {None}

\* {row.field: row for row in rows}: of several rows with one key, the last.
Keyed(rows, field) ==
    [k \in {rows[i][field] : i \in DOMAIN rows} |->
        rows[CHOOSE i \in DOMAIN rows :
                /\ rows[i][field] = k
                /\ \A j \in DOMAIN rows : rows[j][field] = k => j <= i]]

-----------------------------------------------------------------------------
\* Mutant: condition 1 of whichever host the document is of.
TreeMetOfAnyHost(live) ==
    LET observed == Keyed(live.tree, "path")
    IN  /\ live.tree # <<>>
        /\ DOMAIN observed = DOMAIN Tree
        /\ \A p \in DOMAIN Tree : observed[p].sha256 = Tree[p]

\* Condition 1: this host, exactly the rendered paths, the rendered bytes.
TreeMet(live) ==
    LET observed == Keyed(live.tree, "path")
    IN  /\ live.subject = Subject
        /\ live.tree # <<>>
        /\ DOMAIN observed = DOMAIN Tree
        /\ \A p \in DOMAIN Tree : observed[p].sha256 = Tree[p]

\* Condition 2: the declared jobs and no others, complete and up.
TargetsMet(live) ==
    LET of(job) == {i \in DOMAIN live.targets : live.targets[i].job = job}
    IN  /\ live.targets # <<>>
        /\ \A i \in DOMAIN live.targets : live.targets[i].job \in DOMAIN Expected
        /\ \A job \in DOMAIN Expected :
            /\ of(job) # {} /\ Cardinality(of(job)) = Expected[job]
            /\ \A i \in of(job) : live.targets[i].health = "up"

\* Condition 2, continued: every declared gate's alert is loaded and evaluates.
RulesMet(live) ==
    LET loaded == Keyed(live.rules, "name")
    IN  \A a \in Alerts : a \in DOMAIN loaded /\ loaded[a].health = "ok"

\* Mutant: a value that did not move is taken for a counter that did not.
SameReading(before, after) ==
    /\ before.value # 0
    /\ after.value = before.value

\* Condition 3, of one counter's readings.
ReadingMet(before, after) ==
    /\ before.value # 0
    /\ after.process_start_time = before.process_start_time
    /\ after.value = before.value

\* Condition 3: every declared counter and no other, over the gates' window.
IntegrityMet(baseline, live) ==
    /\ baseline # None
    /\ LET read == Keyed(live.integrity, "counter")
           based == Keyed(baseline.integrity, "counter")
       IN  /\ DOMAIN read = Counters
           /\ \A c \in Counters : c \in DOMAIN based /\ ReadingMet(based[c], read[c])
    /\ Window # None
    /\ live.observed_at - baseline.observed_at >= Window

\* Condition 4: the declared routes resolve as declared, and the canary arrived.
DeliveryMet(live) ==
    LET observed == Keyed(live.routes, "identifier")
    IN  /\ \A r \in DOMAIN Routes :
            r \in DOMAIN observed /\ observed[r].receiver = Routes[r]
        /\ live.canary.fired /\ live.canary.receiver \in Receivers
        /\ live.canary.delivered /\ live.canary.evidence # None
        /\ live.canary.recovered

-----------------------------------------------------------------------------
FamiliesOf(s) == IF s.family = "dual_stack" THEN {"ipv4", "ipv6"} ELSE {s.family}

\* The chain a packet of this family to this surface traverses.
ChainFor(s, family) ==
    IF s.kind = "container_published" /\ family = "ipv4" THEN "DOCKER-USER" ELSE "INPUT"

ExpectationFor(s) == IF s.exposure = "public" THEN "reachable" ELSE "refused"

DeclaredSlots == UNION {{<<s.name, family>> : family \in FamiliesOf(s)} : s \in Surfaces}

\* Condition 5, of one probe.
ProbeMet(s, family, probe) ==
    /\ probe.chain = ChainFor(s, family)
    /\ probe.expectation = ExpectationFor(s)
    /\ probe.control = "reachable" /\ probe.evidence # None
    /\ probe.outcome = probe.expectation

\* Condition 5: both families of every declared surface and nothing else.
ProbesMet(live) ==
    LET seen == Keyed(live.probes, "slot")
    IN  /\ DOMAIN seen = DeclaredSlots
        /\ \A s \in Surfaces : \A family \in FamiliesOf(s) :
            ProbeMet(s, family, seen[<<s.name, family>>])

Repaired(baseline, live) ==
    /\ TreeMet(live) /\ TargetsMet(live) /\ RulesMet(live)
    /\ IntegrityMet(baseline, live) /\ DeliveryMet(live) /\ ProbesMet(live)

=============================================================================
