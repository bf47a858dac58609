------------------------------ MODULE LiveHost ------------------------------
(***************************************************************************)
(* A production host while the promotion facility reads it back: its        *)
(* evaluator process counts the samples it rejects and may restart, the     *)
(* rest of it may be in any state each time somebody looks, and a pass goes *)
(* wrong in one of the ways live_verify.py was written against.  Host and   *)
(* facility are external; what is judged is verify()'s verdict.             *)
(*                                                                         *)
(* A counter and its process start time are read in the same read; two      *)
(* counters are not.                                                        *)
(***************************************************************************)
EXTENDS LiveVerify, SequencesExt

CONSTANTS Worlds,      \* what the host may be like: [previous, tree, targets, rules, routes,
                       \* pages, guard]
          AsRendered,  \* what a host is like that is exactly as declared
          Mishaps,     \* what may go wrong in a read-back
          MaxNow,      \* bound: instants
          MaxRejected  \* bound: rejected samples

ASSUME HostAssumption ==
    /\ AsRendered \in Worlds
    /\ MaxNow \in Nat /\ MaxRejected \in Nat
    /\ Subject # "rehearsal"
    /\ IsFiniteSet(Surfaces)

\* The rows of a section have the columns the schema gives them, and a host has
\* one file to a path.
ASSUME WorldAssumption ==
    \A w \in Worlds :
        /\ \A rows \in {w.tree, w.targets, w.rules, w.routes} : rows \in Seq(ToSet(rows))
        /\ \A row \in ToSet(w.tree) : row = [path |-> row.path, sha256 |-> row.sha256]
        /\ \A i, j \in DOMAIN w.tree : w.tree[i].path = w.tree[j].path => i = j
        /\ \A row \in ToSet(w.routes) :
               row = [identifier |-> row.identifier, receiver |-> row.receiver]

VARIABLES now,       \* the clock
          started,   \* when the evaluator process started
          count,     \* its counters
          rejected,  \* history: the samples rejected since the beginning
          pass,      \* the document the facility is putting together, or None
          baseline,  \* the document recorded before the promotion, or None
          latest     \* the read-back of the promoted host, or None

vars == <<now, started, count, rejected, pass, baseline, latest>>

\* A rule for the slot exists in one chain, and drops or accepts what gets there.
Open(w, s, family) ==
    ~(/\ w.guard[<<s.name, family>>].chain = ChainFor(s, family)
      /\ w.guard[<<s.name, family>>].action = "drop")

Init ==
    /\ now = 0 /\ started = 0
    /\ count = [c \in Counters |-> 1]
    /\ rejected = count
    /\ pass = None /\ baseline = None /\ latest = None

-----------------------------------------------------------------------------
(* The host, until the read-back that is judged. *)

Unjudged == latest = None

Tick ==
    /\ Unjudged
    /\ now < MaxNow
    /\ now' = now + 1
    /\ UNCHANGED <<started, count, rejected, pass, baseline, latest>>

\* What the bound counts: every sample rejected, by whichever counter.
Rejections == FoldFunction(+, 0, rejected)

Reject(c) ==
    /\ Unjudged
    /\ Rejections < MaxRejected
    /\ count' = [count EXCEPT ![c] = @ + 1]
    /\ rejected' = [rejected EXCEPT ![c] = @ + 1]
    /\ UNCHANGED <<now, started, pass, baseline, latest>>

\* Mutant: a process start time ahead of the clock the documents are stamped by.
RestartAhead ==
    /\ Unjudged
    /\ started < now
    /\ started' = now + 1
    /\ count' = [c \in Counters |-> 0]
    /\ UNCHANGED <<now, rejected, pass, baseline, latest>>

\* A new process starts its counters at zero, later than the one before it.
Restart ==
    /\ Unjudged
    /\ started < now
    /\ started' = now
    /\ count' = [c \in Counters |-> 0]
    /\ UNCHANGED <<now, rejected, pass, baseline, latest>>

-----------------------------------------------------------------------------
(* The facility's passes. *)

\* From the network a surface may be probed from.  A prober that is dead on a
\* family finds everything refused there, its own positive control included.
Probe(mishap, w, s, family) ==
    LET dead == mishap = "dead-on-ipv6" /\ family = "ipv6"
        outcome == IF dead \/ ~Open(w, s, family) THEN "refused" ELSE "reachable"
    IN  [slot |-> <<s.name, family>>,
         chain |-> w.guard[<<s.name, family>>].chain,
         expectation |-> IF mishap = "expects-what-it-sees" THEN outcome
                         ELSE ExpectationFor(s),
         outcome |-> outcome,
         control |-> IF dead THEN "refused" ELSE "reachable",
         evidence |-> IF dead THEN None ELSE "ref"]

\* The probes of a pass, in some order.
Probes(mishap, w) ==
    SetToSeq({Probe(mishap, w, slot[1], slot[2]) :
        slot \in {sf \in Surfaces \X {"ipv4", "ipv6"} :
                    sf[2] \in FamiliesOf(sf[1]) /\ (mishap = "ipv4-only" => sf[2] = "ipv4")}})

Canary(mishap, w) ==
    [fired |-> TRUE, recovered |-> TRUE, receiver |-> CHOOSE r \in Receivers : TRUE,
     delivered |-> w.pages \/ mishap = "claims-delivery",
     evidence |-> IF w.pages THEN "ref" ELSE None]

Unless(mishap, what, rows) == IF mishap = what THEN <<>> ELSE rows

Begin(subject) ==
    /\ Unjudged
    /\ pass = None
    /\ pass' = [observed_at |-> now, subject |-> subject, integrity |-> <<>>]
    /\ UNCHANGED <<now, started, count, rejected, baseline, latest>>

\* `was` is history: it is no part of the document.
Read(c) ==
    /\ pass # None
    /\ \A i \in DOMAIN pass.integrity : pass.integrity[i].counter # c
    /\ pass' = [pass EXCEPT !.integrity = Append(@,
            IF pass.subject = Subject
            THEN [counter |-> c, value |-> count[c], process_start_time |-> started,
                  was |-> rejected[c]]
            ELSE [counter |-> c, value |-> 1, process_start_time |-> -1, was |-> 0])]
    /\ UNCHANGED <<now, started, count, rejected, baseline, latest>>

\* The pass was for a baseline: verify() looks at nothing else in it.
Record ==
    /\ pass # None /\ pass.integrity # <<>>
    /\ baseline' = pass
    /\ pass' = None
    /\ UNCHANGED <<now, started, count, rejected, latest>>

\* The pass was the read-back, made while the production host is like w.  (A
\* facility handed several counters may file a document that has some of them.
\* A rehearsal host was built from the same inputs: it is as rendered, whatever
\* the production host is like, and holds its first release.)
Finish(mishap, w) ==
    LET seen == IF pass.subject = Subject THEN w ELSE AsRendered
    IN  /\ pass # None /\ pass.integrity # <<>>
        /\ latest' = [observed_at |-> pass.observed_at, subject |-> pass.subject,
                      previous |-> IF pass.subject = Subject THEN w.previous ELSE None,
                      integrity |-> pass.integrity,
                      tree |-> Unless(mishap, "no-tree", seen.tree),
                      targets |-> Unless(mishap, "no-targets", seen.targets),
                      rules |-> Unless(mishap, "no-rules", seen.rules),
                      routes |-> Unless(mishap, "no-routes", seen.routes),
                      probes |-> Probes(mishap, seen),
                      canary |-> Canary(mishap, seen),
                      was |-> w]
        /\ pass' = None
        /\ UNCHANGED <<now, started, count, rejected, baseline>>

Next ==
    \/ Tick \/ Restart \/ Record
    \/ \E c \in Counters : Reject(c) \/ Read(c)
    \/ \E subject \in {Subject, "rehearsal"} : Begin(subject)
    \/ \E mishap \in Mishaps, w \in Worlds : Finish(mishap, w)

Spec == Init /\ [][Next]_vars

-----------------------------------------------------------------------------
(* Properties. *)

Reading == [counter : Counters, value : Nat, process_start_time : Int, was : Nat]
Pass == [observed_at : 0..now, subject : {Subject, "rehearsal"}, integrity : Seq(Reading)]

TypeOK ==
    /\ now \in 0..MaxNow
    /\ started \in 0..now
    /\ count \in [Counters -> Nat]
    /\ rejected \in [Counters -> Nat]
    /\ \A c \in Counters : count[c] <= rejected[c]
    /\ pass \in {None} \cup Pass
    /\ baseline \in {None} \cup Pass
    /\ latest # None => latest.observed_at \in 0..now /\ latest.integrity \in Seq(Reading)

\* When condition 3 is met no sample was rejected between the two reads of any
\* declared counter, whatever the process did in between and whichever documents
\* are handed in: a reset cannot pass, nor a reset that climbed back.
NoHiddenRejection ==
    latest # None /\ IntegrityMet(baseline, latest) =>
        LET read == Keyed(latest.integrity, "counter")
            based == Keyed(baseline.integrity, "counter")
        IN  \A c \in Counters : read[c].was = based[c].was

\* A promotion is judged repaired only by a document of the production host, and
\* only when that host was as declared while it was read: its tree, its targets job
\* by job and number by number, a loaded rule that evaluates for every declared
\* gate, its routes, its receiver and its surfaces.  No inert rule, dead prober,
\* family left out, typed expectation, empty section, unproven delivery or document
\* of a rehearsal host (nor a pair of them, as baseline and read-back) passes.
RepairedIsRepaired ==
    latest # None /\ Repaired(baseline, latest) =>
        LET was == latest.was
        IN  /\ latest.subject = Subject
            /\ {was.tree[i] : i \in DOMAIN was.tree} =
                   {[path |-> p, sha256 |-> Tree[p]] : p \in DOMAIN Tree}
            /\ \A i \in DOMAIN was.targets :
                   was.targets[i].job \in DOMAIN Expected /\ was.targets[i].health = "up"
            /\ \A job \in DOMAIN Expected :
                   Cardinality({i \in DOMAIN was.targets : was.targets[i].job = job})
                       = Expected[job]
            /\ \A a \in Alerts : \E i \in DOMAIN was.rules :
                   was.rules[i].name = a /\ was.rules[i].health = "ok"
            /\ \A r \in DOMAIN Routes : \E i \in DOMAIN was.routes :
                   was.routes[i] = [identifier |-> r, receiver |-> Routes[r]]
            /\ was.pages
            /\ \A s \in Surfaces : \A family \in FamiliesOf(s) :
                   Open(was, s, family) <=> s.exposure = "public"

-----------------------------------------------------------------------------
(* What the code says of itself, and does not do. *)

\* live_verify.py, _rule_findings: "this counts rules that EXIST and evaluate
\* cleanly, and reports the ones the desired state declares and the evaluator
\* did not load".
DeclaredRulesEvaluate ==
    latest # None /\ RulesMet(latest) =>
        \A i \in DOMAIN latest.rules :
            LET rule == latest.rules[i]
            IN  rule.group = "control-plane-meta" /\ rule.name \in Alerts =>
                    rule.health = "ok"
=============================================================================
