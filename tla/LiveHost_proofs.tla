--------------------------- MODULE LiveHost_proofs ---------------------------
(***************************************************************************)
(* Condition 3 cannot be met by hiding a rejection, for any counters, any   *)
(* window, any number of passes, restarts and rejected samples; and what    *)
(* the verdict and the receipt say of a host is true of it, for any hosts   *)
(* and any of the ways a read-back goes wrong.                              *)
(*                                                                         *)
(* The argument: a reading carries the value and the start time of one and  *)
(* the same read, so among readings of one process lifetime the value moves *)
(* exactly as the number of rejected samples does; and a process that       *)
(* started later has another start time.  What is judged is what some pass  *)
(* made of some host, section by section.                                   *)
(***************************************************************************)
EXTENDS LiveReceipt, Counting, TLAPS, SequenceTheorems, FiniteSetTheorems

Rows(d) == IF d = None THEN {} ELSE {d.integrity[i] : i \in DOMAIN d.integrity}

Readings == Rows(pass) \cup Rows(baseline) \cup Rows(latest)

Now(c) == [counter |-> c, value |-> count[c], process_start_time |-> started,
           was |-> rejected[c]]

Agree(a, b) ==
    a.counter = b.counter /\ a.process_start_time = b.process_start_time =>
        a.value - a.was = b.value - b.was

\* Readings of one process agree with each other and with its counters.
Consistent ==
    /\ \A a \in Readings : /\ a \in Reading
                           /\ a.process_start_time <= started
                           /\ a.process_start_time = -1 => a.value = 1 /\ a.was = 0
                           /\ a.counter \in Counters => Agree(a, Now(a.counter))
    /\ \A a, b \in Readings : Agree(a, b)

HostInv == TypeOK /\ Consistent

-----------------------------------------------------------------------------
\* The dictionary of a section maps a key to a row with that key.
LEMMA KeyedRow ==
    ASSUME NEW R, NEW rows \in Seq(R), NEW field, NEW k \in DOMAIN Keyed(rows, field)
    PROVE  \E i \in DOMAIN rows : Keyed(rows, field)[k] = rows[i] /\ rows[i][field] = k
  <1> DEFINE S == {i \in DOMAIN rows : rows[i][field] = k}
  <1>1. Len(rows) \in Nat /\ DOMAIN rows = 1..Len(rows)
    BY LenProperties
  <1>2. k \in {rows[i][field] : i \in DOMAIN rows}
    BY DEF Keyed
  <1>3. S \subseteq 1..Len(rows) /\ S # {}
    BY <1>1, <1>2
  <1>4. \E i \in S : \A j \in S : j <= i
    <2> HIDE DEF S
    <2> QED  BY <1>1, <1>3, GreatestOf
  <1>5. \E i \in DOMAIN rows : /\ rows[i][field] = k
                               /\ \A j \in DOMAIN rows : rows[j][field] = k => j <= i
    BY <1>4
  <1>6. Keyed(rows, field)[k] =
            rows[CHOOSE i \in DOMAIN rows :
                    /\ rows[i][field] = k
                    /\ \A j \in DOMAIN rows : rows[j][field] = k => j <= i]
    BY <1>2 DEF Keyed
  <1> QED  BY <1>5, <1>6

-----------------------------------------------------------------------------
LEMMA InitInv == Init => HostInv
  <1> SUFFICES ASSUME Init PROVE HostInv
    OBVIOUS
  <1>1. TypeOK
    BY HostAssumption DEF Init, TypeOK
  <1>2. Readings = {}
    BY DEF Init, Readings, Rows
  <1> QED  BY <1>1, <1>2 DEF HostInv, Consistent

\* What a step that leaves the documents alone has to show.
LEMMA SameDocuments ==
    ASSUME Consistent, UNCHANGED <<pass, baseline, latest>>
    PROVE  Readings' = Readings
  BY DEF Readings, Rows

LEMMA TickInv ==
    ASSUME HostInv, Tick
    PROVE  HostInv'
  <1>1. TypeOK'
    <2>1. 0..now \subseteq 0..now'
      BY DEF HostInv, TypeOK, Tick
    <2>2. Pass \subseteq Pass'
      BY <2>1 DEF Pass
    <2> QED  BY <2>1, <2>2, HostAssumption DEF HostInv, TypeOK, Tick
  <1>2. Readings' = Readings
    BY SameDocuments DEF HostInv, Tick
  <1>3. \A c \in Counters : Now(c)' = Now(c)
    BY DEF Tick, Now
  <1> QED  BY <1>1, <1>2, <1>3 DEF HostInv, Consistent, Tick, Agree, Reading

LEMMA RejectInv ==
    ASSUME HostInv, NEW c \in Counters, Reject(c)
    PROVE  HostInv'
  <1>1. TypeOK'
    BY DEF HostInv, TypeOK, Reject, Pass
  <1>2. Readings' = Readings
    BY SameDocuments DEF HostInv, Reject
  <1>3. ASSUME NEW a \in Readings, a.counter \in Counters
        PROVE  Agree(a, Now(a.counter)')
    <2>1. a \in Reading /\ Agree(a, Now(a.counter))
      BY <1>3 DEF HostInv, Consistent
    <2>2. /\ Now(a.counter).value \in Nat /\ Now(a.counter).was \in Nat
          /\ Now(a.counter)'.value - Now(a.counter)'.was
                = Now(a.counter).value - Now(a.counter).was
      BY <1>3 DEF Now, Reject, HostInv, TypeOK
    <2> QED  BY <2>1, <2>2 DEF Agree, Now, Reject
  <1>4. started' = started
    BY DEF Reject
  <1> QED  BY <1>1, <1>2, <1>3, <1>4 DEF HostInv, Consistent, Agree, Now

\* The new process started later than any process that was ever read.
LEMMA RestartInv ==
    ASSUME HostInv, Restart
    PROVE  HostInv'
  <1>1. TypeOK'
    BY HostAssumption DEF HostInv, TypeOK, Restart, Pass
  <1>2. Readings' = Readings
    BY SameDocuments DEF HostInv, Restart
  <1>3. \A a \in Readings : a.process_start_time < started'
    BY HostAssumption DEF HostInv, Consistent, TypeOK, Restart, Reading
  <1>4. \A a \in Readings : a.counter \in Counters => Agree(a, Now(a.counter)')
    BY <1>3 DEF Agree, Now, HostInv, Consistent, Reading
  <1>5. \A a \in Readings : a.process_start_time <= started'
    BY HostAssumption DEF HostInv, Consistent, TypeOK, Restart, Reading
  <1> QED  BY <1>1, <1>2, <1>4, <1>5 DEF HostInv, Consistent, Agree, Now

LEMMA BeginInv ==
    ASSUME HostInv, NEW subject \in {Subject, "rehearsal"}, Begin(subject)
    PROVE  HostInv'
  <1>1. pass' \in Pass
    BY DEF Begin, Pass, HostInv, TypeOK
  <1>2. TypeOK'
    BY <1>1 DEF HostInv, TypeOK, Begin, Pass
  <1>3. Readings' \subseteq Readings
    BY DEF Readings, Rows, Begin
  <1> QED  BY <1>2, <1>3 DEF HostInv, Consistent, Agree, Now, Begin

\* A reading of the production host is what the counter shows now; one of a
\* rehearsal host carries a start time no production process has.
LEMMA ReadInv ==
    ASSUME HostInv, NEW c \in Counters, Read(c)
    PROVE  HostInv'
  <1> DEFINE new == IF pass.subject = Subject THEN Now(c)
                    ELSE [counter |-> c, value |-> 1, process_start_time |-> -1, was |-> 0]
  <1>1. /\ pass \in Pass /\ pass # None
        /\ pass' = [pass EXCEPT !.integrity = Append(@, new)]
    BY DEF Read, HostInv, TypeOK, Now
  <1>2. new \in Reading
    <2>1. count[c] \in Nat /\ rejected[c] \in Nat /\ started \in Int
      BY HostAssumption DEF HostInv, TypeOK
    <2> QED  BY <2>1 DEF Reading, Now
  <1>3. /\ pass' \in Pass
        /\ pass'.integrity = Append(pass.integrity, new)
    <2> HIDE DEF new
    <2>1. Append(pass.integrity, new) \in Seq(Reading)
      BY <1>1, <1>2, AppendProperties DEF Pass
    <2>2. pass' = [pass EXCEPT !.integrity = Append(pass.integrity, new)]
      BY <1>1
    <2>3. pass \in Pass
      BY <1>1
    <2> QED  BY <2>1, <2>2, <2>3 DEF Pass
  <1>4. TypeOK'
    BY <1>3 DEF HostInv, TypeOK, Read, Pass
  <1>5. Rows(pass)' \subseteq Rows(pass) \cup {new}
    <2>1. pass.integrity \in Seq(Reading)
      BY <1>1 DEF Pass
    <2>2. \A i \in DOMAIN Append(pass.integrity, new) :
            \/ i \in DOMAIN pass.integrity /\ Append(pass.integrity, new)[i] = pass.integrity[i]
            \/ Append(pass.integrity, new)[i] = new
      BY <1>2, <2>1, AppendProperties, LenProperties
    <2> HIDE DEF new
    <2> QED  BY <1>1, <1>3, <2>2 DEF Rows
  <1>6. Readings' \subseteq Readings \cup {new}
    BY <1>5 DEF Readings, Rows, Read
  <1>7. \A k \in Counters : Now(k)' = Now(k)
    BY DEF Read, Now
  <1>8. /\ new.process_start_time <= started
        /\ new.process_start_time = -1 => new.value = 1 /\ new.was = 0
        /\ new.counter \in Counters /\ Agree(new, Now(new.counter))
        /\ Agree(new, new)
    BY HostAssumption DEF HostInv, TypeOK, Now, Agree
  <1>9. ASSUME NEW a \in Readings
        PROVE  Agree(a, new) /\ Agree(new, a)
    <2>1. /\ a \in Reading
          /\ a.process_start_time = -1 => a.value = 1 /\ a.was = 0
          /\ a.counter \in Counters => Agree(a, Now(a.counter))
      BY DEF HostInv, Consistent
    <2>2. CASE pass.subject = Subject
      BY <2>1, <2>2 DEF Agree, Now
    <2>3. CASE pass.subject # Subject
      BY <2>1, <2>3 DEF Agree
    <2> QED  BY <2>2, <2>3
  <1>10. started' = started
    BY DEF Read
  <1>11. Consistent'
    <2> HIDE DEF new
    <2>1. ASSUME NEW a \in Readings'
          PROVE  /\ a \in Reading
                 /\ a.process_start_time <= started'
                 /\ a.process_start_time = -1 => a.value = 1 /\ a.was = 0
                 /\ a.counter \in Counters => Agree(a, Now(a.counter)')
      BY <1>2, <1>6, <1>7, <1>8, <1>10 DEF HostInv, Consistent
    <2>2. ASSUME NEW a \in Readings', NEW b \in Readings'
          PROVE  Agree(a, b)
      BY <1>6, <1>8, <1>9 DEF HostInv, Consistent
    <2> QED  BY <2>1, <2>2 DEF Consistent, Agree, Now, Reading
  <1> QED  BY <1>4, <1>11 DEF HostInv

LEMMA RecordInv ==
    ASSUME HostInv, Record
    PROVE  HostInv'
  <1>1. TypeOK'
    BY DEF HostInv, TypeOK, Record, Pass
  <1>2. Readings' \subseteq Readings
    BY DEF Readings, Rows, Record
  <1> QED  BY <1>1, <1>2 DEF HostInv, Consistent, Agree, Now, Record

LEMMA FinishInv ==
    ASSUME HostInv, NEW mishap \in Mishaps, NEW w \in Worlds, Finish(mishap, w)
    PROVE  HostInv'
  <1>1. /\ latest'.integrity = pass.integrity
        /\ latest'.observed_at = pass.observed_at
    BY DEF Finish
  <1>2. pass \in Pass /\ pass # None
    BY DEF Finish, HostInv, TypeOK
  <1>3. TypeOK'
    BY <1>1, <1>2 DEF HostInv, TypeOK, Finish, Pass
  <1>4. Readings' \subseteq Readings
    BY <1>1, <1>2 DEF Readings, Rows, Finish
  <1>5. UNCHANGED <<now, started, count, rejected>>
    BY DEF Finish
  <1> QED  BY <1>3, <1>4, <1>5 DEF HostInv, Consistent, Agree, Now

\* The clocks, counters and documents of the host stay consistent: an evaluator's
\* readings tell how many samples it rejected between them.
THEOREM HostInvariance == Spec => []HostInv
  <1>1. Init => HostInv
    BY InitInv
  <1>2. HostInv /\ [Next]_vars => HostInv'
    <2> SUFFICES ASSUME HostInv, [Next]_vars PROVE HostInv'
      OBVIOUS
    <2>1. CASE Next
      BY <2>1, TickInv, RejectInv, RestartInv, BeginInv, ReadInv, RecordInv, FinishInv DEF Next
    <2>2. CASE UNCHANGED vars
      BY <2>2 DEF vars, HostInv, TypeOK, Pass, Consistent, Readings, Rows, Agree, Now
    <2> QED  BY <2>1, <2>2
  <1> QED  BY <1>1, <1>2, PTL DEF Spec

\* Type correctness: the counters of a process never exceed what was rejected,
\* and no process or document is dated after the present.
THEOREM HostTypes == Spec => []TypeOK
  <1>1. HostInv => TypeOK
    BY DEF HostInv
  <1> QED  BY <1>1, HostInvariance, PTL

\* Condition 3 is met only when no sample of any declared counter was rejected
\* between its two readings: _counter_findings and the set comparison before it
\* leave a restart, a reset and a partial read-back no way to pass.
THEOREM MetMeansNoneRejected == Spec => []NoHiddenRejection
  <1>1. HostInv => NoHiddenRejection
    <2> SUFFICES ASSUME HostInv, latest # None, IntegrityMet(baseline, latest),
                        NEW c \in Counters
                 PROVE  Keyed(latest.integrity, "counter")[c].was
                            = Keyed(baseline.integrity, "counter")[c].was
      BY DEF NoHiddenRejection
    <2> DEFINE after == Keyed(latest.integrity, "counter")[c]
               before == Keyed(baseline.integrity, "counter")[c]
    <2>1. latest.integrity \in Seq(Reading) /\ baseline.integrity \in Seq(Reading)
      BY DEF HostInv, TypeOK, Pass, IntegrityMet
    <2>2. /\ c \in DOMAIN Keyed(latest.integrity, "counter")
          /\ c \in DOMAIN Keyed(baseline.integrity, "counter")
          /\ ReadingMet(before, after)
      BY DEF IntegrityMet
    <2>3. PICK i \in DOMAIN latest.integrity :
            after = latest.integrity[i] /\ latest.integrity[i].counter = c
      BY <2>1, <2>2, KeyedRow
    <2>4. PICK j \in DOMAIN baseline.integrity :
            before = baseline.integrity[j] /\ baseline.integrity[j].counter = c
      BY <2>1, <2>2, KeyedRow
    <2> HIDE DEF after, before
    <2>5. after \in Readings /\ before \in Readings
      BY <2>3, <2>4 DEF Readings, Rows, IntegrityMet
    <2>6. after \in Reading /\ before \in Reading /\ Agree(after, before)
      BY <2>5 DEF HostInv, Consistent
    <2>7. after.was = before.was
      BY <2>2, <2>3, <2>4, <2>6 DEF ReadingMet, Agree, Reading
    <2> QED  BY <2>7 DEF after, before
  <1> QED  BY <1>1, HostInvariance, PTL

-----------------------------------------------------------------------------
(* The read-back of a host that is like w. *)

ReadBack(mishap, w) ==
    /\ latest.tree = Unless(mishap, "no-tree", w.tree)
    /\ latest.targets = Unless(mishap, "no-targets", w.targets)
    /\ latest.rules = Unless(mishap, "no-rules", w.rules)
    /\ latest.routes = Unless(mishap, "no-routes", w.routes)
    /\ latest.probes = Probes(mishap, w)
    /\ latest.canary = Canary(mishap, w)

\* What is judged is what some pass made of some host, which is the production host
\* as it was then if the document is of that.
Filed ==
    latest # None =>
        \E mishap \in Mishaps, w \in Worlds :
            ReadBack(mishap, w) /\ (latest.subject = Subject => latest.was = w)

THEOREM FiledInvariance == Spec => []Filed
  <1>1. Init => Filed
    BY DEF Init, Filed
  <1>2. Filed /\ [Next]_vars => Filed'
    <2> SUFFICES ASSUME Filed, [Next]_vars PROVE Filed'
      OBVIOUS
    <2>1. CASE UNCHANGED latest
      BY <2>1 DEF Filed, ReadBack
    <2>2. ASSUME NEW mishap \in Mishaps, NEW w \in Worlds, Finish(mishap, w)
          PROVE  Filed'
      <3>1. PICK seen \in Worlds : seen = IF pass.subject = Subject THEN w ELSE AsRendered
        BY HostAssumption
      <3>2. ReadBack(mishap, seen)'
        BY <2>2, <3>1 DEF Finish, ReadBack
      <3>3. latest'.subject = Subject => latest'.was = seen
        BY <2>2, <3>1 DEF Finish
      <3> QED  BY <3>2, <3>3 DEF Filed
    <2>3. CASE Next
      BY <2>1, <2>2, <2>3 DEF Next, Tick, Restart, Record, Reject, Read, Begin
    <2> QED  BY <2>1, <2>3 DEF vars
  <1> QED  BY <1>1, <1>2, PTL DEF Spec

\* Every row of a finite set is somewhere in the sequence made of it, and nothing else.
LEMMA SetToSeqRange ==
    ASSUME NEW S, IsFiniteSet(S)
    PROVE  SetToSeq(S) \in Seq(S)
  <1>1. PICK n \in Nat : ExistsBijection(1..n, S)
    BY FS_NatBijection
  <1>2. Cardinality(S) \in Nat /\ ExistsBijection(1..Cardinality(S), S)
    BY <1>1, FS_CountingElements
  <1>3. \E f \in [1..Cardinality(S) -> S] : IsInjective(f)
    BY <1>2 DEF ExistsBijection, Bijection, Injection, IsInjective
  <1>4. SetToSeq(S) \in [1..Cardinality(S) -> S]
    BY <1>3 DEF SetToSeq
  <1> QED  BY <1>2, <1>4

\* A slot that was seen was probed, as the host answers there.
LEMMA SeenSlot ==
    ASSUME NEW mishap, NEW w, NEW slot \in DOMAIN Keyed(Probes(mishap, w), "slot")
    PROVE  \E s \in Surfaces : \E family \in FamiliesOf(s) :
              /\ slot = <<s.name, family>>
              /\ Keyed(Probes(mishap, w), "slot")[slot] = Probe(mishap, w, s, family)
  <1> DEFINE asked == {sf \in Surfaces \X {"ipv4", "ipv6"} :
                    sf[2] \in FamiliesOf(sf[1]) /\ (mishap = "ipv4-only" => sf[2] = "ipv4")}
             answered == {Probe(mishap, w, sf[1], sf[2]) : sf \in asked}
  <1>1. IsFiniteSet(asked)
    <2>1. IsFiniteSet({"ipv4", "ipv6"})
      <3>1. IsFiniteSet({} \cup {"ipv4"})
        BY FS_EmptySet, FS_AddElement
      <3>2. IsFiniteSet(({} \cup {"ipv4"}) \cup {"ipv6"})
        BY <3>1, FS_AddElement
      <3>3. {"ipv4", "ipv6"} = ({} \cup {"ipv4"}) \cup {"ipv6"}
        OBVIOUS
      <3> QED  BY <3>2, <3>3
    <2>2. IsFiniteSet(Surfaces \X {"ipv4", "ipv6"})
      BY <2>1, FS_Product, HostAssumption
    <2> QED  BY <2>2, FS_Subset
  <1>2. IsFiniteSet(answered)
    <2> DEFINE f == [sf \in asked |-> Probe(mishap, w, sf[1], sf[2])]
    <2>1. f \in Surjection(asked, answered)
      BY DEF Surjection
    <2> HIDE DEF asked, answered, f
    <2> QED  BY <1>1, <2>1, FS_Surjection DEF ExistsSurjection
  <1>3. Probes(mishap, w) = SetToSeq(answered)
    BY DEF Probes
  <1>4. Probes(mishap, w) \in Seq(answered)
    <2> HIDE DEF answered
    <2> QED  BY <1>2, <1>3, SetToSeqRange
  <1>5. PICK i \in DOMAIN Probes(mishap, w) :
            /\ Keyed(Probes(mishap, w), "slot")[slot] = Probes(mishap, w)[i]
            /\ Probes(mishap, w)[i].slot = slot
    <2> HIDE DEF answered
    <2> QED  BY <1>4, KeyedRow
  <1>6. Probes(mishap, w)[i] \in answered
    <2> HIDE DEF answered
    <2> QED  BY <1>4
  <1>7. PICK sf \in asked : Probes(mishap, w)[i] = Probe(mishap, w, sf[1], sf[2])
    BY <1>6
  <1>8. sf[1] \in Surfaces /\ sf[2] \in FamiliesOf(sf[1])
    OBVIOUS
  <1>9. slot = <<sf[1].name, sf[2]>>
    BY <1>5, <1>7 DEF Probe
  <1> QED  BY <1>5, <1>7, <1>8, <1>9

\* A probe that meets condition 5 tells how the surface was guarded: its prober
\* was alive, and what it expected it did not take from what it saw.
LEMMA MetProbe ==
    ASSUME NEW mishap, NEW w, NEW s \in Surfaces, NEW family,
           ProbeMet(s, family, Probe(mishap, w, s, family))
    PROVE  Open(w, s, family) <=> s.exposure = "public"
  <1> DEFINE probe == Probe(mishap, w, s, family)
             dead == mishap = "dead-on-ipv6" /\ family = "ipv6"
  <1>1. /\ probe.control = "reachable"
        /\ probe.outcome = probe.expectation
        /\ probe.expectation = ExpectationFor(s)
    BY DEF ProbeMet
  <1>2. ~dead
    BY <1>1 DEF Probe
  <1>3. probe.outcome = IF ~Open(w, s, family) THEN "refused" ELSE "reachable"
    BY <1>2 DEF Probe
  <1> QED  BY <1>1, <1>3 DEF ExpectationFor

\* Two surfaces of one name share a probe, which then meets both.
LEMMA MetSlot ==
    ASSUME NEW mishap, NEW w, NEW s \in Surfaces, NEW family \in FamiliesOf(s),
           DOMAIN Keyed(Probes(mishap, w), "slot") = DeclaredSlots,
           \A t \in Surfaces : \A g \in FamiliesOf(t) :
              ProbeMet(t, g, Keyed(Probes(mishap, w), "slot")[<<t.name, g>>])
    PROVE  Open(w, s, family) <=> s.exposure = "public"
  <1> DEFINE seen == Keyed(Probes(mishap, w), "slot")
  <1>1. <<s.name, family>> \in DOMAIN seen
    BY DEF DeclaredSlots
  <1>2. PICK t \in Surfaces : \E g \in FamiliesOf(t) :
            /\ <<s.name, family>> = <<t.name, g>>
            /\ seen[<<s.name, family>>] = Probe(mishap, w, t, g)
    BY <1>1, SeenSlot
  <1>3. /\ t.name = s.name /\ family \in FamiliesOf(t)
        /\ seen[<<s.name, family>>] = Probe(mishap, w, t, family)
    BY <1>2
  <1> HIDE DEF seen
  <1>4. /\ ProbeMet(s, family, Probe(mishap, w, t, family))
        /\ ProbeMet(t, family, Probe(mishap, w, t, family))
    BY <1>3 DEF seen
  <1>5. /\ ChainFor(s, family) = ChainFor(t, family)
        /\ ExpectationFor(s) = ExpectationFor(t)
    BY <1>4 DEF ProbeMet
  <1>6. Open(w, t, family) <=> t.exposure = "public"
    BY <1>4, MetProbe
  <1>7. Open(w, s, family) <=> Open(w, t, family)
    BY <1>3, <1>5 DEF Open
  <1> QED  BY <1>5, <1>6, <1>7 DEF ExpectationFor

\* The rows of a host are as the schema has them.
LEMMA RowsOfAWorld ==
    ASSUME NEW w \in Worlds
    PROVE  /\ w.tree \in Seq(ToSet(w.tree)) /\ w.rules \in Seq(ToSet(w.rules))
           /\ w.routes \in Seq(ToSet(w.routes)) /\ w.targets \in Seq(ToSet(w.targets))
           /\ \A i \in DOMAIN w.tree :
                 w.tree[i] = [path |-> w.tree[i].path, sha256 |-> w.tree[i].sha256]
           /\ \A i, j \in DOMAIN w.tree : w.tree[i].path = w.tree[j].path => i = j
           /\ \A i \in DOMAIN w.routes :
                 w.routes[i] = [identifier |-> w.routes[i].identifier,
                                receiver |-> w.routes[i].receiver]
  <1>1. \A rows \in {w.tree, w.targets, w.rules, w.routes} : rows \in Seq(ToSet(rows))
    BY WorldAssumption
  <1>2. \A row \in ToSet(w.tree) : row = [path |-> row.path, sha256 |-> row.sha256]
    BY WorldAssumption
  <1>3. \A i, j \in DOMAIN w.tree : w.tree[i].path = w.tree[j].path => i = j
    BY WorldAssumption
  <1>4. \A row \in ToSet(w.routes) :
            row = [identifier |-> row.identifier, receiver |-> row.receiver]
    BY WorldAssumption
  <1>5. /\ \A i \in DOMAIN w.tree : w.tree[i] \in ToSet(w.tree)
        /\ \A i \in DOMAIN w.routes : w.routes[i] \in ToSet(w.routes)
    BY DEF ToSet
  <1>6. /\ w.tree \in Seq(ToSet(w.tree)) /\ w.rules \in Seq(ToSet(w.rules))
        /\ w.routes \in Seq(ToSet(w.routes)) /\ w.targets \in Seq(ToSet(w.targets))
    BY <1>1
  <1>7. \A i \in DOMAIN w.tree :
            w.tree[i] = [path |-> w.tree[i].path, sha256 |-> w.tree[i].sha256]
    BY <1>2, <1>5
  <1>8. \A i \in DOMAIN w.routes :
            w.routes[i] = [identifier |-> w.routes[i].identifier,
                           receiver |-> w.routes[i].receiver]
    BY <1>4, <1>5
  <1> QED  BY <1>3, <1>6, <1>7, <1>8

\* The tree that is met is the one that was rendered, file by file.
LEMMA MetTree ==
    ASSUME NEW w \in Worlds, NEW live, live.tree = w.tree, TreeMet(live)
    PROVE  {w.tree[i] : i \in DOMAIN w.tree} = {[path |-> p, sha256 |-> Tree[p]] : p \in DOMAIN Tree}
  <1> DEFINE observed == Keyed(w.tree, "path")
  <1>1. /\ w.tree \in Seq(ToSet(w.tree))
        /\ \A i \in DOMAIN w.tree : w.tree[i] = [path |-> w.tree[i].path, sha256 |-> w.tree[i].sha256]
        /\ \A i, j \in DOMAIN w.tree : w.tree[i].path = w.tree[j].path => i = j
    BY RowsOfAWorld
  <1>2. /\ DOMAIN observed = DOMAIN Tree
        /\ \A p \in DOMAIN Tree : observed[p].sha256 = Tree[p]
    BY DEF TreeMet
  <1>3. \A p \in DOMAIN Tree : \E i \in DOMAIN w.tree :
            observed[p] = w.tree[i] /\ w.tree[i].path = p
    BY <1>1, <1>2, KeyedRow
  <1>4. \A i \in DOMAIN w.tree : w.tree[i].path \in DOMAIN observed
    BY DEF Keyed
  <1> HIDE DEF observed
  <1>5. ASSUME NEW i \in DOMAIN w.tree
        PROVE  \E p \in DOMAIN Tree : w.tree[i] = [path |-> p, sha256 |-> Tree[p]]
    <2>1. w.tree[i].path \in DOMAIN Tree
      BY <1>2, <1>4
    <2>2. observed[w.tree[i].path] = w.tree[i]
      BY <1>1, <1>3, <2>1
    <2> QED  BY <1>1, <1>2, <2>1, <2>2
  <1>6. ASSUME NEW p \in DOMAIN Tree
        PROVE  \E i \in DOMAIN w.tree : w.tree[i] = [path |-> p, sha256 |-> Tree[p]]
    <2>1. PICK i \in DOMAIN w.tree : observed[p] = w.tree[i] /\ w.tree[i].path = p
      BY <1>3
    <2>2. w.tree[i].sha256 = Tree[p]
      BY <1>2, <2>1
    <2>3. w.tree[i] = [path |-> w.tree[i].path, sha256 |-> w.tree[i].sha256]
      BY <1>1
    <2> QED  BY <2>1, <2>2, <2>3
  <1>7. {w.tree[i] : i \in DOMAIN w.tree}
            \subseteq {[path |-> p, sha256 |-> Tree[p]] : p \in DOMAIN Tree}
    BY <1>5
  <1>8. {[path |-> p, sha256 |-> Tree[p]] : p \in DOMAIN Tree}
            \subseteq {w.tree[i] : i \in DOMAIN w.tree}
    BY <1>6
  <1> QED  BY <1>7, <1>8

\* verify() calls repaired only a read-back of the production host, and only when that
\* host was as declared while it was read: each condition is over rows the host itself
\* gave, a section that was not read is refused, and so is a prober that would have
\* found anything closed.
THEOREM RepairedMeansAsDeclared == Spec => []RepairedIsRepaired
  <1>1. Filed => RepairedIsRepaired
    <2> SUFFICES ASSUME latest # None, Filed, Repaired(baseline, latest)
                 PROVE  RepairedIsRepaired
      BY DEF RepairedIsRepaired
    <2>0. PICK mishap \in Mishaps, w \in Worlds :
              ReadBack(mishap, w) /\ (latest.subject = Subject => latest.was = w)
      BY DEF Filed
    <2>1. /\ latest.subject = Subject /\ latest.was = w
          /\ latest.tree = w.tree
      BY <2>0 DEF Repaired, TreeMet, ReadBack, Unless
    <2>2. {w.tree[i] : i \in DOMAIN w.tree} = {[path |-> p, sha256 |-> Tree[p]] : p \in DOMAIN Tree}
      BY <2>1, MetTree DEF Repaired
    <2>3. latest.targets = w.targets
      BY <2>0 DEF Repaired, TargetsMet, ReadBack, Unless
    <2>4. /\ \A i \in DOMAIN w.targets :
                w.targets[i].job \in DOMAIN Expected /\ w.targets[i].health = "up"
          /\ \A job \in DOMAIN Expected :
                Cardinality({i \in DOMAIN w.targets : w.targets[i].job = job}) = Expected[job]
      <3>1. TargetsMet(latest)
        BY DEF Repaired
      <3>2. ASSUME NEW i \in DOMAIN latest.targets
            PROVE  latest.targets[i].job \in DOMAIN Expected /\ latest.targets[i].health = "up"
        <4>1. latest.targets[i].job \in DOMAIN Expected
          BY <3>1 DEF TargetsMet
        <4>2. \A k \in {k \in DOMAIN latest.targets :
                         latest.targets[k].job = latest.targets[i].job} :
                  latest.targets[k].health = "up"
          BY <3>1, <4>1 DEF TargetsMet
        <4> QED  BY <4>1, <4>2
      <3>3. \A job \in DOMAIN Expected :
                Cardinality({i \in DOMAIN latest.targets : latest.targets[i].job = job})
                    = Expected[job]
        BY <3>1 DEF TargetsMet
      <3> QED  BY <2>3, <3>2, <3>3
    <2>8. ASSUME NEW a \in Alerts
          PROVE  \E i \in DOMAIN w.rules : w.rules[i].name = a /\ w.rules[i].health = "ok"
      <3>1. /\ a \in DOMAIN Keyed(latest.rules, "name")
            /\ Keyed(latest.rules, "name")[a].health = "ok"
        BY DEF Repaired, RulesMet
      <3>2. latest.rules = w.rules
        <4>1. \E i \in DOMAIN latest.rules : latest.rules[i]["name"] = a
          BY <3>1 DEF Keyed
        <4>2. latest.rules # <<>>
          BY <4>1
        <4> QED  BY <2>0, <4>2 DEF ReadBack, Unless
      <3>3. PICK i \in DOMAIN w.rules :
                Keyed(w.rules, "name")[a] = w.rules[i] /\ w.rules[i]["name"] = a
        BY <3>1, <3>2, RowsOfAWorld, KeyedRow
      <3> QED  BY <3>1, <3>2, <3>3
    <2>5. ASSUME NEW r \in DOMAIN Routes
          PROVE  \E i \in DOMAIN w.routes :
                    w.routes[i] = [identifier |-> r, receiver |-> Routes[r]]
      <3>1. /\ r \in DOMAIN Keyed(latest.routes, "identifier")
            /\ Keyed(latest.routes, "identifier")[r].receiver = Routes[r]
        BY DEF Repaired, DeliveryMet
      <3>2. latest.routes = w.routes
        <4>1. \E i \in DOMAIN latest.routes : latest.routes[i]["identifier"] = r
          BY <3>1 DEF Keyed
        <4>2. latest.routes # <<>>
          BY <4>1
        <4> QED  BY <2>0, <4>2 DEF ReadBack, Unless
      <3>3. /\ w.routes \in Seq(ToSet(w.routes))
            /\ \A i \in DOMAIN w.routes :
                  w.routes[i] = [identifier |-> w.routes[i].identifier,
                                 receiver |-> w.routes[i].receiver]
        BY RowsOfAWorld
      <3>4. PICK i \in DOMAIN w.routes :
                /\ Keyed(w.routes, "identifier")[r] = w.routes[i]
                /\ w.routes[i].identifier = r
        BY <3>1, <3>2, <3>3, KeyedRow
      <3> QED  BY <3>1, <3>2, <3>3, <3>4
    <2>6. w.pages
      <3>1. Canary(mishap, w).evidence # None
        BY <2>0 DEF Repaired, DeliveryMet, ReadBack
      <3> QED  BY <3>1 DEF Canary
    <2>7. \A s \in Surfaces : \A family \in FamiliesOf(s) :
               Open(w, s, family) <=> s.exposure = "public"
      BY <2>0, MetSlot DEF Repaired, ProbesMet, ReadBack
    <2> QED  BY <2>1, <2>2, <2>4, <2>5, <2>6, <2>7, <2>8 DEF RepairedIsRepaired
  <1> QED  BY <1>1, FiledInvariance, PTL

-----------------------------------------------------------------------------
(* The counts of the receipt. *)

\* A rule that fails to evaluate is missing from one of the two counts.
LEMMA UnhealthyIsCounted ==
    ASSUME NEW n \in Nat, NEW rows, DOMAIN rows = 1..n,
           NEW i \in DOMAIN rows, rows[i].health # "ok"
    PROVE  Counted(rows, "ok") # n /\ n # 0
  <1> DEFINE healthy == {k \in DOMAIN rows : rows[k].health = "ok"}
  <1>1. IsFiniteSet(1..n) /\ Cardinality(1..n) = n
    BY FS_Interval
  <1>2. healthy \subseteq 1..n /\ i \in 1..n /\ i \notin healthy
    OBVIOUS
  <1>3. healthy \in SUBSET (1..n) /\ healthy # 1..n
    BY <1>2
  <1> HIDE DEF healthy
  <1>4. IsFiniteSet(healthy) /\ Cardinality(healthy) # n
    <2>1. Cardinality(1..n) = Cardinality(healthy) => 1..n = healthy
      BY <1>1, <1>3, FS_Subset
    <2> QED  BY <1>1, <1>3, <2>1, FS_Subset
  <1>5. Counted(rows, "ok") = Cardinality(healthy)
    BY DEF Counted, healthy
  <1>6. n # 0
    BY <1>2
  <1> QED  BY <1>4, <1>5, <1>6

\* A rule of a declared name that fails to evaluate, in whichever group it is, keeps
\* the receipt from passing its re-check, whatever the promotion brought and the
\* re-check was handed: _accepted_findings compares two counts of all the rules, and
\* not of the last one of each name.
THEOREM ReceiptsCoverEveryGate == Spec => []ReceiptCoversEveryGate
  <1>1. Filed => ReceiptCoversEveryGate
    <2> SUFFICES ASSUME latest # None, Filed,
                        NEW i \in DOMAIN latest.rules, latest.rules[i].health # "ok",
                        NEW filing \in Filings, NEW handed \in Handed
                 PROVE  Findings(filing, handed) # {}
      BY DEF ReceiptCoversEveryGate
    <2>1. PICK mishap \in Mishaps, w \in Worlds : ReadBack(mishap, w)
      BY DEF Filed
    <2>2. latest.rules = w.rules
      BY <2>1 DEF ReadBack, Unless
    <2>3. DOMAIN latest.rules = 1..Len(latest.rules) /\ Len(latest.rules) \in Nat
      BY <2>2, RowsOfAWorld, LenProperties
    <2>4. RulesHealthy(latest) # Len(latest.rules) /\ Len(latest.rules) # 0
      BY <2>3, UnhealthyIsCounted DEF RulesHealthy
    <2> DEFINE receipt == Receipt(latest, filing)
    <2>5. receipt.rules_loaded = Len(latest.rules) /\ receipt.rules_healthy = RulesHealthy(latest)
      BY DEF Receipt
    <2> HIDE DEF receipt
    <2>6. "UNHEALTHY-RULES" \in AcceptedFindings(receipt, handed)
      BY <2>4, <2>5 DEF AcceptedFindings
    <2>7. AcceptedFindings(receipt, handed) \subseteq Findings(filing, handed)
            \/ Findings(filing, handed) = {"SCHEMA"}
      BY DEF Findings, receipt
    <2> QED  BY <2>6, <2>7
  <1> QED  BY <1>1, FiledInvariance, PTL

LEMMA AllAreCounted ==
    ASSUME NEW n \in Nat, NEW rows, DOMAIN rows = 1..n, NEW health,
           \A i \in DOMAIN rows : rows[i].health = health
    PROVE  Counted(rows, health) = n
  <1>1. {i \in DOMAIN rows : rows[i].health = health} = 1..n
    OBVIOUS
  <1>2. Cardinality(1..n) = n
    BY FS_Interval
  <1> QED  BY <1>1, <1>2 DEF Counted

\* The counts the inventory declares are those of the rows, job by job, when condition
\* 2 is met and every job declares one.
LEMMA DeclaredIsRead ==
    ASSUME NEW read, NEW n \in Nat, n # 0, DOMAIN read.targets = 1..n, Len(read.targets) = n,
           TargetsMet(read), DOMAIN Declared = DOMAIN Expected
    PROVE  ExpectedTotal(read) = n
  <1> DEFINE R == 1..n
             D == DOMAIN Declared
             class == [i \in R |-> read.targets[i].job]
  <1>1. IsFiniteSet(R) /\ Cardinality(R) = n
    BY FS_Interval
  <1>2. \A i \in R : class[i] \in D
    BY DEF TargetsMet
  <1>3. \A job \in D : /\ {i \in R : class[i] = job} # {}
                       /\ Declared[job] = Cardinality({i \in R : class[i] = job})
    <2> SUFFICES ASSUME NEW job \in D
                 PROVE  /\ {i \in R : class[i] = job} # {}
                        /\ Declared[job] = Cardinality({i \in R : class[i] = job})
      OBVIOUS
    <2>1. {i \in R : class[i] = job} = {i \in DOMAIN read.targets : read.targets[i].job = job}
      OBVIOUS
    <2>2. Declared[job] = Expected[job]
      BY DeclaredAssumption
    <2> QED  BY <2>1, <2>2 DEF TargetsMet
  <1>4. IsFiniteSet(D)
    <2>1. class \in [R -> D] /\ \A job \in D : \E i \in R : class[i] = job
      BY <1>2, <1>3
    <2>2. class \in Surjection(R, D)
      BY <2>1 DEF Surjection
    <2> QED  BY <1>1, <2>2, FS_Surjection
  <1>5. Cardinality({i \in R : class[i] \in D}) = SumOver(Declared, D)
    <2> HIDE DEF R, D, class
    <2>1. D \in SUBSET D
      OBVIOUS
    <2> QED  BY SMTT(30), <1>1, <1>3, <1>4, <2>1, SumOfTheClasses
  <1>6. {i \in R : class[i] \in D} = R
    BY <1>2
  <1>7. FoldFunction(LAMBDA i, j : i + j, 0, Declared) = SumOver(Declared, D)
    BY FoldOfAdditionIsSum
  <1>8. SumOver(Declared, D) = n
    BY <1>1, <1>5, <1>6
  <1> HIDE DEF R, D, class
  <1> QED  BY Zenon, <1>7, <1>8 DEF ExpectedTotal

\* The counts of a receipt leave nothing to say, or only that a rule is unhealthy.
LEMMA OnlyTheFiling ==
    ASSUME NEW filing, NEW handed, WellFormed(filing), NEW receipt,
           receipt.filing = filing,
           receipt.targets_up = receipt.targets_expected,
           receipt.rules_loaded # 0, receipt.delivered
    PROVE  AcceptedFindings(receipt, handed) = {} <=>
               /\ \A name \in Checks : filing.validation[name]
               /\ receipt.rules_healthy = receipt.rules_loaded
               /\ filing.run # None
               /\ handed.verdict \in {None, "deployed_repaired"}
  <1>1. DOMAIN filing.validation = Checks
    BY DEF WellFormed
  <1>2. Differs(handed.verdict, "deployed_repaired") <=>
            handed.verdict \notin {None, "deployed_repaired"}
    BY DEF Differs
  <1>3. AcceptedFindings(receipt, handed) = {} <=>
            /\ "FAILED-CHECK" \notin AcceptedFindings(receipt, handed)
            /\ "UNHEALTHY-RULES" \notin AcceptedFindings(receipt, handed)
            /\ "UNPROVEN-RUN" \notin AcceptedFindings(receipt, handed)
            /\ "WITHOUT-VERDICT" \notin AcceptedFindings(receipt, handed)
    BY DEF AcceptedFindings
  <1>4. "FAILED-CHECK" \notin AcceptedFindings(receipt, handed) <=>
            \A name \in Checks : filing.validation[name]
    BY <1>1 DEF AcceptedFindings
  <1>5. "UNHEALTHY-RULES" \notin AcceptedFindings(receipt, handed) <=>
            receipt.rules_healthy = receipt.rules_loaded
    BY DEF AcceptedFindings
  <1>6. /\ "UNPROVEN-RUN" \notin AcceptedFindings(receipt, handed) <=> filing.run # None
        /\ "WITHOUT-VERDICT" \notin AcceptedFindings(receipt, handed) <=>
               handed.verdict \in {None, "deployed_repaired"}
    BY <1>2 DEF AcceptedFindings
  <1> QED  BY <1>3, <1>4, <1>5, <1>6

\* What was authorized was filed, or was not handed in.
LEMMA AuthorizedIsFiled ==
    ASSUME NEW filing, NEW handed
    PROVE  AuthorizedFindings(filing, handed) = {} <=>
               /\ handed.images \in {None, ToSet(filing.images)}
               /\ handed.plan \in {None, filing.plan}
               /\ handed.execution \in {None, filing.execution}
               /\ handed.rendered \in {None, filing.rendered}
  <1>1. /\ Differs(handed.plan, filing.plan) <=> handed.plan \notin {None, filing.plan}
        /\ Differs(handed.images, ToSet(filing.images)) <=>
               handed.images \notin {None, ToSet(filing.images)}
        /\ Differs(handed.rendered, filing.rendered) <=>
               handed.rendered \notin {None, filing.rendered}
        /\ Differs(handed.execution, filing.execution) <=>
               handed.execution \notin {None, filing.execution}
    BY DEF Differs
  <1>2. /\ "PLAN-DIGEST" \in AuthorizedFindings(filing, handed) <=>
               Differs(handed.plan, filing.plan)
        /\ "IMAGE-SET" \in AuthorizedFindings(filing, handed) <=>
               Differs(handed.images, ToSet(filing.images))
        /\ "RENDERED-DIGEST" \in AuthorizedFindings(filing, handed) <=>
               Differs(handed.rendered, filing.rendered)
    BY DEF AuthorizedFindings
  <1>3. \/ "EXECUTION-PLAN-ABSENT" \in AuthorizedFindings(filing, handed)
        \/ "EXECUTION-PLAN-DIGEST" \in AuthorizedFindings(filing, handed)
        <=> Differs(handed.execution, filing.execution)
    BY DEF AuthorizedFindings, Differs
  <1>4. AuthorizedFindings(filing, handed) \subseteq
            {"PLAN-DIGEST", "EXECUTION-PLAN-ABSENT", "EXECUTION-PLAN-DIGEST", "IMAGE-SET",
             "RENDERED-DIGEST"}
    BY DEF AuthorizedFindings
  <1> HIDE DEF AuthorizedFindings
  <1>5. AuthorizedFindings(filing, handed) = {} <=>
            /\ ~Differs(handed.plan, filing.plan)
            /\ ~Differs(handed.images, ToSet(filing.images))
            /\ ~Differs(handed.rendered, filing.rendered)
            /\ ~Differs(handed.execution, filing.execution)
    BY <1>2, <1>3, <1>4
  <1> QED  BY <1>1, <1>5

\* Of what verify() calls repaired the receipt's own re-check has nothing to say of any
\* count of targets or deliveries, for any jobs and counts, when every job declares
\* one; what it does say is of the promotion's filing, of a rule that is unhealthy or of
\* a read-back that lost the release before.
THEOREM RepairedReceiptsPass == Spec => []RepairedReceiptPasses
  <1>1. Filed => RepairedReceiptPasses
    <2> SUFFICES ASSUME latest # None, Filed, Repaired(baseline, latest),
                        DOMAIN Declared = DOMAIN Expected,
                        NEW filing \in Filings, NEW handed \in Handed
                 PROVE  Findings(filing, handed) = {} <=>
                            /\ InOrder(filing, handed)
                            /\ \A i \in DOMAIN latest.rules : latest.rules[i].health = "ok"
                            /\ latest.previous # None \/ handed.first
      BY DEF RepairedReceiptPasses
    <2>1. PICK mishap \in Mishaps, w \in Worlds : ReadBack(mishap, w)
      BY DEF Filed
    <2>2. latest.targets # <<>> /\ latest.targets = w.targets
      <3>1. latest.targets # <<>>
        BY DEF Repaired, TargetsMet
      <3> QED  BY <2>1, <3>1 DEF ReadBack, Unless
    <2>3. /\ DOMAIN latest.targets = 1..Len(latest.targets)
          /\ Len(latest.targets) \in Nat \ {0}
      BY <2>2, RowsOfAWorld, LenProperties, EmptySeq
    <2>4. \A i \in DOMAIN latest.targets : latest.targets[i].health = "up"
      BY ZenonT(40) DEF Repaired, TargetsMet
    <2>5. TargetsUp(latest) = ExpectedTotal(latest)
      BY <2>3, <2>4, AllAreCounted, DeclaredIsRead DEF TargetsUp, Repaired
    <2>6. latest.rules = w.rules /\ latest.rules # <<>>
      <3>1. PICK a \in Alerts : a \in DOMAIN Keyed(latest.rules, "name")
        BY DeclaredAssumption DEF Repaired, RulesMet
      <3>2. DOMAIN latest.rules # {}
        BY <3>1 DEF Keyed
      <3> QED  BY <2>1, <3>2 DEF ReadBack, Unless
    <2>7. DOMAIN latest.rules = 1..Len(latest.rules) /\ Len(latest.rules) \in Nat \ {0}
      BY <2>6, RowsOfAWorld, LenProperties, EmptySeq
    <2>8. RulesHealthy(latest) = Len(latest.rules) <=>
              \A i \in DOMAIN latest.rules : latest.rules[i].health = "ok"
      <3>1. CASE \A i \in DOMAIN latest.rules : latest.rules[i].health = "ok"
        BY <2>7, <3>1, AllAreCounted DEF RulesHealthy
      <3>2. CASE ~\A i \in DOMAIN latest.rules : latest.rules[i].health = "ok"
        BY <2>7, <3>2, UnhealthyIsCounted DEF RulesHealthy
      <3> QED  BY <3>1, <3>2
    <2>9. latest.canary.delivered
      BY DEF Repaired, DeliveryMet
    <2> DEFINE receipt == Receipt(latest, filing)
    <2>10. /\ receipt.filing = filing /\ receipt.previous = latest.previous
           /\ receipt.targets_up = TargetsUp(latest)
           /\ receipt.targets_expected = ExpectedTotal(latest)
           /\ receipt.rules_loaded = Len(latest.rules)
           /\ receipt.rules_healthy = RulesHealthy(latest)
           /\ receipt.delivered = latest.canary.delivered
      BY DEF Receipt
    <2>11. CASE ~WellFormed(filing)
      BY <2>11 DEF Findings, InOrder
    <2>12. CASE WellFormed(filing)
      <3>1. Findings(filing, handed) =
                {code \in {"PRIVATE"} : filing.private}
                    \cup ReleaseFindings(receipt, handed)
                    \cup AuthorizedFindings(filing, handed)
                    \cup AcceptedFindings(receipt, handed)
        BY <2>12 DEF Findings
      <3> HIDE DEF receipt
      <3>2. Findings(filing, handed) = {} <=>
                /\ ~filing.private
                /\ ReleaseFindings(receipt, handed) = {}
                /\ AuthorizedFindings(filing, handed) = {}
                /\ AcceptedFindings(receipt, handed) = {}
        BY <3>1
      <3>3. ReleaseFindings(receipt, handed) = {} <=>
                latest.previous # None \/ handed.first
        BY <2>10 DEF ReleaseFindings
      <3>4. AcceptedFindings(receipt, handed) = {} <=>
               /\ \A name \in Checks : filing.validation[name]
               /\ RulesHealthy(latest) = Len(latest.rules)
               /\ filing.run # None
               /\ handed.verdict \in {None, "deployed_repaired"}
        <4>1. /\ receipt.filing = filing
              /\ receipt.targets_up = receipt.targets_expected
              /\ receipt.rules_loaded # 0 /\ receipt.delivered
          BY <2>5, <2>7, <2>9, <2>10
        <4>2. receipt.rules_healthy = receipt.rules_loaded <=>
                  RulesHealthy(latest) = Len(latest.rules)
          BY <2>10
        <4>3. AcceptedFindings(receipt, handed) = {} <=>
                 /\ \A name \in Checks : filing.validation[name]
                 /\ receipt.rules_healthy = receipt.rules_loaded
                 /\ filing.run # None
                 /\ handed.verdict \in {None, "deployed_repaired"}
          BY <2>12, <4>1, OnlyTheFiling
        <4> QED  BY <4>2, <4>3
      <3> QED  BY <2>8, <2>12, <3>2, <3>3, <3>4, AuthorizedIsFiled DEF InOrder
    <2> QED  BY <2>11, <2>12
  <1> QED  BY <1>1, FiledInvariance, PTL
=============================================================================
