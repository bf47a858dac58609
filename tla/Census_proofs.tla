---------------------------- MODULE Census_proofs ----------------------------
(***************************************************************************)
(* Of any host, changing at any time under the census, and any documents:   *)
(* what the doubtful families may not claim, what an absent one may, which   *)
(* document discharges the interlock, that what it counts adds up, and that *)
(* what it reports as a total is one.                                       *)
(*                                                                         *)
(* A family that is skipped is recorded as not attempted and never walked   *)
(* (Walked); a degrading path that is there at the end and was never        *)
(* touched was there when it was asked for (Noted); and a walk that found   *)
(* nothing and missed nothing so far has every place that was there all     *)
(* along behind it, or a call ahead that leads to it (Looking).  Every walk, *)
(* every family done (Balance) and every document made of them (Books)      *)
(* counts each consumer once by family and once by custody.                 *)
(*                                                                         *)
(* At most one call ahead leads to a place (Ordered), so a walk that missed *)
(* nothing so far has counted every place behind it once, and once more for *)
(* each unit that mentions it, but for what is due yet (Reckoning).         *)
(***************************************************************************)
EXTENDS Census, Counting, SequenceTheorems, FiniteSetTheorems, TLAPS

-----------------------------------------------------------------------------
(* Which document discharges the interlock.                                  *)

\* What is filed names both artifacts; what was projected is the observation or
\* the one before it; and a verdict is the interlock's over the two.
Filed ==
    /\ observation # None =>
          \E found, collector, source : /\ collector # "" /\ source # ""
                                        /\ observation = Observation(found, collector, source)
    /\ envelope # None =>
          observation # None /\ envelope.observation \in {observation, Historical}
    /\ answer # None =>
          envelope # None /\ answer.verdict = Interlock(envelope, answer.of)

LEMMA WalkingFilesNothing ==
    ASSUME Begin \/ List \/ Read \/ Run \/ Finish \/ Look \/ Answer \/ Change
    PROVE  UNCHANGED documents
  BY DEF Begin, List, Read, Run, Finish, Look, Answer, Change, Step

LEMMA FiledKept == Filed /\ UNCHANGED documents => Filed'
  BY DEF Filed, documents, Historical

LEMMA NextFiled == Filed /\ [Next]_vars => Filed'
<1> SUFFICES ASSUME Filed, [Next]_vars PROVE Filed'
  OBVIOUS
<1>1. CASE Begin \/ List \/ Read \/ Run \/ Finish \/ Look \/ Answer \/ Change
  BY <1>1, WalkingFilesNothing, FiledKept
<1>2. CASE UNCHANGED vars
  BY <1>2, FiledKept DEF vars, documents
<1>3. ASSUME NEW collector \in {"d", ""}, NEW source \in {"d", ""}, File(collector, source)
      PROVE  Filed'
  <2>1. /\ observation = None /\ observation' = Observation(report, collector, source)
        /\ collector # "" /\ source # ""
        /\ UNCHANGED <<envelope, answer>>
    BY <1>3 DEF File, Fileable
  <2> QED BY <2>1 DEF Filed
<1>4. ASSUME NEW document \in {observation, Historical}, NEW request, NEW clash,
             observation # None, Project(document, request, clash)
      PROVE  Filed'
  <2>1. /\ envelope = None /\ envelope'.observation = document
        /\ UNCHANGED <<observation, answer>>
    BY <1>4 DEF Project, Envelope
  <2> QED BY <1>4, <2>1 DEF Filed, Historical
<1>5. ASSUME NEW document, Ask(document)
      PROVE  Filed'
  <2>1. /\ envelope # None
        /\ answer' = [verdict |-> Interlock(envelope, document), of |-> document]
        /\ UNCHANGED <<observation, envelope>>
    BY <1>5 DEF Ask
  <2> QED BY <2>1 DEF Filed, Historical
<1> QED BY <1>1, <1>2, <1>3, <1>4, <1>5 DEF Next

LEMMA FiledDischarges == Filed => DischargedByItsObservation
<1> SUFFICES ASSUME Filed, answer # None
             PROVE  answer.verdict = "DISCHARGED" <=>
                       answer.of = envelope.observation /\ answer.of.version = 2
  BY DEF DischargedByItsObservation
<1>1. /\ envelope # None /\ observation # None
      /\ envelope.observation \in {observation, Historical}
      /\ answer.verdict = Interlock(envelope, answer.of)
  BY DEF Filed
<1>2. /\ observation.version = 2 /\ observation.collector # "" /\ observation.source # ""
      /\ Historical.version = 1 /\ Historical.collector = ""
  <2>1. PICK found, collector, source : /\ collector # "" /\ source # ""
                                        /\ observation = Observation(found, collector, source)
    BY <1>1 DEF Filed
  <2> QED BY <2>1 DEF Observation, Historical
<1> HIDE DEF Historical
<1>3. answer.verdict = "DISCHARGED"
        <=> /\ answer.of # None /\ answer.of = envelope.observation
            /\ answer.of.collector # "" /\ answer.of.source # ""
  BY <1>1 DEF Interlock
<1>4. CASE envelope.observation = observation
  BY <1>1, <1>2, <1>3, <1>4
<1>5. CASE envelope.observation = Historical
  <2>1. ~(answer.verdict = "DISCHARGED")
    BY <1>2, <1>3, <1>5
  <2>2. ASSUME answer.of = envelope.observation PROVE answer.of.version # 2
    <3>1. answer.of = Historical
      BY Zenon, <1>5, <2>2
    <3>2. answer.of.version = 1
      BY Zenon, <1>2, <3>1
    <3> QED BY <3>2
  <2> QED BY Zenon, <2>1, <2>2
<1> QED BY <1>1, <1>4, <1>5

\* Whatever the caller files, projects and asks about: the rotation interlock is
\* discharged by the document the envelope was projected from, if that names both
\* artifacts, and by no other.
THEOREM OnlyItsObservationDischarges == Spec => []DischargedByItsObservation
<1>1. Init => Filed
  BY DEF Init, Filed
<1> QED BY <1>1, NextFiled, FiledDischarges, PTL DEF Spec

-----------------------------------------------------------------------------
(* What a walk leaves.                                                       *)

Codes == SourceErrorClasses \cup {"unknown", "ambiguous", "dynamic"}

IsWalk(w) ==
    /\ DOMAIN w = {"todo", "ledger", "attributed", "unattributed"}
    /\ DOMAIN w.ledger = {"files", "bytes", "errors", "exhausted"}
    /\ w.ledger.errors \in Seq(Codes)

IsOutcome(o) ==
    /\ DOMAIN o = {"scan", "attributed", "unattributed"}
    /\ DOMAIN o.scan = {"attempted", "completed", "errors", "found"}
    /\ o.scan.errors \in Seq(Codes)

\* Only a family that is not skipped is walked, and a skipped one is recorded as
\* not attempted.
Walked ==
    /\ host \in Hosts
    /\ family \in 0..Len(DeclaredFamilies)
    /\ walk # None => /\ IsWalk(walk)
                      /\ family < Len(DeclaredFamilies) /\ Current \notin skipped
    /\ DOMAIN outcomes = {DeclaredFamilies[i] : i \in 1..family}
    /\ \A f \in DOMAIN outcomes : /\ IsOutcome(outcomes[f])
                                  /\ f \in skipped => ~outcomes[f].scan.attempted

LEMMA FamiliesAreListed ==
    /\ Len(DeclaredFamilies) \in Nat
    /\ Families = {DeclaredFamilies[i] : i \in 1..Len(DeclaredFamilies)}
  BY DEF DeclaredFamilies, Families

LEMMA CopiesAreCodes ==
    ASSUME NEW code \in Codes, NEW n \in Nat
    PROVE  Copies(code, n) \in Seq(Codes) /\ Len(Copies(code, n)) = n
<1>1. Copies(code, n) \in [1..n -> Codes]
  BY DEF Copies
<1>2. Copies(code, n) \in Seq(Codes)
  BY <1>1, SeqDef
<1>3. DOMAIN Copies(code, n) = 1..n
  BY DEF Copies
<1> QED BY <1>2, <1>3, LenProperties

LEMMA WhenIsCodes ==
    ASSUME NEW condition, NEW code \in Codes
    PROVE  When(condition, code) \in Seq(Codes)
<1>1. (IF condition THEN 1 ELSE 0) \in Nat
  OBVIOUS
<1> QED BY <1>1, CopiesAreCodes DEF When

LEMMA NotesAreCodes ==
    ASSUME NEW f, NEW as, NEW text, text.malformed \in Nat
    PROVE  Notes(f, as, text) \in Seq(Codes)
<1>1. "parse" \in Codes /\ "ambiguous" \in Codes /\ "dynamic" \in Codes
  BY DEF Codes, SourceErrorClasses
<1>2. \A a, b : a \in Seq(Codes) /\ b \in Seq(Codes) => a \o b \in Seq(Codes)
  BY ConcatProperties
<1>3. Copies("parse", text.malformed) \in Seq(Codes)
  BY <1>1, CopiesAreCodes
<1>4. \A condition : /\ When(condition, "ambiguous") \in Seq(Codes)
                     /\ When(condition, "dynamic") \in Seq(Codes)
  BY Zenon, <1>1, WhenIsCodes
<1> QED BY Zenon, <1>2, <1>3, <1>4 DEF Notes

LEMMA ClassifiedAsCode == \A code : Classify(code) \in Codes /\ <<Classify(code)>> \in Seq(Codes)
  BY DEF Classify, Codes

\* What the walks do to their record of themselves leaves it one.
LEMMA WalkKept ==
    ASSUME NEW w, IsWalk(w)
    PROVE  /\ \A todo : IsWalk([w EXCEPT !.todo = todo])
           /\ \A n : IsWalk([w EXCEPT !.ledger.files = n])
           /\ \A n : IsWalk([w EXCEPT !.ledger.bytes = n])
           /\ IsWalk(Exhaust(w))
           /\ \A codes \in Seq(Codes) : IsWalk(Note(w, codes))
           /\ \A as, n : IsWalk(Count(w, as, n))
           /\ \A calls : IsWalk(Queue(w, calls))
<1>1. \A codes \in Seq(Codes) : IsWalk(Note(w, codes))
  <2>1. \A codes \in Seq(Codes) : w.ledger.errors \o codes \in Seq(Codes)
    BY ConcatProperties DEF IsWalk
  <2> QED BY <2>1 DEF IsWalk, Note
<1>2. \A as, n : IsWalk(Count(w, as, n))
  BY DEF IsWalk, Count
<1>3. \A calls : IsWalk(Queue(w, calls))
  BY DEF IsWalk, Queue
<1>4. /\ \A todo : IsWalk([w EXCEPT !.todo = todo])
      /\ \A n : IsWalk([w EXCEPT !.ledger.files = n])
      /\ \A n : IsWalk([w EXCEPT !.ledger.bytes = n])
      /\ IsWalk(Exhaust(w))
  BY DEF IsWalk, Exhaust
<1> QED BY <1>1, <1>2, <1>3, <1>4

LEMMA WalkingIsWalk == \A calls : IsWalk(Walking(calls))
<1>1. <<>> \in Seq(Codes)
  BY EmptySeq
<1> QED BY <1>1 DEF IsWalk, Walking, Ledger

LEMMA OutcomeIsOutcome ==
    ASSUME NEW w, IsWalk(w), NEW attempted
    PROVE  /\ IsOutcome(Outcome(w, attempted))
           /\ Outcome(w, attempted).scan.attempted = attempted
  BY DEF IsWalk, IsOutcome, Outcome

\* A step of a walk: it goes on, or the family is done.
Onward ==
    \/ \E w : IsWalk(w) /\ walk' = w /\ UNCHANGED <<family, outcomes>>
    \/ \E o : IsOutcome(o) /\ Keep(o)

LEMMA ParsedOnward ==
    ASSUME NEW w, IsWalk(w), NEW at, NEW as, NEW text, text.malformed \in Nat,
           Parse(w, at, as, text)
    PROVE  Onward
<1>1. Notes(Current, as, text) \in Seq(Codes)
  BY NotesAreCodes
<1>2. IsWalk(Queue(Note(Count(w, as, Consumers(text)), Notes(Current, as, text)),
                   Referred(Current, as, text)))
  <2>1. IsWalk(Count(w, as, Consumers(text)))
    BY WalkKept
  <2>2. IsWalk(Note(Count(w, as, Consumers(text)), Notes(Current, as, text)))
    BY <1>1, <2>1, WalkKept
  <2> QED BY <2>2, WalkKept
<1>3. IsOutcome(Outcome(Note(Walking(<<>>), <<"unknown">>), TRUE))
  <2>1. <<"unknown">> \in Seq(Codes)
    BY DEF Codes
  <2>2. IsWalk(Note(Walking(<<>>), <<"unknown">>))
    BY <2>1, WalkingIsWalk, WalkKept
  <2> QED BY <2>2, OutcomeIsOutcome
<1>4. \/ walk' = w /\ UNCHANGED <<family, outcomes>>
      \/ Keep(Outcome(Note(Walking(<<>>), <<"unknown">>), TRUE))
      \/ /\ walk' = Queue(Note(Count(w, as, Consumers(text)), Notes(Current, as, text)),
                          Referred(Current, as, text))
         /\ UNCHANGED <<family, outcomes>>
  BY Zenon DEF Parse
<1> QED BY Zenon, <1>2, <1>3, <1>4 DEF Onward

\* What a source answers with a text has one.
LEMMA HeldText ==
    ASSUME host \in Hosts, NEW p, Fails(p) = "no"
    PROVE  host[p].text.malformed \in Nat
  BY CensusAssumption DEF Fails

LEMMA ListOnward == Walked /\ List => Onward
<1> SUFFICES ASSUME Walked, List PROVE Onward
  OBVIOUS
<1> DEFINE p == Head(walk.todo).at
           code == Classify(Fails(p))
<1>1. IsWalk(walk) /\ walk # None
  BY DEF Walked, List, Step
<1>2. IsWalk(Rest)
  BY <1>1, WalkKept DEF Rest
<1>3. IsWalk(Note(Rest, <<code>>))
  BY <1>2, ClassifiedAsCode, WalkKept
<1>4. \A calls : IsWalk(Queue(Rest, calls)) /\ IsWalk(Exhaust(Queue(Rest, calls)))
  BY <1>2, WalkKept
<1>5. UNCHANGED <<family, outcomes>>
  BY DEF List
<1>6. CASE Fails(p) # "no"
  <2>1. walk' = IF code = "missing" THEN Rest ELSE Note(Rest, <<code>>)
    BY <1>6 DEF List
  <2> QED BY <1>2, <1>3, <1>5, <2>1 DEF Onward
<1>7. CASE Fails(p) = "no"
  <2>1. \E calls : walk' \in {Queue(Rest, calls), Exhaust(Queue(Rest, calls))}
    BY <1>7 DEF List
  <2> QED BY <1>4, <1>5, <2>1 DEF Onward
<1> QED BY <1>6, <1>7

LEMMA ReadOnward == Walked /\ Read => Onward
<1> SUFFICES ASSUME Walked, Read PROVE Onward
  OBVIOUS
<1> DEFINE c == Head(walk.todo)
           code == Classify(Fails(c.at))
           spent == [Rest EXCEPT !.ledger.files = @ + 1]
           text == host[c.at].text
           held == [spent EXCEPT !.ledger.bytes = @ + text.size]
<1>1. IsWalk(walk) /\ walk # None /\ host \in Hosts
  BY DEF Walked, Read, Step
<1>2. IsWalk(Rest)
  BY <1>1, WalkKept DEF Rest
<1>3. IsWalk(spent)
  BY <1>2, WalkKept
<1>4. IsWalk(held)
  <2> HIDE DEF spent
  <2> QED BY <1>3, WalkKept
<1>5. IsWalk(Exhaust(spent)) /\ IsWalk(Note(spent, <<code>>)) /\ IsWalk(Exhaust(held))
  <2> HIDE DEF spent, held
  <2> QED BY <1>3, <1>4, ClassifiedAsCode, WalkKept
<1>6. \/ walk' \in {Exhaust(spent), spent, Note(spent, <<code>>), Exhaust(held)}
            /\ UNCHANGED <<family, outcomes>>
      \/ Fails(c.at) = "no" /\ Parse(held, c.at, c.as, text)
  BY Zenon DEF Read
<1> HIDE DEF spent, held, code, text
<1>7. ASSUME Fails(c.at) = "no", Parse(held, c.at, c.as, text) PROVE Onward
  <2>1. text.malformed \in Nat
    BY <1>1, <1>7, HeldText DEF text
  <2> QED BY <1>4, <1>7, <2>1, ParsedOnward
<1> QED BY <1>3, <1>5, <1>6, <1>7 DEF Onward

LEMMA RunOnward == Walked /\ Run => Onward
<1> SUFFICES ASSUME Walked, Run PROVE Onward
  OBVIOUS
<1> DEFINE c == Head(walk.todo)
           code == Classify(Fails(c.at))
           counted == [Rest EXCEPT !.ledger.files = @ + 1]
           spent == IF c.as = "entry" THEN counted ELSE Rest
           text == host[c.at].text
           ended == Exhaust([spent EXCEPT !.todo = <<>>])
<1>1. IsWalk(walk) /\ walk # None /\ host \in Hosts
  BY DEF Walked, Run, Step
<1>2. IsWalk(Rest)
  BY <1>1, WalkKept DEF Rest
<1>3. IsWalk(counted)
  BY <1>2, WalkKept
<1>4. IsWalk(spent)
  <2> HIDE DEF counted
  <2> QED BY <1>2, <1>3
<1>5. /\ IsWalk(ended) /\ IsWalk(Note(spent, <<code>>))
      /\ \A calls : IsWalk(Queue(spent, calls))
  <2> HIDE DEF spent
  <2>1. IsWalk([spent EXCEPT !.todo = <<>>])
    BY <1>4, WalkKept
  <2> QED BY <1>4, <2>1, ClassifiedAsCode, WalkKept
<1>6. \/ walk' \in {ended, Note(spent, <<code>>)} /\ UNCHANGED <<family, outcomes>>
      \/ /\ \E calls : walk' = Queue(spent, calls)
         /\ UNCHANGED <<family, outcomes>>
      \/ Fails(c.at) = "no" /\ Parse(spent, c.at, c.as, text)
  BY Zenon DEF Run
<1> HIDE DEF spent, code, text, ended
<1>7. ASSUME Fails(c.at) = "no", Parse(spent, c.at, c.as, text) PROVE Onward
  <2>1. text.malformed \in Nat
    BY <1>1, <1>7, HeldText DEF text
  <2> QED BY <1>4, <1>7, <2>1, ParsedOnward
<1> QED BY <1>5, <1>6, <1>7 DEF Onward

\* A family that is done is recorded, and the others stay as they are.
LEMMA KeepWalked ==
    ASSUME Walked, host' \in Hosts, skipped' = skipped, family < Len(DeclaredFamilies),
           NEW o, IsOutcome(o), Current \in skipped => ~o.scan.attempted, Keep(o)
    PROVE  Walked'
<1>1. /\ outcomes' = [f \in DOMAIN outcomes \cup {Current} |->
                        IF f = Current THEN o ELSE outcomes[f]]
      /\ family' = family + 1 /\ walk' = None
      /\ family \in Nat /\ Len(DeclaredFamilies) \in Nat
  BY FamiliesAreListed DEF Keep, Walked
<1>2. family' \in 0..Len(DeclaredFamilies)
  BY <1>1
<1>3. DOMAIN outcomes' = DOMAIN outcomes \cup {Current}
  BY <1>1
<1>4. DOMAIN outcomes' = {DeclaredFamilies[i] : i \in 1..family'}
  <2>1. 1..family' = (1..family) \cup {family + 1}
    BY <1>1
  <2> QED BY <1>3, <2>1 DEF Walked, Current
<1>5. ASSUME NEW f \in DOMAIN outcomes'
      PROVE  outcomes'[f] = IF f = Current THEN o ELSE outcomes[f]
  BY <1>1, <1>3, <1>5
<1>6. ASSUME NEW f \in DOMAIN outcomes'
      PROVE  IsOutcome(outcomes'[f]) /\ (f \in skipped => ~outcomes'[f].scan.attempted)
  <2>1. CASE f = Current
    <3>1. outcomes'[f] = o
      BY <1>5, <2>1
    <3> QED BY Zenon, <2>1, <3>1
  <2>2. CASE f # Current
    <3>1. f \in DOMAIN outcomes /\ outcomes'[f] = outcomes[f]
      BY <1>3, <1>5, <2>2
    <3> QED BY Zenon, <3>1 DEF Walked
  <2> QED BY <2>1, <2>2
<1> QED BY <1>1, <1>2, <1>4, <1>6 DEF Walked

LEMMA OnwardWalked ==
    ASSUME Walked, walk # None, host' \in Hosts, skipped' = skipped, Onward
    PROVE  Walked'
<1>1. CASE \E w : IsWalk(w) /\ walk' = w /\ UNCHANGED <<family, outcomes>>
  BY <1>1 DEF Walked, Current
<1>2. CASE \E o : IsOutcome(o) /\ Keep(o)
  BY <1>2, KeepWalked DEF Walked
<1> QED BY <1>1, <1>2 DEF Onward

LEMMA BeginWalked == Walked /\ Begin => Walked'
<1> SUFFICES ASSUME Walked, Begin PROVE Walked'
  OBVIOUS
<1>1. /\ family < Len(DeclaredFamilies) /\ skipped' = skipped /\ host' \in Hosts
  BY DEF Begin, Walked
<1>2. CASE Current \in skipped
  <2>1. Keep(Outcome(Walking(<<>>), FALSE))
    BY <1>2 DEF Begin
  <2>2. IsOutcome(Outcome(Walking(<<>>), FALSE)) /\ ~Outcome(Walking(<<>>), FALSE).scan.attempted
    BY WalkingIsWalk, OutcomeIsOutcome
  <2> QED BY <1>1, <2>1, <2>2, KeepWalked
<1>3. CASE Current \notin skipped
  <2>1. walk' = Walking(Opening(Current)) /\ UNCHANGED <<family, outcomes>>
    BY <1>3 DEF Begin
  <2>2. IsWalk(walk')
    BY <2>1, WalkingIsWalk
  <2> QED BY <1>1, <1>3, <2>1, <2>2 DEF Walked, Current
<1> QED BY <1>2, <1>3

LEMMA NextWalked == Walked /\ [Next]_vars => Walked'
<1> SUFFICES ASSUME Walked, [Next]_vars PROVE Walked'
  OBVIOUS
<1>1. CASE Begin
  BY <1>1, BeginWalked
<1>2. CASE List
  BY <1>2, ListOnward, OnwardWalked DEF List, Step, Walked
<1>3. CASE Read
  BY <1>3, ReadOnward, OnwardWalked DEF Read, Step, Walked
<1>4. CASE Run
  BY <1>4, RunOnward, OnwardWalked DEF Run, Step, Walked
<1>5. CASE Finish
  <2>1. IsOutcome(Outcome(walk, TRUE)) /\ Keep(Outcome(walk, TRUE)) /\ walk # None
    BY <1>5, OutcomeIsOutcome DEF Finish, Walked
  <2>2. Onward
    BY <2>1 DEF Onward
  <2> QED BY <1>5, <2>1, <2>2, OnwardWalked DEF Finish, Walked
<1>6. CASE Change
  BY <1>6 DEF Change, Walked, Current
<1>7. CASE UNCHANGED <<host, skipped, family, walk, outcomes>>
  BY <1>7 DEF Walked, Current
<1>8. \/ Begin \/ List \/ Read \/ Run \/ Finish \/ Change
      \/ UNCHANGED <<host, skipped, family, walk, outcomes>>
  BY DEF Next, vars, Look, Answer, File, Project, Ask
<1> QED BY <1>1, <1>2, <1>3, <1>4, <1>5, <1>6, <1>7, <1>8

-----------------------------------------------------------------------------
(* What degrades.                                                            *)

\* A degrading path that was asked for, and is there and untouched, was reported.
Noted ==
    /\ facts \in Seq(BOOLEAN)
    /\ \A i \in 1..Len(facts) : Steady(Degrading[i]) => facts[i] = TRUE

\* What is steady after the host changed was before.
LEMMA SteadyBefore ==
    ASSUME host \in Hosts, Change, NEW p, Steady(p)'
    PROVE  Steady(p)
<1>1. /\ host' \in Hosts /\ touched' = touched \cup {q \in Places : host'[q] # host[q]}
  BY DEF Change
<1>2. Fails(p)' # "missing" /\ \A n \in 1..Len(p) : SubSeq(p, 1, n) \notin touched'
  BY DEF Steady
<1>3. p \in Places
  BY <1>2 DEF Fails
<1>4. p \in Seq(ToSet(p)) /\ p # <<>>
  BY <1>3, CensusAssumption
<1>5. Len(p) \in 1..Len(p) /\ SubSeq(p, 1, Len(p)) = p
  <2>1. Len(p) \in Nat /\ Len(p) # 0
    BY <1>4, LenProperties, EmptySeq
  <2>2. SubSeq(p, 1, Len(p)) = p
    BY <1>4, <2>1, SubSeqFull
  <2> QED BY <2>1, <2>2
<1>6. p \notin touched'
  BY <1>2, <1>5
<1>7. host'[p] = host[p]
  BY <1>1, <1>3, <1>6
<1>8. Fails(p) # "missing"
  BY <1>2, <1>3, <1>7 DEF Fails
<1> QED BY <1>1, <1>2, <1>8 DEF Steady

LEMMA NextNoted == Walked /\ Noted /\ [Next]_vars => Noted'
<1> SUFFICES ASSUME Walked, Noted, [Next]_vars PROVE Noted'
  OBVIOUS
<1>1. CASE UNCHANGED <<host, touched, facts>>
  BY <1>1 DEF Noted, Steady, Fails
<1>2. CASE Change
  <2>1. facts' = facts /\ host \in Hosts
    BY <1>2 DEF Change, Walked
  <2>2. ASSUME NEW i \in 1..Len(facts), Steady(Degrading[i])' PROVE facts[i] = TRUE
    <3>1. Steady(Degrading[i])
      BY <1>2, <2>1, <2>2, SteadyBefore
    <3> QED BY <3>1 DEF Noted
  <2> QED BY <2>1, <2>2 DEF Noted
<1>3. CASE Look
  <2> DEFINE n == Len(facts)
             here == There(Degrading[n + 1])
  <2>1. facts' = Append(facts, here) /\ UNCHANGED <<host, touched>> /\ facts \in Seq(BOOLEAN)
    BY <1>3 DEF Look, Noted
  <2>2. here \in BOOLEAN /\ (Steady(Degrading[n + 1]) => here = TRUE)
    BY DEF There, Steady
  <2> HIDE DEF here
  <2>3. /\ facts' \in Seq(BOOLEAN) /\ Len(facts') = n + 1 /\ n \in Nat
        /\ facts'[n + 1] = here /\ \A i \in 1..n : facts'[i] = facts[i]
    BY <2>1, <2>2, AppendProperties, LenProperties
  <2>4. ASSUME NEW i \in 1..(n + 1), Steady(Degrading[i]) PROVE facts'[i] = TRUE
    <3>1. CASE i = n + 1
      BY <2>2, <2>3, <2>4, <3>1
    <3>2. CASE i # n + 1
      <4>1. i \in 1..n
        BY <2>3, <3>2
      <4> QED BY <2>3, <2>4, <4>1 DEF Noted
    <3> QED BY <3>1, <3>2
  <2>5. \A i : Steady(Degrading[i])' <=> Steady(Degrading[i])
    BY <2>1 DEF Steady, Fails
  <2> QED BY <2>3, <2>4, <2>5 DEF Noted
<1>4. \/ Change \/ Look \/ UNCHANGED <<host, touched, facts>>
  BY DEF Next, vars, Begin, List, Read, Run, Finish, Step, Answer, File, Project, Ask
<1> QED BY <1>1, <1>2, <1>3, <1>4

LEMMA DoubtIsUnknown ==
    ASSUME NEW scan, scan.errors # <<>> \/ ~scan.attempted
    PROVE  Verdict(scan) = "UNKNOWN"
  BY DEF Verdict

\* A degraded family has an error, and what was attempted stays so.
LEMMA DegradedHasAnError ==
    ASSUME NEW o, IsOutcome(o), NEW n \in Nat
    PROVE  /\ n # 0 => Degraded(o, n).scan.errors # <<>>
           /\ Degraded(o, n).scan.attempted = o.scan.attempted
<1>1. /\ Degraded(o, n).scan.errors = o.scan.errors \o Copies("ambiguous", n)
      /\ Degraded(o, n).scan.attempted = o.scan.attempted
  BY DEF IsOutcome, Degraded
<1>2. "ambiguous" \in Codes
  BY DEF Codes
<1>3. /\ Copies("ambiguous", n) \in Seq(Codes) /\ Len(Copies("ambiguous", n)) = n
      /\ o.scan.errors \in Seq(Codes) /\ Len(o.scan.errors) \in Nat
  BY <1>2, CopiesAreCodes, LenProperties DEF IsOutcome
<1>4. Len(o.scan.errors \o Copies("ambiguous", n)) = Len(o.scan.errors) + n
  <2>1. \A a, b \in Seq(Codes) : Len(a \o b) = Len(a) + Len(b)
    BY ConcatProperties
  <2> QED BY <1>3, <2>1
<1>5. n # 0 => o.scan.errors \o Copies("ambiguous", n) # <<>>
  <2>1. Len(<<>>) = 0
    OBVIOUS
  <2> QED BY <1>3, <1>4, <2>1
<1> QED BY <1>1, <1>5

\* How many of the facts degrade.
LEMMA FactsCounted ==
    ASSUME Noted
    PROVE  /\ Cardinality({i \in DOMAIN facts : facts[i]}) \in Nat
           /\ (\E i \in DOMAIN facts : facts[i] = TRUE)
                  => Cardinality({i \in DOMAIN facts : facts[i]}) # 0
<1> DEFINE S == {i \in DOMAIN facts : facts[i]}
<1>1. Len(facts) \in Nat /\ DOMAIN facts = 1..Len(facts)
  BY LenProperties DEF Noted
<1>2. S \in SUBSET (1..Len(facts)) /\ IsFiniteSet(1..Len(facts))
  BY <1>1, FS_Interval
<1>3. (\E i \in DOMAIN facts : facts[i] = TRUE) => S # {}
  OBVIOUS
<1> HIDE DEF S
<1>4. IsFiniteSet(S)
  BY <1>2, FS_Subset
<1>5. Cardinality(S) \in Nat /\ (S # {} => Cardinality(S) # 0)
  BY <1>4, FS_CardinalityType, FS_EmptySet
<1> QED BY <1>3, <1>5 DEF S

LEMMA AnswerDegrades == Walked /\ Noted /\ Answer => DegradedIsUnknown'
<1> SUFFICES ASSUME Walked, Noted, Answer PROVE DegradedIsUnknown'
  OBVIOUS
<1> DEFINE n == Cardinality({i \in DOMAIN facts : facts[i]})
<1>1. /\ family = Len(DeclaredFamilies) /\ Len(facts) = Len(Degrading)
      /\ report' = [f \in Families |-> Degraded(outcomes[f], n)]
      /\ UNCHANGED <<host, touched, skipped>>
  BY DEF Answer
<1>2. DOMAIN outcomes = Families
  BY <1>1, FamiliesAreListed DEF Walked
<1>3. n \in Nat /\ ((\E i \in DOMAIN facts : facts[i] = TRUE) => n # 0)
  BY FactsCounted
<1> HIDE DEF n
<1>4. ASSUME NEW f \in Families
      PROVE  /\ IsOutcome(outcomes[f]) /\ report'[f] = Degraded(outcomes[f], n)
             /\ f \in skipped => ~outcomes[f].scan.attempted
  BY Zenon, <1>1, <1>2 DEF Walked
<1>5. ASSUME NEW f \in Families, n # 0 \/ f \in skipped
      PROVE  Verdict(report'[f].scan) = "UNKNOWN"
  <2>1. report'[f].scan.errors # <<>> \/ ~report'[f].scan.attempted
    <3>1. n # 0 => report'[f].scan.errors # <<>>
      BY <1>3, <1>4, DegradedHasAnError
    <3>2. f \in skipped => ~report'[f].scan.attempted
      <4>1. report'[f].scan.attempted = outcomes[f].scan.attempted
        BY <1>3, <1>4, DegradedHasAnError
      <4> QED BY Zenon, <1>4, <4>1
    <3> QED BY Zenon, <1>5, <3>1, <3>2
  <2> QED BY Zenon, <2>1, DoubtIsUnknown
<1>6. ASSUME NEW p \in ToSet(Degrading), Steady(p)
      PROVE  n # 0
  <2>1. PICK i \in DOMAIN Degrading : p = Degrading[i]
    BY DEF ToSet
  <2>2. DOMAIN Degrading = 1..Len(Degrading) /\ DOMAIN facts = 1..Len(facts)
    BY CensusAssumption, LenProperties DEF Noted
  <2>3. i \in DOMAIN facts /\ facts[i] = TRUE
    BY <1>1, <1>6, <2>1, <2>2 DEF Noted
  <2> QED BY <1>3, <2>3
<1>7. \A p : Steady(p)' <=> Steady(p)
  BY <1>1 DEF Steady, Fails
<1>8. Known' = {f \in Families : Verdict(report'[f].scan) # "UNKNOWN"}
  BY DEF Known
<1> HIDE DEF Known
<1> QED BY <1>1, <1>5, <1>6, <1>7, <1>8 DEF DegradedIsUnknown

LEMMA NextDegrades ==
    Walked /\ Noted /\ DegradedIsUnknown /\ [Next]_vars => DegradedIsUnknown'
<1> SUFFICES ASSUME Walked, Noted, DegradedIsUnknown, [Next]_vars PROVE DegradedIsUnknown'
  OBVIOUS
<1>1. CASE Answer
  BY <1>1, AnswerDegrades
<1>2. CASE Change
  BY <1>2 DEF Change, DegradedIsUnknown
<1>3. CASE UNCHANGED <<host, touched, skipped, report>>
  BY <1>3 DEF DegradedIsUnknown, Known, Steady, Fails
<1>4. Answer \/ Change \/ UNCHANGED <<host, touched, skipped, report>>
  BY DEF Next, vars, Begin, List, Read, Run, Finish, Step, Look, File, Project, Ask
<1> QED BY <1>1, <1>2, <1>3, <1>4

LEMMA InitWalked == Init => Walked /\ Noted
<1> SUFFICES ASSUME Init PROVE Walked /\ Noted
  OBVIOUS
<1>1. facts \in Seq(BOOLEAN) /\ Len(facts) = 0
  BY EmptySeq DEF Init
<1>2. Walked
  <2>1. DOMAIN outcomes = {} /\ 1..0 = {}
    BY DEF Init
  <2> QED BY <2>1, FamiliesAreListed DEF Init, Walked
<1> QED BY <1>1, <1>2 DEF Noted

\* On any host, however it changes under the census, and whatever the operator
\* excludes: while a degrading path is there, no family claims a total, and none
\* does that nobody looked through.
THEOREM DoubtIsNeverATotal == Spec => []DegradedIsUnknown
<1>1. Init => Walked /\ Noted /\ DegradedIsUnknown
  BY InitWalked DEF Init, DegradedIsUnknown
<1> QED BY <1>1, NextWalked, NextNoted, NextDegrades, PTL DEF Spec

-----------------------------------------------------------------------------
(* Lists of calls, and the sets of them.                                     *)

LEMMA ListsItself ==
    ASSUME NEW S, NEW s \in Seq(S)
    PROVE  s \in Seq(ToSet(s))
<1> DEFINE n == Len(s)
           T == ToSet(s)
<1>1. n \in Nat /\ s \in [1..n -> S] /\ DOMAIN s = 1..n
  BY LenProperties
<1>2. \A i \in 1..n : s[i] \in T
  BY <1>1 DEF ToSet
<1> HIDE DEF n, T
<1>3. s \in [1..n -> T]
  BY <1>1, <1>2
<1> QED BY <1>1, <1>3, SeqDef DEF T

LEMMA BothListed ==
    ASSUME NEW a, NEW b, a \in Seq(ToSet(a)), b \in Seq(ToSet(b))
    PROVE  a \o b \in Seq(ToSet(a \o b)) /\ ToSet(a \o b) = ToSet(a) \cup ToSet(b)
<1> DEFINE S == ToSet(a) \cup ToSet(b)
<1>1. a \in Seq(S) /\ b \in Seq(S)
  BY SeqDef
<1>2. /\ a \o b \in Seq(S) /\ Len(a \o b) = Len(a) + Len(b)
      /\ \A i \in 1..(Len(a) + Len(b)) :
             (a \o b)[i] = IF i <= Len(a) THEN a[i] ELSE b[i - Len(a)]
  BY <1>1, ConcatProperties
<1>3. /\ DOMAIN a = 1..Len(a) /\ DOMAIN b = 1..Len(b) /\ Len(a) \in Nat /\ Len(b) \in Nat
      /\ DOMAIN (a \o b) = 1..(Len(a) + Len(b))
  BY <1>1, <1>2, LenProperties
<1>4. ToSet(a \o b) = S
  <2>1. ASSUME NEW i \in DOMAIN (a \o b) PROVE (a \o b)[i] \in S
    BY <1>2, <1>3 DEF ToSet
  <2>2. ASSUME NEW i \in DOMAIN a PROVE a[i] \in ToSet(a \o b)
    <3>1. i \in DOMAIN (a \o b) /\ (a \o b)[i] = a[i]
      BY <1>2, <1>3
    <3> QED BY <3>1 DEF ToSet
  <2>3. ASSUME NEW i \in DOMAIN b PROVE b[i] \in ToSet(a \o b)
    <3>1. Len(a) + i \in DOMAIN (a \o b) /\ (a \o b)[Len(a) + i] = b[i]
      BY <1>2, <1>3
    <3> QED BY <3>1 DEF ToSet
  <2>4. S \subseteq ToSet(a \o b)
    BY <2>2, <2>3 DEF ToSet
  <2>5. ToSet(a \o b) \subseteq S
    BY <2>1 DEF ToSet
  <2> QED BY <2>4, <2>5
<1> QED BY <1>2, <1>4

LEMMA RestListed ==
    ASSUME NEW s, s \in Seq(ToSet(s)), s # <<>>
    PROVE  /\ Tail(s) \in Seq(ToSet(Tail(s)))
           /\ ToSet(s) = {Head(s)} \cup ToSet(Tail(s))
<1>1. /\ Tail(s) \in Seq(ToSet(s)) /\ Len(Tail(s)) = Len(s) - 1
      /\ \A i \in 1..Len(Tail(s)) : Tail(s)[i] = s[i + 1]
      /\ Head(s) = s[1] /\ Len(s) \in Nat \ {0}
  BY HeadTailProperties, LenProperties, EmptySeq
<1>2. /\ DOMAIN s = 1..Len(s) /\ DOMAIN Tail(s) = 1..(Len(s) - 1)
  BY <1>1, LenProperties
<1>3. ASSUME NEW i \in DOMAIN s PROVE s[i] \in {Head(s)} \cup ToSet(Tail(s))
  <2>1. CASE i = 1
    BY <1>1, <2>1
  <2>2. CASE i # 1
    <3>1. i - 1 \in DOMAIN Tail(s) /\ Tail(s)[i - 1] = s[i]
      BY <1>1, <1>2, <2>2
    <3> QED BY <3>1 DEF ToSet
  <2> QED BY <2>1, <2>2
<1>4. ASSUME NEW i \in DOMAIN Tail(s) PROVE Tail(s)[i] \in ToSet(s)
  <2>1. i + 1 \in DOMAIN s /\ Tail(s)[i] = s[i + 1]
    BY <1>1, <1>2
  <2> QED BY <2>1 DEF ToSet
<1>5. Head(s) \in ToSet(s)
  BY <1>1, <1>2 DEF ToSet
<1>6. ToSet(s) = {Head(s)} \cup ToSet(Tail(s))
  BY <1>3, <1>4, <1>5 DEF ToSet
<1> QED BY <1>1, <1>6, ListsItself

\* Whatever the order, every call is in it.
LEMMA OrderedListed ==
    ASSUME NEW calls, IsFiniteSet(calls), NEW s \in SetToSeqs(calls)
    PROVE  s \in Seq(ToSet(s)) /\ ToSet(s) = calls
<1> DEFINE n == Cardinality(calls)
<1>1. s \in Injection(1..n, calls) /\ s \in [1..n -> calls]
  BY DEF SetToSeqs, Injection, IsInjective
<1>2. n \in Nat
  BY FS_CardinalityType
<1>3. Cardinality(1..n) = n
  BY <1>2, FS_Interval
<1>4. s \in Surjection(1..n, calls)
  BY <1>1, <1>3, FS_Injection
<1>5. ToSet(s) = calls
  BY <1>1, <1>4 DEF Surjection, ToSet
<1> QED BY <1>1, <1>2, <1>5, SeqDef

LEMMA CallsListed ==
    ASSUME NEW call, NEW as, NEW paths, paths \in Seq(ToSet(paths))
    PROVE  /\ Calls(call, paths, as) \in Seq(ToSet(Calls(call, paths, as)))
           /\ ToSet(Calls(call, paths, as)) = {Call(call, p, as) : p \in ToSet(paths)}
<1> DEFINE s == Calls(call, paths, as)
<1>1. DOMAIN s = DOMAIN paths /\ \A i \in DOMAIN paths : s[i] = Call(call, paths[i], as)
  BY DEF Calls
<1>2. DOMAIN paths = 1..Len(paths) /\ Len(paths) \in Nat
  BY LenProperties
<1>3. s = [i \in 1..Len(paths) |-> s[i]]
  BY <1>2 DEF Calls
<1>4. s \in [1..Len(paths) -> ToSet(s)]
  BY <1>1, <1>2, <1>3 DEF ToSet
<1>5. ToSet(s) = {Call(call, p, as) : p \in ToSet(paths)}
  BY <1>1 DEF ToSet
<1> DEFINE n == Len(paths)
           T == ToSet(s)
<1>6. n \in Nat /\ s \in [1..n -> T]
  BY <1>2, <1>4
<1> SUFFICES s \in Seq(T)
  BY <1>5
<1> HIDE DEF s, n, T
<1> QED BY <1>6, SeqDef

LEMMA NeitherHasAny ==
    ASSUME NEW a \in Seq(Codes), NEW b \in Seq(Codes), a \o b = <<>>
    PROVE  a = <<>> /\ b = <<>>
<1>1. Len(a \o b) = Len(a) + Len(b) /\ Len(a \o b) = 0
  BY ConcatProperties
<1>2. Len(a) = 0 /\ Len(b) = 0
  BY <1>1, LenProperties
<1> QED BY <1>2, EmptySeq

-----------------------------------------------------------------------------
(* Whoever is absent was looked for.                                         *)

\* The call that looks into a place, and the one that says what is under it.
Looks(f, p) ==
    IF p \in ToSet(Named[f]) THEN Call("read", p, IF f = "script" THEN "shared" ELSE "named")
    ELSE Call(IF Queued(f) THEN "run" ELSE "read", p, "entry")
Lists(f, p) == Call(IF Queued(f) THEN "run" ELSE "list", p, "root")
Refers(e) == Call("read", e, "environment")

\* A place a walk has yet to look into: that call is ahead, or a listing of what
\* it is under.
Ahead(f, p, calls) ==
    \/ Looks(f, p) \in calls
    \/ /\ p \notin ToSet(Named[f])
       /\ \E n \in 1..Len(p) - 1 : Lists(f, SubSeq(p, 1, n)) \in calls

Empty(e) == Fails(e) = "no" /\ Consumers(host[e].text) = 0

\* One it has: nothing was found there, and what it refers to is empty or ahead.
Seen(f, p, calls) ==
    /\ Fails(p) = "no"
    /\ LookedInto(f, p) => Consumers(host[p].text) = 0
    /\ Unit(f) \/ Tabular(f) => ~host[p].text.variable
    /\ Unit(f) => \A e \in ToSet(host[p].text.refers) :
                      Steady(e) => Empty(e) \/ Refers(e) \in calls

Covered(f, calls) ==
    \A p \in Territory(f) : Steady(p) => Ahead(f, p, calls) \/ Seen(f, p, calls)

\* A walk, and a family, that found nothing and missed nothing so far.
Clear(w) ==
    /\ ~w.ledger.exhausted /\ w.ledger.errors = <<>>
    /\ w.attributed = 0 /\ w.unattributed = 0
ClearOutcome(o) ==
    o.scan.attempted /\ o.scan.completed /\ o.scan.errors = <<>> /\ o.scan.found = 0

IsTally(w) ==
    /\ IsWalk(w)
    /\ w.attributed \in Nat /\ w.unattributed \in Nat
    /\ w.todo \in Seq(ToSet(w.todo))

\* As long as a walk found nothing and missed nothing, it has every place that was
\* there all along behind it or ahead.
Looking ==
    /\ walk # None => /\ IsTally(walk)
                      /\ Clear(walk) => Covered(Current, ToSet(walk.todo))
    /\ \A f \in DOMAIN outcomes : ClearOutcome(outcomes[f]) => Covered(f, {})

\* What a walk does to its record of itself leaves it a walk, and what makes it
\* less than clear does not go away.
LEMMA ExhaustTally ==
    ASSUME NEW w, IsTally(w)
    PROVE  IsTally(Exhaust(w)) /\ ~Clear(Exhaust(w))
<1>1. IsWalk(w) /\ w.attributed \in Nat /\ w.unattributed \in Nat /\ w.todo \in Seq(ToSet(w.todo))
  BY DEF IsTally
<1>2. IsWalk(Exhaust(w))
  BY <1>1, WalkKept
<1> QED BY <1>1, <1>2 DEF IsTally, IsWalk, Exhaust, Clear

LEMMA NoteTally ==
    ASSUME NEW w, IsTally(w), NEW codes \in Seq(Codes)
    PROVE  /\ IsTally(Note(w, codes)) /\ Note(w, codes).todo = w.todo
           /\ Clear(Note(w, codes)) => Clear(w) /\ codes = <<>>
<1>1. IsWalk(w) /\ w.attributed \in Nat /\ w.unattributed \in Nat /\ w.todo \in Seq(ToSet(w.todo))
  BY DEF IsTally
<1>2. IsWalk(Note(w, codes))
  BY <1>1, WalkKept
<1>3. /\ Note(w, codes).todo = w.todo
      /\ Note(w, codes).attributed = w.attributed
      /\ Note(w, codes).unattributed = w.unattributed
      /\ Note(w, codes).ledger.exhausted = w.ledger.exhausted
      /\ Note(w, codes).ledger.errors = w.ledger.errors \o codes
  BY <1>1 DEF IsWalk, Note
<1>4. w.ledger.errors \o codes = <<>> => w.ledger.errors = <<>> /\ codes = <<>>
  BY <1>1, NeitherHasAny DEF IsWalk
<1> QED BY Zenon, <1>1, <1>2, <1>3, <1>4 DEF IsTally, Clear

LEMMA CountTally ==
    ASSUME NEW w, IsTally(w), NEW as, NEW n \in Nat
    PROVE  /\ IsTally(Count(w, as, n)) /\ Count(w, as, n).todo = w.todo
           /\ Clear(Count(w, as, n)) => Clear(w) /\ n = 0
<1>1. IsWalk(w) /\ w.attributed \in Nat /\ w.unattributed \in Nat /\ w.todo \in Seq(ToSet(w.todo))
  BY DEF IsTally
<1>2. IsWalk(Count(w, as, n))
  BY <1>1, WalkKept
<1>3. /\ Count(w, as, n).todo = w.todo /\ Count(w, as, n).ledger = w.ledger
      /\ \/ /\ Count(w, as, n).attributed = w.attributed
            /\ Count(w, as, n).unattributed = w.unattributed + n
         \/ /\ Count(w, as, n).attributed = w.attributed + n
            /\ Count(w, as, n).unattributed = w.unattributed
  BY <1>1 DEF IsWalk, Count
<1> DEFINE v == Count(w, as, n)
<1> HIDE DEF v
<1>4. v.attributed \in Nat /\ v.unattributed \in Nat
  <2>1. \A m \in Nat : m + n \in Nat
    OBVIOUS
  <2> QED BY Zenon, <1>1, <1>3, <2>1 DEF v
<1>5. v.attributed = 0 /\ v.unattributed = 0
        => w.attributed = 0 /\ w.unattributed = 0 /\ n = 0
  BY <1>1, <1>3 DEF v
<1>6. IsTally(v)
  BY Zenon, <1>1, <1>2, <1>3, <1>4 DEF IsTally, v
<1>7. Clear(v) => Clear(w) /\ n = 0
  BY Zenon, <1>3, <1>5 DEF Clear, v
<1> QED BY <1>3, <1>6, <1>7 DEF v

LEMMA QueueTally ==
    ASSUME NEW w, IsTally(w), NEW calls, calls \in Seq(ToSet(calls))
    PROVE  /\ IsTally(Queue(w, calls))
           /\ ToSet(Queue(w, calls).todo) = ToSet(w.todo) \cup ToSet(calls)
           /\ Clear(Queue(w, calls)) => Clear(w)
<1>1. IsWalk(w) /\ w.attributed \in Nat /\ w.unattributed \in Nat /\ w.todo \in Seq(ToSet(w.todo))
  BY DEF IsTally
<1>2. IsWalk(Queue(w, calls))
  BY <1>1, WalkKept
<1>3. /\ Queue(w, calls).todo \in {w.todo \o calls, calls \o w.todo}
      /\ Queue(w, calls).ledger = w.ledger
      /\ Queue(w, calls).attributed = w.attributed
      /\ Queue(w, calls).unattributed = w.unattributed
  BY <1>1 DEF IsWalk, Queue
<1>4. /\ w.todo \o calls \in Seq(ToSet(w.todo \o calls))
      /\ ToSet(w.todo \o calls) = ToSet(w.todo) \cup ToSet(calls)
  BY <1>1, BothListed
<1>5. /\ calls \o w.todo \in Seq(ToSet(calls \o w.todo))
      /\ ToSet(calls \o w.todo) = ToSet(w.todo) \cup ToSet(calls)
  BY <1>1, BothListed
<1> QED BY <1>1, <1>2, <1>3, <1>4, <1>5 DEF IsTally, Clear

LEMMA TodoTally ==
    ASSUME NEW w, IsTally(w), NEW todo, todo \in Seq(ToSet(todo))
    PROVE  /\ IsTally([w EXCEPT !.todo = todo]) /\ [w EXCEPT !.todo = todo].todo = todo
           /\ Clear([w EXCEPT !.todo = todo]) => Clear(w)
<1>1. IsWalk(w) /\ w.attributed \in Nat /\ w.unattributed \in Nat /\ w.todo \in Seq(ToSet(w.todo))
  BY DEF IsTally
<1> QED BY <1>1 DEF IsTally, IsWalk, Clear

LEMMA FilesTally ==
    ASSUME NEW w, IsTally(w), NEW n
    PROVE  /\ IsTally([w EXCEPT !.ledger.files = n])
           /\ [w EXCEPT !.ledger.files = n].todo = w.todo
           /\ Clear([w EXCEPT !.ledger.files = n]) => Clear(w)
<1>1. IsWalk(w) /\ w.attributed \in Nat /\ w.unattributed \in Nat /\ w.todo \in Seq(ToSet(w.todo))
  BY DEF IsTally
<1> QED BY <1>1 DEF IsTally, IsWalk, Clear

LEMMA BytesTally ==
    ASSUME NEW w, IsTally(w), NEW n
    PROVE  /\ IsTally([w EXCEPT !.ledger.bytes = n])
           /\ [w EXCEPT !.ledger.bytes = n].todo = w.todo
           /\ Clear([w EXCEPT !.ledger.bytes = n]) => Clear(w)
<1>1. IsWalk(w) /\ w.attributed \in Nat /\ w.unattributed \in Nat /\ w.todo \in Seq(ToSet(w.todo))
  BY DEF IsTally
<1> QED BY <1>1 DEF IsTally, IsWalk, Clear

LEMMA CallsAreFinite ==
    ASSUME NEW paths \in SUBSET Places, NEW call, NEW as
    PROVE  IsFiniteSet({Call(call, p, as) : p \in paths})
<1> DEFINE T == {Call(call, p, as) : p \in paths}
           g == [p \in paths |-> Call(call, p, as)]
<1>1. IsFiniteSet(paths)
  BY CensusAssumption, FS_Subset
<1>2. g \in Surjection(paths, T)
  BY DEF Surjection
<1> HIDE DEF g, T
<1>3. IsFiniteSet(T)
  BY <1>1, <1>2, FS_Surjection
<1> QED BY <1>3 DEF T

LEMMA EntriesAreFinite ==
    ASSUME NEW f, NEW paths \in SUBSET Places
    PROVE  IsFiniteSet(Entries(f, paths))
<1> DEFINE L == {Call("list", p, "root") : p \in paths}
           R == {Call("read", p, "entry") : p \in paths}
           J == {Call("run", p, "entry") : p \in paths}
<1>1. IsFiniteSet(L) /\ IsFiniteSet(R) /\ IsFiniteSet(J)
  BY CallsAreFinite
<1>2. Entries(f, paths) \subseteq L \cup R \cup J
  <2>1. ASSUME NEW p \in paths PROVE Follow(f, p) \subseteq L \cup R \cup J
    <3>1. Follow(f, p) \subseteq {Call("list", p, "root"), Call("read", p, "entry"),
                                  Call("run", p, "entry")}
      BY DEF Follow
    <3> QED BY <3>1
  <2> QED BY <2>1 DEF Entries
<1> HIDE DEF L, R, J
<1> QED BY <1>1, <1>2, FS_Union, FS_Subset

\* Where a place is there, so is all it is under, and each lists the next.
LEMMA FoundUnder ==
    ASSUME host \in Hosts, NEW p \in Places, Fails(p) # "missing", Len(p) \in {2, 3},
           NEW n \in 1..Len(p) - 1
    PROVE  /\ Fails(SubSeq(p, 1, n)) # "missing"
           /\ SubSeq(p, 1, n + 1) \in Under(SubSeq(p, 1, n))
           /\ Len(SubSeq(p, 1, n + 1)) = n + 1
           /\ Last(SubSeq(p, 1, n + 1)) = p[n + 1]
           /\ n + 1 = Len(p) => SubSeq(p, 1, n + 1) = p
<1> DEFINE S == ToSet(p)
<1>1. p \in Seq(S) /\ p # <<>>
  BY CensusAssumption
<1>2. ASSUME NEW m \in 1..Len(p)
      PROVE  /\ SubSeq(p, 1, m) \in Seq(S) /\ Len(SubSeq(p, 1, m)) = m
             /\ \A i \in 1..m : SubSeq(p, 1, m)[i] = p[i]
  BY <1>1, SubSeqProperties
<1>3. SubSeq(p, 1, Len(p)) = p
  BY <1>1, SubSeqFull
<1>4. ASSUME NEW q \in Places, Fails(q) # "missing", Len(q) > 1
      PROVE  Front(q) \in Places /\ Fails(Front(q)) # "missing"
  BY <1>4, CensusAssumption DEF Fails
<1>5. ASSUME NEW m \in 1..Len(p) - 1 PROVE Front(SubSeq(p, 1, m + 1)) = SubSeq(p, 1, m)
  <2> DEFINE q == SubSeq(p, 1, m + 1)
  <2>1. /\ m + 1 \in 1..Len(p) /\ m \in 1..Len(p) /\ (m + 1) - 1 = m
        /\ m \in 1..m + 1 /\ 1..m \subseteq 1..m + 1
    BY <1>1, LenProperties
  <2>2. /\ q \in Seq(S) /\ Len(q) = m + 1
        /\ \A i \in 1..m + 1 : q[i] = p[i]
    BY <1>2, <2>1
  <2> HIDE DEF q
  <2>3. Front(q) = SubSeq(q, 1, m)
    BY <2>1, <2>2 DEF Front
  <2>4. /\ SubSeq(q, 1, m) \in Seq(S) /\ Len(SubSeq(q, 1, m)) = m
        /\ \A i \in 1..m : SubSeq(q, 1, m)[i] = q[i]
    BY <2>1, <2>2, SubSeqProperties
  <2>5. /\ SubSeq(p, 1, m) \in Seq(S) /\ Len(SubSeq(p, 1, m)) = m
        /\ \A i \in 1..m : SubSeq(p, 1, m)[i] = p[i]
    BY <1>2, <2>1
  <2>6. \A i \in 1..m : SubSeq(q, 1, m)[i] = SubSeq(p, 1, m)[i]
    BY <2>1, <2>2, <2>4, <2>5
  <2>7. SubSeq(q, 1, m) = SubSeq(p, 1, m)
    BY <2>4, <2>5, <2>6, SeqEqual
  <2> QED BY <2>3, <2>7 DEF q
<1>6. ASSUME NEW m \in 1..Len(p)
      PROVE  SubSeq(p, 1, m) \in Places /\ Fails(SubSeq(p, 1, m)) # "missing"
  <2>1. ASSUME NEW k \in 1..Len(p) - 1, SubSeq(p, 1, k + 1) \in Places,
               Fails(SubSeq(p, 1, k + 1)) # "missing"
        PROVE  SubSeq(p, 1, k) \in Places /\ Fails(SubSeq(p, 1, k)) # "missing"
    <3>1. k + 1 \in 1..Len(p) /\ k + 1 > 1
      BY <1>1, LenProperties
    <3> QED BY <1>2, <1>4, <1>5, <2>1, <3>1
  <2>2. CASE m = Len(p)
    BY <1>3, <2>2
  <2>3. CASE m = Len(p) - 1
    <3>1. m \in 1..Len(p) - 1 /\ m + 1 = Len(p)
      BY <2>3
    <3> QED BY <1>3, <2>1, <3>1
  <2>4. CASE m = 1 /\ Len(p) = 3
    <3>1. /\ 2 \in 1..Len(p) - 1 /\ 2 + 1 = Len(p)
          /\ 1 \in 1..Len(p) - 1 /\ 1 + 1 = 2
      BY <2>4
    <3>2. SubSeq(p, 1, 2) \in Places /\ Fails(SubSeq(p, 1, 2)) # "missing"
      BY <1>3, <2>1, <3>1
    <3> QED BY <2>1, <2>4, <3>1, <3>2
  <2>5. m = Len(p) \/ m = Len(p) - 1 \/ (m = 1 /\ Len(p) = 3)
    <3>1. \A l \in {2, 3} : \A k \in 1..l : k = l \/ k = l - 1 \/ (k = 1 /\ l = 3)
      OBVIOUS
    <3> QED BY Zenon, <3>1
  <2> QED BY Zenon, <2>2, <2>3, <2>4, <2>5
<1>7. /\ n \in 1..Len(p) /\ n + 1 \in 1..Len(p) /\ n + 1 > 1
      /\ n + 1 \in 1..n + 1
  BY <1>1, LenProperties
<1>8. Last(SubSeq(p, 1, n + 1)) = p[n + 1]
  BY <1>2, <1>7 DEF Last
<1> QED BY <1>2, <1>3, <1>5, <1>6, <1>7, <1>8 DEF Under

\* A place of a family that it does not know by name is found under one of its
\* directories, or in its program's queue, by listings that lead to it.
LEMMA LedTo ==
    ASSUME host \in Hosts, NEW f \in Families, NEW p \in Territory(f),
           p \notin ToSet(Named[f])
    PROVE  /\ p \in Places /\ Len(p) \in {2, 3} /\ SubSeq(p, 1, 1) \in ToSet(Directories[f])
           /\ Fails(p) # "missing" =>
                \A n \in 1..Len(p) - 1 :
                    Follow(f, SubSeq(p, 1, n + 1)) =
                        {IF n + 1 = Len(p) THEN Looks(f, p) ELSE Lists(f, SubSeq(p, 1, n + 1))}
<1>1. /\ p \in Places /\ Len(p) = IF f \in {"systemd_dropin", "compose"} THEN 3 ELSE 2
      /\ <<Head(p)>> \in ToSet(Directories[f])
      /\ f = "systemd_service" => KindOf[p[2]] = "service"
      /\ f = "systemd_timer" => KindOf[p[2]] = "timer"
      /\ f = "systemd_dropin" => KindOf[p[2]] = "dropins" /\ KindOf[p[3]] = "conf"
      /\ Tabular(f) => KindOf[p[2]] # "backup"
      /\ f = "compose" => KindOf[p[3]] \in {"compose", "env"}
  BY DEF Territory, Inside, Tabular
<1>2. SubSeq(p, 1, 1) = <<Head(p)>>
  <2>1. p \in Seq(ToSet(p)) /\ Len(p) \in {2, 3}
    BY <1>1, CensusAssumption
  <2>2. /\ SubSeq(p, 1, 1) \in Seq(ToSet(p)) /\ Len(SubSeq(p, 1, 1)) = 1
        /\ SubSeq(p, 1, 1)[1] = p[1] /\ Head(p) = p[1] /\ p[1] \in ToSet(p)
    <3>1. DOMAIN p = 1..Len(p)
      BY <2>1, LenProperties
    <3> QED BY <2>1, <3>1, SubSeqProperties DEF ToSet
  <2>3. <<p[1]>> \in Seq(ToSet(p)) /\ Len(<<p[1]>>) = 1 /\ <<p[1]>>[1] = p[1]
    BY <2>2
  <2>4. SubSeq(p, 1, 1) = <<p[1]>>
    <3>1. \A i \in 1..1 : i = 1
      OBVIOUS
    <3>2. \A i \in 1..Len(SubSeq(p, 1, 1)) : SubSeq(p, 1, 1)[i] = <<p[1]>>[i]
      BY Zenon, <2>2, <2>3, <3>1
    <3> HIDE DEF ToSet
    <3> QED BY Zenon, <2>2, <2>3, <3>2, SeqEqual
  <2> QED BY <2>2, <2>4
<1>3. ASSUME Fails(p) # "missing", NEW n \in 1..Len(p) - 1
      PROVE  Follow(f, SubSeq(p, 1, n + 1)) =
                 {IF n + 1 = Len(p) THEN Looks(f, p) ELSE Lists(f, SubSeq(p, 1, n + 1))}
  <2> DEFINE q == SubSeq(p, 1, n + 1)
  <2>1. Len(q) = n + 1 /\ Last(q) = p[n + 1] /\ (n + 1 = Len(p) => q = p)
    BY <1>1, <1>3, FoundUnder
  <2> HIDE DEF q
  <2>2. CASE f \in {"systemd_dropin", "compose"}
    <3>1. Len(p) = 3 /\ n \in {1, 2} /\ ~Queued(f) /\ ~Tabular(f)
      BY <1>1, <2>2 DEF Queued, Tabular
    <3>2. CASE n = 1
      <4>1. Follow(f, q) = {Call("list", q, "root")}
        BY <1>1, <2>1, <2>2, <3>1, <3>2 DEF Follow
      <4> QED BY <3>1, <3>2, <4>1 DEF Lists, q
    <3>3. CASE n = 2
      <4>1. Follow(f, q) = {Call("read", p, "entry")}
        BY <1>1, <2>1, <2>2, <3>1, <3>3 DEF Follow
      <4> QED BY <3>1, <3>3, <4>1 DEF Looks, q
    <3> QED BY <3>1, <3>2, <3>3
  <2>3. CASE f \notin {"systemd_dropin", "compose"}
    <3>1. Len(p) = 2 /\ n = 1 /\ q = p /\ Last(q) = p[2]
      BY <1>1, <2>1, <2>3
    <3>2. Follow(f, q) = {Call(IF Queued(f) THEN "run" ELSE "read", p, "entry")}
      BY <1>1, <2>1, <2>3, <3>1 DEF Follow, Queued, Tabular
    <3> QED BY <3>1, <3>2 DEF Looks, q
  <2> QED BY <2>2, <2>3
<1> QED BY <1>1, <1>2, <1>3

\* Every place of a family is on the way of some call it begins with, and it refers
\* to nothing yet.
LEMMA OpeningAhead ==
    ASSUME host \in Hosts, NEW f \in Families
    PROVE  /\ Opening(f) \in Seq(ToSet(Opening(f)))
           /\ \A p \in Territory(f) : Ahead(f, p, ToSet(Opening(f)))
           /\ \A c \in ToSet(Opening(f)) : c.as # "environment"
<1> DEFINE as == IF f = "script" THEN "shared" ELSE "named"
           kind == IF Queued(f) THEN "run" ELSE "list"
           lists == Calls(kind, Directories[f], "root")
           reads == Calls("read", Named[f], as)
<1>1. /\ lists \in Seq(ToSet(lists)) /\ reads \in Seq(ToSet(reads))
      /\ ToSet(lists) = {Call(kind, p, "root") : p \in ToSet(Directories[f])}
      /\ ToSet(reads) = {Call("read", p, as) : p \in ToSet(Named[f])}
  BY CensusAssumption, CallsListed
<1>2. Opening(f) \in {lists \o reads, reads \o lists}
  BY DEF Opening
<1> HIDE DEF lists, reads
<1>3. /\ Opening(f) \in Seq(ToSet(Opening(f)))
      /\ ToSet(Opening(f)) = ToSet(lists) \cup ToSet(reads)
  <2>1. /\ lists \o reads \in Seq(ToSet(lists \o reads))
        /\ ToSet(lists \o reads) = ToSet(lists) \cup ToSet(reads)
    BY <1>1, BothListed
  <2>2. /\ reads \o lists \in Seq(ToSet(reads \o lists))
        /\ ToSet(reads \o lists) = ToSet(lists) \cup ToSet(reads)
    BY <1>1, BothListed
  <2> QED BY <1>2, <2>1, <2>2
<1>4. ASSUME NEW p \in Territory(f)
      PROVE  Ahead(f, p, ToSet(Opening(f)))
  <2>1. CASE p \in ToSet(Named[f])
    BY <1>1, <1>3, <2>1 DEF Ahead, Looks
  <2>2. CASE p \notin ToSet(Named[f])
    <3>1. Len(p) \in {2, 3} /\ SubSeq(p, 1, 1) \in ToSet(Directories[f])
      BY <2>2, LedTo
    <3>2. Lists(f, SubSeq(p, 1, 1)) = Call(kind, SubSeq(p, 1, 1), "root")
      BY DEF Lists
    <3>3. Lists(f, SubSeq(p, 1, 1)) \in ToSet(Opening(f))
      BY <1>1, <1>3, <3>1, <3>2
    <3>4. 1 \in 1..Len(p) - 1
      <4>1. \A l \in {2, 3} : 1 \in 1..l - 1
        OBVIOUS
      <4> QED BY Zenon, <3>1, <4>1
    <3> QED BY <2>2, <3>3, <3>4 DEF Ahead
  <2> QED BY <2>1, <2>2
<1>5. \A c \in ToSet(Opening(f)) : c.as # "environment"
  BY <1>1, <1>3 DEF Call
<1> QED BY <1>3, <1>4, <1>5

LEMMA OpeningCovers ==
    ASSUME host \in Hosts, NEW f \in Families
    PROVE  Opening(f) \in Seq(ToSet(Opening(f))) /\ Covered(f, ToSet(Opening(f)))
  BY OpeningAhead DEF Covered

\* What is covered is said of the host, and of the places that changed.
LEMMA CoveredSame ==
    ASSUME UNCHANGED <<host, touched>>
    PROVE  \A f, calls : Covered(f, calls)' <=> Covered(f, calls)
<1>1. \A p : Steady(p)' <=> Steady(p)
  BY DEF Steady, Fails
<1>2. \A f, p : (p \in Territory(f))' <=> p \in Territory(f)
  BY DEF Territory, Inside
<1>3. \A f, p, calls : Ahead(f, p, calls)' <=> Ahead(f, p, calls)
  BY DEF Ahead, Looks, Lists
<1>4. \A f, p, calls : Seen(f, p, calls)' <=> Seen(f, p, calls)
  <2>1. \A e : Empty(e)' <=> Empty(e)
    BY DEF Empty, Fails
  <2>2. \A f, p : LookedInto(f, p)' <=> LookedInto(f, p)
    BY DEF LookedInto
  <2> QED BY <1>1, <2>1, <2>2 DEF Seen, Fails, Refers
<1> QED BY <1>1, <1>2, <1>3, <1>4 DEF Covered

LEMMA WalkCoveredSame ==
    ASSUME UNCHANGED <<host, touched>>, Current' = Current,
           Covered(Current, ToSet(walk'.todo))
    PROVE  Covered(Current, ToSet(walk.todo))'
  BY CoveredSame

\* Before the host changed, what is covered now was.
LEMMA ChangeCovers ==
    ASSUME host \in Hosts, Change, NEW f, NEW calls, Covered(f, calls)
    PROVE  Covered(f, calls)'
<1>1. ASSUME NEW p, Steady(p)'
      PROVE  Steady(p) /\ p \in Places /\ host'[p] = host[p] /\ Fails(p)' = Fails(p)
  <2>1. /\ host' \in Hosts /\ touched' = touched \cup {q \in Places : host'[q] # host[q]}
    BY DEF Change
  <2>2. Fails(p)' # "missing" /\ \A n \in 1..Len(p) : SubSeq(p, 1, n) \notin touched'
    BY <1>1 DEF Steady
  <2>3. p \in Places
    BY <2>2 DEF Fails
  <2>4. p \in Seq(ToSet(p)) /\ p # <<>>
    BY <2>3, CensusAssumption
  <2>5. Len(p) \in 1..Len(p) /\ SubSeq(p, 1, Len(p)) = p
    <3>1. Len(p) \in Nat /\ Len(p) # 0
      BY <2>4, LenProperties, EmptySeq
    <3>2. SubSeq(p, 1, Len(p)) = p
      BY <2>4, <3>1, SubSeqFull
    <3> QED BY <3>1, <3>2
  <2>6. host'[p] = host[p]
    BY <2>1, <2>2, <2>3, <2>5
  <2> QED BY <1>1, <2>3, <2>6, SteadyBefore DEF Fails
<1>2. ASSUME NEW p, p \in Territory(f), Steady(p)'
      PROVE  Ahead(f, p, calls)' \/ Seen(f, p, calls)'
  <2>1. Steady(p) /\ p \in Places /\ host'[p] = host[p] /\ Fails(p)' = Fails(p)
    BY <1>1, <1>2
  <2>2. CASE Ahead(f, p, calls)
    BY <2>2 DEF Ahead, Looks, Lists
  <2>3. CASE Seen(f, p, calls)
    <3>1. LookedInto(f, p)' <=> LookedInto(f, p)
      BY <2>1 DEF LookedInto
    <3>2. ASSUME NEW e \in ToSet(host[p].text.refers), Unit(f), Steady(e)'
          PROVE  Empty(e)' \/ (Refers(e) \in calls)
      <4>1. Steady(e) /\ host'[e] = host[e] /\ Fails(e)' = Fails(e)
        BY <1>1, <3>2
      <4> QED BY <2>3, <3>2, <4>1 DEF Seen, Empty
    <3> QED BY <2>1, <2>3, <3>1, <3>2 DEF Seen, Refers
  <2> QED BY <1>2, <2>1, <2>2, <2>3 DEF Covered
<1>3. \A p : (p \in Territory(f))' <=> p \in Territory(f)
  BY DEF Territory, Inside
<1> QED BY <1>2, <1>3 DEF Covered

\* A call that is made leaves what it was to cover covered, if what it looked into
\* was empty, and what it listed is ahead.
LEMMA CallCovers ==
    ASSUME NEW f, NEW c, NEW before, NEW after,
           Covered(f, before), before \subseteq {c} \cup after,
           \A p \in Territory(f) : Steady(p) /\ Looks(f, p) = c => Seen(f, p, after),
           \A p \in Territory(f) : \A n \in 1..Len(p) - 1 :
               Steady(p) /\ p \notin ToSet(Named[f]) /\ Lists(f, SubSeq(p, 1, n)) = c
                   => Ahead(f, p, after),
           \A e : Steady(e) /\ Refers(e) = c => Empty(e)
    PROVE  Covered(f, after)
<1> SUFFICES ASSUME NEW p \in Territory(f), Steady(p)
             PROVE  Ahead(f, p, after) \/ Seen(f, p, after)
  BY DEF Covered
<1>1. CASE Looks(f, p) \in before
  BY <1>1 DEF Ahead
<1>2. CASE /\ p \notin ToSet(Named[f])
           /\ \E n \in 1..Len(p) - 1 : Lists(f, SubSeq(p, 1, n)) \in before
  BY <1>2 DEF Ahead
<1>3. CASE Seen(f, p, before)
  BY <1>3 DEF Seen
<1> QED BY <1>1, <1>2, <1>3 DEF Covered, Ahead

\* A text that was parsed without a finding holds none, and what it refers to is
\* ahead.
LEMMA ParsedClear ==
    ASSUME NEW w, IsTally(w), NEW p, NEW as, NEW text,
           text.dsns \in Nat, text.malformed \in Nat,
           text.refers \in Seq(ToSet(text.refers)),
           Parse(w, p, as, text)
    PROVE  \/ \E o : ~ClearOutcome(o) /\ Keep(o)
           \/ /\ UNCHANGED <<family, outcomes>> /\ IsTally(walk')
              /\ Clear(walk') =>
                   /\ Clear(w) /\ ToSet(w.todo) \subseteq ToSet(walk'.todo)
                   /\ Parsed(Current, as, text) =>
                        /\ Consumers(text) = 0
                        /\ (Unit(Current) \/ Tabular(Current)) /\ as # "environment"
                               => ~text.variable
                        /\ Unit(Current) /\ as = "entry" =>
                               \A e \in ToSet(text.refers) : Refers(e) \in ToSet(walk'.todo)
<1>1. CASE ~Parsed(Current, as, text)
  BY <1>1 DEF Parse
<1>2. CASE Parsed(Current, as, text) /\ Raises(text)
  <2> DEFINE o == Outcome(Note(Walking(<<>>), <<"unknown">>), TRUE)
  <2>1. Keep(o)
    BY <1>2 DEF Parse
  <2>2. o.scan.errors # <<>>
    <3>1. o.scan.errors = <<>> \o <<"unknown">>
      BY DEF Outcome, Note, Walking, Ledger
    <3>2. <<>> \o <<"unknown">> = <<"unknown">> /\ <<"unknown">> # <<>>
      OBVIOUS
    <3> QED BY <3>1, <3>2
  <2> QED BY <2>1, <2>2 DEF ClearOutcome
<1>3. CASE Parsed(Current, as, text) /\ ~Raises(text)
  <2> DEFINE n == Consumers(text)
             notes == Notes(Current, as, text)
             calls == Referred(Current, as, text)
             counted == Count(w, as, n)
             noted == Note(counted, notes)
  <2>1. walk' = Queue(noted, calls) /\ UNCHANGED <<family, outcomes>>
    BY <1>3 DEF Parse
  <2>2. n \in Nat
    BY DEF Consumers
  <2>3. notes \in Seq(Codes)
    BY NotesAreCodes
  <2>4. /\ calls \in Seq(ToSet(calls))
        /\ Unit(Current) /\ as = "entry" =>
             ToSet(calls) = {Refers(e) : e \in ToSet(text.refers)}
    <3>1. CASE Unit(Current) /\ as = "entry"
      BY <3>1, CallsListed DEF Referred, Refers
    <3>2. CASE ~(Unit(Current) /\ as = "entry")
      <4>1. calls = <<>> /\ <<>> \in Seq(ToSet(<<>>))
        BY <3>2, EmptySeq DEF Referred
      <4> QED BY <3>2, <4>1
    <3> QED BY <3>1, <3>2
  <2>5. notes = <<>> /\ (Unit(Current) \/ Tabular(Current)) /\ as # "environment" => ~text.variable
    <3> DEFINE a == Copies("parse", text.malformed)
               b == When(text.dsns + text.malformed = 0 /\ text.piecemeal /\ text.service,
                         "ambiguous")
               v == text.variable /\ (Unit(Current) \/ Tabular(Current)) /\ as # "environment"
               d == When(v, "dynamic")
               g == When(Current = "ci_runner", "dynamic")
               h == When(Current = "script" /\ as = "entry" /\ n = 0, "dynamic")
    <3>1. notes = (((a \o b) \o d) \o g) \o h
      BY DEF Notes
    <3>2. "parse" \in Codes /\ "ambiguous" \in Codes /\ "dynamic" \in Codes
      BY DEF Codes, SourceErrorClasses
    <3>3. /\ a \in Seq(Codes) /\ b \in Seq(Codes) /\ d \in Seq(Codes) /\ g \in Seq(Codes)
          /\ h \in Seq(Codes)
      BY Zenon, <3>2, CopiesAreCodes, WhenIsCodes
    <3>4. v => Len(d) = 1
      <4>1. v => d = Copies("dynamic", 1)
        BY DEF When
      <4> QED BY <3>2, <4>1, CopiesAreCodes
    <3> HIDE DEF a, b, d, g, h, notes
    <3>5. /\ \A x, y \in Seq(Codes) : x \o y \in Seq(Codes)
          /\ \A x, y \in Seq(Codes) : x \o y = <<>> => x = <<>> /\ y = <<>>
      BY ConcatProperties, NeitherHasAny
    <3>6. notes = <<>> => d = <<>>
      <4>1. /\ a \o b \in Seq(Codes) /\ (a \o b) \o d \in Seq(Codes)
            /\ ((a \o b) \o d) \o g \in Seq(Codes)
        BY Zenon, <3>3, <3>5
      <4>2. notes = <<>> => ((a \o b) \o d) \o g = <<>>
        BY Zenon, <3>1, <3>3, <3>5, <4>1
      <4>3. ((a \o b) \o d) \o g = <<>> => (a \o b) \o d = <<>>
        BY Zenon, <3>3, <3>5, <4>1
      <4>4. (a \o b) \o d = <<>> => d = <<>>
        BY Zenon, <3>3, <3>5, <4>1
      <4> QED BY Zenon, <4>2, <4>3, <4>4
    <3>7. d = <<>> => ~v
      <4>1. Len(<<>>) = 0 /\ 0 # 1
        OBVIOUS
      <4> QED BY Zenon, <3>4, <4>1
    <3> QED BY Zenon, <3>6, <3>7 DEF v
  <2> HIDE DEF n, notes, calls
  <2>6. /\ IsTally(counted) /\ counted.todo = w.todo
        /\ Clear(counted) => Clear(w) /\ n = 0
    BY <2>2, CountTally
  <2> HIDE DEF counted
  <2>7. /\ IsTally(noted) /\ noted.todo = w.todo
        /\ Clear(noted) => Clear(counted) /\ notes = <<>>
    BY <2>3, <2>6, NoteTally
  <2> HIDE DEF noted
  <2>8. /\ IsTally(walk') /\ ToSet(walk'.todo) = ToSet(w.todo) \cup ToSet(calls)
        /\ Clear(walk') => Clear(noted)
    BY <2>1, <2>4, <2>7, QueueTally
  <2> QED BY <2>1, <2>4, <2>5, <2>6, <2>7, <2>8 DEF n
<1> QED BY <1>1, <1>2, <1>3

LEMMA OnLooking ==
    ASSUME Looking, UNCHANGED <<host, touched, family, outcomes>>, IsTally(walk'),
           Clear(walk') => Covered(Current, ToSet(walk'.todo))
    PROVE  Looking'
<1>1. Current' = Current
  BY DEF Current
<1>2. Clear(walk') => Covered(Current, ToSet(walk.todo))'
  BY <1>1, WalkCoveredSame
<1>3. \A f \in DOMAIN outcomes : ClearOutcome(outcomes[f]) => Covered(f, {})'
  BY CoveredSame DEF Looking
<1> QED BY <1>2, <1>3 DEF Looking

LEMMA KeptLooking ==
    ASSUME Looking, UNCHANGED <<host, touched>>, NEW o, Keep(o),
           ClearOutcome(o) => Covered(Current, {})
    PROVE  Looking'
<1>1. /\ walk' = None
      /\ outcomes' = [f \in DOMAIN outcomes \cup {Current} |->
                          IF f = Current THEN o ELSE outcomes[f]]
  BY DEF Keep
<1>2. ASSUME NEW f \in DOMAIN outcomes', ClearOutcome(outcomes'[f])
      PROVE  Covered(f, {})
  <2>1. CASE f = Current
    <3>1. outcomes'[f] = o
      BY <1>1, <2>1
    <3> QED BY Zenon, <1>2, <2>1, <3>1
  <2>2. CASE f # Current
    <3>1. f \in DOMAIN outcomes /\ outcomes'[f] = outcomes[f]
      BY <1>1, <2>2
    <3> QED BY Zenon, <1>2, <3>1 DEF Looking
  <2> QED BY <2>1, <2>2
<1>3. \A f \in DOMAIN outcomes' : ClearOutcome(outcomes'[f]) => Covered(f, {})'
  BY <1>2, CoveredSame
<1> QED BY <1>1, <1>3 DEF Looking

\* A call is taken off the list.
LEMMA RestLooking ==
    ASSUME Looking, walk # None, walk.todo # <<>>
    PROVE  /\ IsTally(Rest)
           /\ Clear(Rest) => Clear(walk)
           /\ ToSet(walk.todo) = {Head(walk.todo)} \cup ToSet(Rest.todo)
<1>1. IsTally(walk) /\ walk.todo \in Seq(ToSet(walk.todo))
  BY DEF Looking, IsTally
<1>2. /\ Tail(walk.todo) \in Seq(ToSet(Tail(walk.todo)))
      /\ ToSet(walk.todo) = {Head(walk.todo)} \cup ToSet(Tail(walk.todo))
  BY <1>1, RestListed
<1>3. Rest = [walk EXCEPT !.todo = Tail(walk.todo)]
  BY <1>1 DEF Rest, IsTally, IsWalk
<1> QED BY <1>1, <1>2, <1>3, TodoTally

LEMMA Underneath == \A p : Under(p) \in SUBSET Places
  BY DEF Under

LEMMA CurrentIsFamily == Walked /\ family < Len(DeclaredFamilies) => Current \in Families
<1> SUFFICES ASSUME Walked, family < Len(DeclaredFamilies) PROVE Current \in Families
  OBVIOUS
<1>1. family + 1 \in 1..Len(DeclaredFamilies)
  BY FamiliesAreListed DEF Walked
<1> QED BY <1>1, FamiliesAreListed DEF Current

LEMMA MissingOnly == \A code : Classify(code) = "missing" <=> code = "missing"
  BY DEF Classify, SourceErrorClasses

\* Everything under a place that was listed is followed up.
LEMMA ListingCovers ==
    ASSUME host \in Hosts, NEW f \in Families, NEW q, NEW calls,
           Entries(f, Under(q)) \subseteq calls,
           NEW p \in Territory(f), Steady(p), p \notin ToSet(Named[f]),
           NEW n \in 1..Len(p) - 1, SubSeq(p, 1, n) = q
    PROVE  Ahead(f, p, calls) /\ Fails(q) # "missing"
<1>1. p \in Places /\ Len(p) \in {2, 3} /\ Fails(p) # "missing"
  BY LedTo DEF Steady
<1>2. /\ Fails(q) # "missing"
      /\ SubSeq(p, 1, n + 1) \in Under(q)
  BY <1>1, FoundUnder
<1>3. Follow(f, SubSeq(p, 1, n + 1)) =
          {IF n + 1 = Len(p) THEN Looks(f, p) ELSE Lists(f, SubSeq(p, 1, n + 1))}
  BY <1>1, LedTo
<1>4. Follow(f, SubSeq(p, 1, n + 1)) \subseteq calls
  BY <1>2 DEF Entries
<1>5. n + 1 = Len(p) \/ n + 1 \in 1..Len(p) - 1
  <2>1. \A l \in {2, 3} : \A m \in 1..l - 1 : m + 1 = l \/ m + 1 \in 1..l - 1
    OBVIOUS
  <2> QED BY Zenon, <1>1, <2>1
<1>6. CASE n + 1 = Len(p)
  BY <1>2, <1>3, <1>4, <1>6 DEF Ahead
<1>7. CASE n + 1 # Len(p)
  BY <1>2, <1>3, <1>4, <1>5, <1>7 DEF Ahead
<1> QED BY <1>6, <1>7

LEMMA ListLooking == Walked /\ Looking /\ List => Looking'
<1> SUFFICES ASSUME Walked, Looking, List PROVE Looking'
  OBVIOUS
<1> DEFINE c == Head(walk.todo)
           p == c.at
           code == Classify(Fails(p))
<1>1. /\ walk # None /\ walk.todo # <<>> /\ c.call = "list" /\ host \in Hosts
      /\ UNCHANGED <<host, touched, family, outcomes>>
      /\ Current \in Families
  BY CurrentIsFamily DEF List, Step, Walked
<1>2. /\ IsTally(Rest)
      /\ Clear(Rest) => Clear(walk)
      /\ ToSet(walk.todo) = {c} \cup ToSet(Rest.todo)
  BY <1>1, RestLooking
<1>3. PICK f : f = Current
  OBVIOUS
<1>4. Clear(walk) => Covered(f, ToSet(walk.todo))
  BY <1>1, <1>3 DEF Looking
<1> HIDE DEF c
<1>5. ASSUME NEW after, Clear(walk), ToSet(Rest.todo) \subseteq after,
             \A q \in Territory(f) : \A n \in 1..Len(q) - 1 :
                 Steady(q) /\ q \notin ToSet(Named[f]) /\ Lists(f, SubSeq(q, 1, n)) = c
                     => Ahead(f, q, after)
      PROVE  Covered(f, after)
  <2>1. \A q : Looks(f, q) # c /\ Refers(q) # c
    BY <1>1 DEF Looks, Refers, Call
  <2>2. ToSet(walk.todo) \subseteq {c} \cup after
    BY <1>2, <1>5
  <2> QED BY <1>4, <1>5, <2>1, <2>2, CallCovers
<1>6. ASSUME NEW q, NEW r, Lists(f, r) = c PROVE r = p
  BY <1>6 DEF Lists, Call
<1>7. CASE Fails(p) = "missing"
  <2>1. walk' = Rest
    BY <1>7, MissingOnly DEF List, c
  <2>2. ASSUME NEW q \in Territory(f), NEW n \in 1..Len(q) - 1,
               Steady(q), q \notin ToSet(Named[f]), Lists(f, SubSeq(q, 1, n)) = c
        PROVE  FALSE
    <3>1. SubSeq(q, 1, n) = p
      BY <1>6, <2>2
    <3>2. Fails(p) # "missing"
      BY <1>1, <1>3, <2>2, <3>1, ListingCovers
    <3> QED BY <1>7, <3>2
  <2>3. Clear(walk') => Covered(f, ToSet(walk'.todo))
    BY <1>2, <1>5, <2>1, <2>2
  <2> QED BY <1>1, <1>2, <1>3, <2>1, <2>3, OnLooking
<1>8. CASE Fails(p) # "missing" /\ Fails(p) # "no"
  <2>1. walk' = Note(Rest, <<code>>)
    BY <1>8, MissingOnly DEF List, c
  <2>2. IsTally(walk') /\ ~Clear(walk')
    <3>1. <<code>> \in Seq(Codes) /\ <<code>> # <<>>
      BY ClassifiedAsCode
    <3> HIDE DEF code
    <3> QED BY <1>2, <2>1, <3>1, NoteTally
  <2> QED BY <1>1, <2>2, OnLooking
<1>9. CASE Fails(p) = "no"
  <2>1. PICK paths \in Listings(Under(p)) : \E calls \in SetToSeqs(Entries(Current, paths)) :
               walk' = IF paths = Under(p) THEN Queue(Rest, calls)
                       ELSE Exhaust(Queue(Rest, calls))
    BY <1>9 DEF List, c
  <2>2. PICK calls \in SetToSeqs(Entries(f, paths)) :
               walk' = IF paths = Under(p) THEN Queue(Rest, calls)
                       ELSE Exhaust(Queue(Rest, calls))
    BY <1>3, <2>1
  <2>3. paths \in SUBSET Places
    BY Underneath DEF Listings, kSubset
  <2>4. calls \in Seq(ToSet(calls)) /\ ToSet(calls) = Entries(f, paths)
    BY <2>3, EntriesAreFinite, OrderedListed
  <2>5. /\ IsTally(Queue(Rest, calls))
        /\ ToSet(Queue(Rest, calls).todo) = ToSet(Rest.todo) \cup ToSet(calls)
        /\ Clear(Queue(Rest, calls)) => Clear(Rest)
    BY <1>2, <2>4, QueueTally
  <2>6. CASE paths = Under(p)
    <3>1. walk' = Queue(Rest, calls)
      BY <2>2, <2>6
    <3>2. ASSUME NEW q \in Territory(f), NEW n \in 1..Len(q) - 1,
                 Steady(q), q \notin ToSet(Named[f]), Lists(f, SubSeq(q, 1, n)) = c
          PROVE  Ahead(f, q, ToSet(walk'.todo))
      <4>1. SubSeq(q, 1, n) = p
        BY <1>6, <3>2
      <4>2. Entries(f, Under(p)) \subseteq ToSet(walk'.todo)
        BY <2>4, <2>5, <2>6, <3>1
      <4> QED BY <1>1, <1>3, <3>2, <4>1, <4>2, ListingCovers
    <3>3. Clear(walk') => Covered(f, ToSet(walk'.todo))
      BY <1>2, <1>5, <2>5, <3>1, <3>2
    <3> QED BY <1>1, <1>3, <2>5, <3>1, <3>3, OnLooking
  <2>7. CASE paths # Under(p)
    <3>1. walk' = Exhaust(Queue(Rest, calls))
      BY <2>2, <2>7
    <3>2. IsTally(walk') /\ ~Clear(walk')
      BY <2>5, <3>1, ExhaustTally
    <3> QED BY <1>1, <3>2, OnLooking
  <2> QED BY <2>6, <2>7
<1> QED BY <1>7, <1>8, <1>9

LEMMA ParsedLooking ==
    ASSUME Walked, Looking, walk # None, walk.todo # <<>>, UNCHANGED <<host, touched>>,
           NEW c, c = Head(walk.todo), c.call = "read" \/ (c.call = "run" /\ c.as # "root"),
           Fails(c.at) = "no",
           NEW w, IsTally(w), w.todo = Rest.todo, Clear(w) => Clear(Rest),
           Parse(w, c.at, c.as, host[c.at].text)
    PROVE  Looking'
<1> DEFINE p == c.at
           text == host[p].text
<1>1. /\ IsTally(Rest)
      /\ Clear(Rest) => Clear(walk)
      /\ ToSet(walk.todo) = {c} \cup ToSet(Rest.todo)
  BY RestLooking
<1>2. /\ IsTally(w) /\ w.todo = Rest.todo
      /\ Clear(w) => Clear(Rest)
      /\ Parse(w, p, c.as, text)
  OBVIOUS
<1>3. /\ text.dsns \in Nat /\ text.malformed \in Nat
      /\ text.refers \in Seq(ToSet(text.refers))
  BY CensusAssumption DEF Fails, Walked
<1>4. PICK f : f = Current
  OBVIOUS
<1>5. f \in Families
  BY <1>4, CurrentIsFamily DEF Walked
<1> HIDE DEF text
<1>6. \/ \E o : ~ClearOutcome(o) /\ Keep(o)
      \/ /\ UNCHANGED <<family, outcomes>> /\ IsTally(walk')
         /\ Clear(walk') =>
              /\ Clear(w) /\ ToSet(w.todo) \subseteq ToSet(walk'.todo)
              /\ Parsed(f, c.as, text) =>
                   /\ Consumers(text) = 0
                   /\ (Unit(f) \/ Tabular(f)) /\ c.as # "environment" => ~text.variable
                   /\ Unit(f) /\ c.as = "entry" =>
                          \A e \in ToSet(text.refers) : Refers(e) \in ToSet(walk'.todo)
  BY <1>2, <1>3, <1>4, ParsedClear
<1>7. CASE \E o : ~ClearOutcome(o) /\ Keep(o)
  BY <1>7, KeptLooking
<1>8. CASE UNCHANGED <<family, outcomes>> /\ IsTally(walk') /\ ~Clear(walk')
  BY <1>8, OnLooking
<1>9. ASSUME UNCHANGED <<family, outcomes>>, IsTally(walk'), Clear(walk'),
             Clear(w), ToSet(w.todo) \subseteq ToSet(walk'.todo),
             Parsed(f, c.as, text) =>
                   /\ Consumers(text) = 0
                   /\ (Unit(f) \/ Tabular(f)) /\ c.as # "environment" => ~text.variable
                   /\ Unit(f) /\ c.as = "entry" =>
                          \A e \in ToSet(text.refers) : Refers(e) \in ToSet(walk'.todo)
      PROVE  Looking'
  <2> DEFINE after == ToSet(walk'.todo)
  <2>1. Covered(f, ToSet(walk.todo)) /\ ToSet(walk.todo) \subseteq {c} \cup after
    BY <1>1, <1>2, <1>4, <1>9 DEF Looking
  <2>2. ASSUME NEW q \in Territory(f), Steady(q), Looks(f, q) = c
        PROVE  Seen(f, q, after)
    <3>1. /\ q = p
          /\ p \in ToSet(Named[f]) => c.as = IF f = "script" THEN "shared" ELSE "named"
          /\ p \notin ToSet(Named[f]) => c.as = "entry"
      BY <2>2 DEF Looks, Call
    <3>2. c.as # "environment"
      BY <3>1
    <3>3. LookedInto(f, p) <=> Parsed(f, c.as, text)
      BY <3>1 DEF LookedInto, Parsed, text
    <3>4. Unit(f) \/ Tabular(f) => Parsed(f, c.as, text)
      BY DEF Unit, Tabular, Parsed
    <3>5. Unit(f) => c.as = "entry"
      <4>1. Unit(f) => Named[f] = <<>>
        BY CensusAssumption DEF Unit
      <4>2. ToSet(<<>>) = {}
        BY DEF ToSet
      <4> QED BY <3>1, <4>1, <4>2
    <3>6. LookedInto(f, p) => Consumers(text) = 0
      BY Zenon, <1>9, <3>3
    <3>7. Unit(f) \/ Tabular(f) => ~text.variable
      BY Zenon, <1>9, <3>2, <3>4
    <3>8. Unit(f) => \A e \in ToSet(text.refers) : Refers(e) \in after
      BY Zenon, <1>9, <3>4, <3>5
    <3> HIDE DEF after
    <3> QED BY Zenon, <3>1, <3>6, <3>7, <3>8 DEF Seen, text
  <2>3. ASSUME NEW q, NEW r, Lists(q, r) = c PROVE FALSE
    BY <2>3 DEF Lists, Call
  <2>4. ASSUME NEW e, Refers(e) = c PROVE Empty(e)
    <3>1. e = p /\ Parsed(f, c.as, text)
      BY <2>4 DEF Refers, Call, Parsed
    <3> QED BY <1>9, <3>1 DEF Empty, text
  <2>5. Covered(f, after)
    <3>1. \A q \in Territory(f) : Steady(q) /\ Looks(f, q) = c => Seen(f, q, after)
      BY <2>2
    <3>2. \A q \in Territory(f) : \A n \in 1..Len(q) - 1 :
              Steady(q) /\ q \notin ToSet(Named[f]) /\ Lists(f, SubSeq(q, 1, n)) = c
                  => Ahead(f, q, after)
      BY <2>3
    <3>3. \A e : Steady(e) /\ Refers(e) = c => Empty(e)
      BY <2>4
    <3> HIDE DEF after
    <3> QED BY <2>1, <3>1, <3>2, <3>3, CallCovers
  <2> QED BY <1>4, <1>9, <2>5, OnLooking
<1> QED BY Zenon, <1>6, <1>7, <1>8, <1>9

LEMMA ReadLooking == Walked /\ Looking /\ Read => Looking'
<1> SUFFICES ASSUME Walked, Looking, Read PROVE Looking'
  OBVIOUS
<1> DEFINE c == Head(walk.todo)
           code == Classify(Fails(c.at))
           spent == [Rest EXCEPT !.ledger.files = @ + 1]
           text == host[c.at].text
           held == [spent EXCEPT !.ledger.bytes = @ + text.size]
<1>1. /\ walk # None /\ walk.todo # <<>> /\ c.call = "read" /\ host \in Hosts
      /\ UNCHANGED <<host, touched>>
  BY DEF Read, Step, Walked
<1>2. /\ IsTally(Rest)
      /\ Clear(Rest) => Clear(walk)
      /\ ToSet(walk.todo) = {c} \cup ToSet(Rest.todo)
  BY <1>1, RestLooking
<1>3. /\ IsTally(spent) /\ spent.todo = Rest.todo
      /\ Clear(spent) => Clear(Rest)
  BY <1>2, FilesTally
<1>4. /\ IsTally(held) /\ held.todo = spent.todo
      /\ Clear(held) => Clear(spent)
  <2> HIDE DEF spent
  <2> QED BY <1>3, BytesTally
<1>5. \/ walk' \in {Exhaust(spent), Exhaust(held)} /\ UNCHANGED <<family, outcomes>>
      \/ /\ Fails(c.at) # "no" /\ UNCHANGED <<family, outcomes>>
         /\ walk' = IF code = "missing" /\ c.as \in {"named", "shared"} THEN spent
                    ELSE Note(spent, <<code>>)
      \/ Fails(c.at) = "no" /\ Parse(held, c.at, c.as, text)
  BY Zenon DEF Read
<1> HIDE DEF c, spent, held, code, text
<1>6. CASE walk' \in {Exhaust(spent), Exhaust(held)} /\ UNCHANGED <<family, outcomes>>
  <2>1. IsTally(walk') /\ ~Clear(walk')
    BY <1>3, <1>4, <1>6, ExhaustTally
  <2> QED BY <1>1, <1>6, <2>1, OnLooking
<1>7. CASE /\ Fails(c.at) # "no" /\ UNCHANGED <<family, outcomes>>
           /\ walk' = Note(spent, <<code>>)
  <2>1. <<code>> \in Seq(Codes) /\ <<code>> # <<>>
    BY ClassifiedAsCode DEF code
  <2>2. IsTally(walk') /\ ~Clear(walk')
    BY <1>3, <1>7, <2>1, NoteTally
  <2> QED BY <1>1, <1>7, <2>2, OnLooking
<1>8. CASE /\ UNCHANGED <<family, outcomes>> /\ walk' = spent
           /\ code = "missing" /\ c.as \in {"named", "shared"}
  <2>1. PICK f : f = Current
    OBVIOUS
  <2>2. Fails(c.at) = "missing"
    BY <1>8, MissingOnly DEF code
  <2>3. ASSUME NEW q, Steady(q), Looks(f, q) = c PROVE FALSE
    <3>1. q = c.at
      BY <2>3 DEF Looks, Call
    <3> QED BY <2>2, <2>3, <3>1 DEF Steady
  <2>4. \A e : Refers(e) # c
    BY <1>8 DEF Refers, Call
  <2>5. \A q, r : Lists(q, r) # c
    BY <1>1 DEF Lists, Call
  <2>6. Clear(walk') => Covered(f, ToSet(walk'.todo))
    <3> SUFFICES ASSUME Clear(walk') PROVE Covered(f, ToSet(walk'.todo))
      OBVIOUS
    <3>1. Covered(f, ToSet(walk.todo)) /\ ToSet(walk.todo) \subseteq {c} \cup ToSet(walk'.todo)
      BY <1>1, <1>2, <1>3, <1>8, <2>1 DEF Looking
    <3> QED BY ZenonT(40), <2>3, <2>4, <2>5, <3>1, CallCovers
  <2> QED BY <1>1, <1>3, <1>8, <2>1, <2>6, OnLooking
<1>9. CASE Fails(c.at) = "no" /\ Parse(held, c.at, c.as, text)
  <2>1. held.todo = Rest.todo /\ (Clear(held) => Clear(Rest))
    BY <1>3, <1>4
  <2> QED BY <1>1, <1>4, <1>9, <2>1, ParsedLooking DEF c, text
<1> QED BY <1>5, <1>6, <1>7, <1>8, <1>9

LEMMA RunLooking == Walked /\ Looking /\ Run => Looking'
<1> SUFFICES ASSUME Walked, Looking, Run PROVE Looking'
  OBVIOUS
<1> DEFINE c == Head(walk.todo)
           code == Classify(Fails(c.at))
           counted == [Rest EXCEPT !.ledger.files = @ + 1]
           spent == IF c.as = "entry" THEN counted ELSE Rest
           text == host[c.at].text
           cut == [spent EXCEPT !.todo = <<>>]
<1>1. /\ walk # None /\ walk.todo # <<>> /\ c.call = "run" /\ host \in Hosts
      /\ UNCHANGED <<host, touched>> /\ Current \in Families
  BY CurrentIsFamily DEF Run, Step, Walked
<1>2. /\ IsTally(Rest)
      /\ Clear(Rest) => Clear(walk)
      /\ ToSet(walk.todo) = {c} \cup ToSet(Rest.todo)
  BY <1>1, RestLooking
<1>3. /\ IsTally(spent) /\ spent.todo = Rest.todo
      /\ Clear(spent) => Clear(Rest)
  <2>1. /\ IsTally(counted) /\ counted.todo = Rest.todo
        /\ Clear(counted) => Clear(Rest)
    BY <1>2, FilesTally
  <2> HIDE DEF counted
  <2> QED BY <1>2, <2>1
<1>4. \/ walk' = Exhaust(cut) /\ UNCHANGED <<family, outcomes>>
      \/ walk' = Note(spent, <<code>>) /\ UNCHANGED <<family, outcomes>>
      \/ /\ Fails(c.at) = "no" /\ c.as = "root" /\ UNCHANGED <<family, outcomes>>
         /\ \E calls \in SetToSeqs(Entries(Current, Under(c.at))) : walk' = Queue(spent, calls)
      \/ Fails(c.at) = "no" /\ c.as # "root" /\ Parse(spent, c.at, c.as, text)
  BY Zenon DEF Run
<1> HIDE DEF c, spent, code, text
<1>5. CASE walk' = Exhaust(cut) /\ UNCHANGED <<family, outcomes>>
  <2>1. <<>> \in Seq(ToSet(<<>>))
    BY EmptySeq
  <2>2. IsTally(cut)
    BY <1>3, <2>1, TodoTally
  <2> HIDE DEF cut
  <2>3. IsTally(walk') /\ ~Clear(walk')
    BY <1>5, <2>2, ExhaustTally
  <2> QED BY <1>1, <1>5, <2>3, OnLooking
<1>6. CASE walk' = Note(spent, <<code>>) /\ UNCHANGED <<family, outcomes>>
  <2>1. <<code>> \in Seq(Codes) /\ <<code>> # <<>>
    BY ClassifiedAsCode DEF code
  <2>2. IsTally(walk') /\ ~Clear(walk')
    BY <1>3, <1>6, <2>1, NoteTally
  <2> QED BY <1>1, <1>6, <2>2, OnLooking
<1>7. CASE /\ Fails(c.at) = "no" /\ c.as = "root" /\ UNCHANGED <<family, outcomes>>
           /\ \E calls \in SetToSeqs(Entries(Current, Under(c.at))) : walk' = Queue(spent, calls)
  <2>1. PICK f : f = Current
    OBVIOUS
  <2>2. PICK calls \in SetToSeqs(Entries(f, Under(c.at))) : walk' = Queue(spent, calls)
    BY <1>7, <2>1
  <2>3. calls \in Seq(ToSet(calls)) /\ ToSet(calls) = Entries(f, Under(c.at))
    BY Underneath, EntriesAreFinite, OrderedListed
  <2>4. /\ IsTally(walk') /\ ToSet(walk'.todo) = ToSet(Rest.todo) \cup ToSet(calls)
        /\ Clear(walk') => Clear(spent)
    BY <1>3, <2>2, <2>3, QueueTally
  <2>5. \A q : Looks(f, q) # c /\ Refers(q) # c
    BY <1>7 DEF Looks, Refers, Call
  <2>6. ASSUME NEW q \in Territory(f), NEW n \in 1..Len(q) - 1,
               Steady(q), q \notin ToSet(Named[f]), Lists(f, SubSeq(q, 1, n)) = c
        PROVE  Ahead(f, q, ToSet(walk'.todo))
    <3>1. SubSeq(q, 1, n) = c.at
      BY <2>6 DEF Lists, Call
    <3>2. Entries(f, Under(c.at)) \subseteq ToSet(walk'.todo)
      BY <2>3, <2>4
    <3> QED BY <1>1, <2>1, <2>6, <3>1, <3>2, ListingCovers
  <2>7. Clear(walk') => Covered(f, ToSet(walk'.todo))
    <3> SUFFICES ASSUME Clear(walk') PROVE Covered(f, ToSet(walk'.todo))
      OBVIOUS
    <3>1. Covered(f, ToSet(walk.todo)) /\ ToSet(walk.todo) \subseteq {c} \cup ToSet(walk'.todo)
      BY <1>1, <1>2, <1>3, <2>1, <2>4 DEF Looking
    <3> QED BY <2>5, <2>6, <3>1, CallCovers
  <2> QED BY <1>1, <1>7, <2>1, <2>4, <2>7, OnLooking
<1>8. CASE Fails(c.at) = "no" /\ c.as # "root" /\ Parse(spent, c.at, c.as, text)
  BY <1>1, <1>3, <1>8, ParsedLooking DEF c, text
<1> QED BY <1>4, <1>5, <1>6, <1>7, <1>8

LEMMA BeginLooking == Walked /\ Looking /\ Begin => Looking'
<1> SUFFICES ASSUME Walked, Looking, Begin PROVE Looking'
  OBVIOUS
<1>1. /\ host \in Hosts /\ UNCHANGED <<host, touched>> /\ Current \in Families
  BY CurrentIsFamily DEF Begin, Walked
<1>2. CASE Current \in skipped
  <2> DEFINE o == Outcome(Walking(<<>>), FALSE)
  <2>1. Keep(o)
    BY <1>2 DEF Begin
  <2>2. ~ClearOutcome(o)
    BY DEF ClearOutcome, Outcome
  <2> HIDE DEF o
  <2> QED BY <1>1, <2>1, <2>2, KeptLooking
<1>3. CASE Current \notin skipped
  <2> DEFINE calls == Opening(Current)
  <2>1. walk' = Walking(calls) /\ UNCHANGED <<family, outcomes>>
    BY <1>3 DEF Begin
  <2>2. calls \in Seq(ToSet(calls)) /\ Covered(Current, ToSet(calls))
    BY <1>1, OpeningCovers
  <2> HIDE DEF calls
  <2>3. IsTally(walk') /\ walk'.todo = calls
    BY <2>1, <2>2, WalkingIsWalk DEF IsTally, Walking
  <2> QED BY <1>1, <2>1, <2>2, <2>3, OnLooking
<1> QED BY <1>2, <1>3

LEMMA FinishLooking == Walked /\ Looking /\ Finish => Looking'
<1> SUFFICES ASSUME Walked, Looking, Finish PROVE Looking'
  OBVIOUS
<1> DEFINE o == Outcome(walk, TRUE)
<1>1. /\ walk # None /\ walk.todo = <<>> /\ Keep(o) /\ UNCHANGED <<host, touched>>
      /\ IsTally(walk)
  BY DEF Finish, Looking
<1>2. ClearOutcome(o) => Clear(walk)
  <2>1. /\ o.scan.completed = ~walk.ledger.exhausted /\ o.scan.errors = walk.ledger.errors
        /\ o.scan.found = walk.attributed + walk.unattributed
    BY DEF Outcome
  <2>2. walk.attributed \in Nat /\ walk.unattributed \in Nat
    BY <1>1 DEF IsTally
  <2>3. o.scan.found = 0 => walk.attributed = 0 /\ walk.unattributed = 0
    <3>1. \A a, b \in Nat : a + b = 0 => a = 0 /\ b = 0
      OBVIOUS
    <3> QED BY Zenon, <2>1, <2>2, <3>1
  <2> HIDE DEF o
  <2> QED BY Zenon, <2>1, <2>3 DEF ClearOutcome, Clear
<1>3. ToSet(walk.todo) = {}
  BY <1>1 DEF ToSet
<1>4. Clear(walk) => Covered(Current, {})
  BY <1>1, <1>3 DEF Looking
<1> HIDE DEF o
<1> QED BY <1>1, <1>2, <1>4, KeptLooking

LEMMA ChangeLooking == Walked /\ Looking /\ Change => Looking'
<1> SUFFICES ASSUME Walked, Looking, Change PROVE Looking'
  OBVIOUS
<1>1. host \in Hosts /\ UNCHANGED <<family, walk, outcomes>>
  BY DEF Change, Walked
<1>2. \A f, calls : Covered(f, calls) => Covered(f, calls)'
  BY <1>1, ChangeCovers
<1>3. Current' = Current
  BY <1>1 DEF Current
<1>4. walk # None /\ Clear(walk) => Covered(Current, ToSet(walk.todo))'
  BY <1>1, <1>2, <1>3 DEF Looking
<1>5. \A f \in DOMAIN outcomes : ClearOutcome(outcomes[f]) => Covered(f, {})'
  BY <1>2 DEF Looking
<1> QED BY <1>1, <1>4, <1>5 DEF Looking

LEMMA NextLooking == Walked /\ Looking /\ [Next]_vars => Looking'
<1> SUFFICES ASSUME Walked, Looking, [Next]_vars PROVE Looking'
  OBVIOUS
<1>1. CASE UNCHANGED <<host, touched, family, walk, outcomes>>
  <2>1. walk' = None => Looking'
    BY <1>1, CoveredSame DEF Looking
  <2>2. walk' # None => Looking'
    BY <1>1, OnLooking DEF Looking
  <2> QED BY <2>1, <2>2
<1>2. \/ Begin \/ List \/ Read \/ Run \/ Finish \/ Change
      \/ UNCHANGED <<host, touched, family, walk, outcomes>>
  BY DEF Next, vars, Look, Answer, File, Project, Ask
<1> QED BY <1>1, <1>2, BeginLooking, ListLooking, ReadLooking, RunLooking, FinishLooking,
           ChangeLooking

LEMMA LookedThrough ==
    ASSUME host \in Hosts, NEW f \in Families, Covered(f, {}), NEW p \in Territory(f), Steady(p)
    PROVE  /\ Fails(p) = "no"
           /\ LookedInto(f, p) => Consumers(host[p].text) = 0
           /\ Unit(f) \/ Tabular(f) => ~host[p].text.variable
           /\ Unit(f) => \A e \in ToSet(host[p].text.refers) :
                  Steady(e) => Fails(e) = "no" /\ Consumers(host[e].text) = 0
<1>1. Seen(f, p, {})
  BY DEF Covered, Ahead
<1> QED BY <1>1 DEF Seen, Empty

\* A family that is known to have none was clear when its walk ended.
LEMMA NoneWasClear ==
    ASSUME NEW o, IsOutcome(o), NEW n \in Nat,
           Verdict(Degraded(o, n).scan) # "UNKNOWN", Degraded(o, n).scan.found = 0
    PROVE  ClearOutcome(o)
<1> DEFINE codes == Copies("ambiguous", n)
<1>1. /\ Degraded(o, n).scan.errors = o.scan.errors \o codes
      /\ Degraded(o, n).scan.attempted = o.scan.attempted
      /\ Degraded(o, n).scan.completed = o.scan.completed
      /\ Degraded(o, n).scan.found = o.scan.found
  BY DEF IsOutcome, Degraded
<1>2. o.scan.attempted /\ o.scan.completed /\ o.scan.errors \o codes = <<>>
  BY Zenon, <1>1 DEF Verdict
<1>3. "ambiguous" \in Codes
  BY DEF Codes
<1>4. codes \in Seq(Codes) /\ o.scan.errors \in Seq(Codes)
  BY <1>3, CopiesAreCodes DEF IsOutcome
<1>5. o.scan.errors = <<>>
  BY <1>2, <1>4, NeitherHasAny
<1> QED BY Zenon, <1>1, <1>2, <1>5 DEF ClearOutcome

LEMMA AnswerLooked == Walked /\ Noted /\ Looking /\ Answer => AbsentMeansLooked'
<1> SUFFICES ASSUME Walked, Noted, Looking, Answer PROVE AbsentMeansLooked'
  OBVIOUS
<1> DEFINE n == Cardinality({i \in DOMAIN facts : facts[i]})
<1>1. /\ family = Len(DeclaredFamilies)
      /\ report' = [f \in Families |-> Degraded(outcomes[f], n)]
      /\ UNCHANGED <<host, touched>> /\ host \in Hosts
  BY DEF Answer, Walked
<1>2. n \in Nat
  BY FactsCounted
<1> HIDE DEF n
<1>3. DOMAIN outcomes = Families
  BY <1>1, FamiliesAreListed DEF Walked
<1>4. ASSUME NEW f \in Families, Verdict(report'[f].scan) # "UNKNOWN", report'[f].scan.found = 0
      PROVE  Covered(f, {})
  <2>1. report'[f] = Degraded(outcomes[f], n) /\ IsOutcome(outcomes[f])
    BY Zenon, <1>1, <1>3, <1>4 DEF Walked
  <2>2. ClearOutcome(outcomes[f])
    BY <1>2, <1>4, <2>1, NoneWasClear
  <2> QED BY <1>3, <2>2 DEF Looking
<1>5. \A f \in Families : /\ Verdict(report'[f].scan) # "UNKNOWN" /\ report'[f].scan.found = 0
                          => Covered(f, {})'
  BY <1>1, <1>4, CoveredSame
<1>6. ASSUME NEW f \in Families, Covered(f, {})'
      PROVE  \A p \in Territory(f)' : Steady(p)' =>
                /\ Fails(p)' = "no"
                /\ LookedInto(f, p)' => Consumers(host'[p].text) = 0
                /\ Unit(f) \/ Tabular(f) => ~host'[p].text.variable
                /\ Unit(f) => \A e \in ToSet(host'[p].text.refers) :
                       Steady(e)' => Fails(e)' = "no" /\ Consumers(host'[e].text) = 0
  <2>1. Covered(f, {})
    BY <1>1, <1>6, CoveredSame
  <2> QED BY <1>1, <2>1, LookedThrough DEF Steady, Fails, LookedInto, Territory, Inside
<1>7. Known' = {f \in Families : Verdict(report'[f].scan) # "UNKNOWN"}
  BY DEF Known
<1> HIDE DEF Known
<1> QED BY <1>5, <1>6, <1>7 DEF AbsentMeansLooked

LEMMA NextLooked ==
    Walked /\ Noted /\ Looking /\ AbsentMeansLooked /\ [Next]_vars => AbsentMeansLooked'
<1> SUFFICES ASSUME Walked, Noted, Looking, AbsentMeansLooked, [Next]_vars
             PROVE  AbsentMeansLooked'
  OBVIOUS
<1>1. CASE Answer
  BY <1>1, AnswerLooked
<1>2. CASE Change
  BY <1>2 DEF Change, AbsentMeansLooked
<1>3. CASE UNCHANGED <<host, touched, report>>
  BY <1>3 DEF AbsentMeansLooked, Known, Steady, Fails, LookedInto, Territory, Inside
<1>4. Answer \/ Change \/ UNCHANGED <<host, touched, report>>
  BY DEF Next, vars, Begin, List, Read, Run, Finish, Step, Look, File, Project, Ask
<1> QED BY <1>1, <1>2, <1>3, <1>4

\* On any host, in any tree of places, however it changes under the census and
\* wherever a budget cuts a walk short: a family that is reported absent was looked
\* through, in every place where its launches are configured that was there all
\* along.
THEOREM AbsentWasLookedFor == Spec => []AbsentMeansLooked
<1>1. Init => Walked /\ Noted /\ Looking /\ AbsentMeansLooked
  <2> SUFFICES ASSUME Init PROVE Walked /\ Noted /\ Looking /\ AbsentMeansLooked
    OBVIOUS
  <2>1. Walked /\ Noted
    BY InitWalked
  <2>2. DOMAIN outcomes = {}
    BY DEF Init
  <2> QED BY <2>1, <2>2 DEF Init, Looking, AbsentMeansLooked
<1> QED BY <1>1, NextWalked, NextNoted, NextLooking, NextLooked, PTL DEF Spec

-----------------------------------------------------------------------------
(* The counts add up.                                                        *)

Listed(calls) ==
    /\ calls \in Seq(ToSet(calls))
    /\ \A c \in ToSet(calls) : c.call \in {"list", "read", "run"}

Agenda(w) == IsTally(w) /\ Listed(w.todo)

\* Every consumer of a family has one custody or the other.
Tallied(o) == o \in FamilyOutcome /\ o.scan.found = o.attributed + o.unattributed

Balanced(document) ==
    /\ document \in Document
    /\ document.attributed + document.unattributed =
           Total([f \in Families |-> document.families[f].found])

\* What every walk, and every family done, says of its consumers.
Balance ==
    /\ walk # None => Agenda(walk)
    /\ \A f \in DOMAIN outcomes : Tallied(outcomes[f])

\* And every document made of them.
Books ==
    /\ report # None => report \in [Families -> FamilyOutcome]
                        /\ \A f \in Families : Tallied(report[f])
    /\ observation # None => Balanced(observation) /\ observation.collector # ""
    /\ envelope # None =>
          \E document, request : /\ Balanced(document)
                                 /\ envelope = Envelope(document, "running", request)

LEMMA CountsTally ==
    ASSUME NEW w, IsTally(w), NEW attempted \in BOOLEAN
    PROVE  Tallied(Outcome(w, attempted))
<1>1. /\ w.ledger.errors \in Seq(Codes)
      /\ w.attributed \in Nat /\ w.unattributed \in Nat
  BY DEF IsTally, IsWalk
<1>2. w.attributed + w.unattributed \in Nat
  <2>1. \A a, b \in Nat : a + b \in Nat
    OBVIOUS
  <2> QED BY Zenon, <1>1, <2>1
<1>3. (~w.ledger.exhausted) \in BOOLEAN
  OBVIOUS
<1>4. Outcome(w, attempted) \in FamilyOutcome
  BY <1>1, <1>2, <1>3 DEF Outcome, FamilyOutcome, Scan, Codes
<1>5. /\ Outcome(w, attempted).scan.found = w.attributed + w.unattributed
      /\ Outcome(w, attempted).attributed = w.attributed
      /\ Outcome(w, attempted).unattributed = w.unattributed
  BY DEF Outcome
<1> QED BY <1>4, <1>5 DEF Tallied

LEMMA NothingListed == Listed(<<>>)
<1>1. ToSet(<<>>) = {}
  BY DEF ToSet
<1>2. <<>> \in Seq({})
  OBVIOUS
<1> QED BY <1>1, <1>2 DEF Listed

LEMMA AgendaKept ==
    ASSUME NEW w, Agenda(w)
    PROVE  /\ \A todo : Listed(todo) => Agenda([w EXCEPT !.todo = todo])
           /\ \A n : Agenda([w EXCEPT !.ledger.files = n])
           /\ \A n : Agenda([w EXCEPT !.ledger.bytes = n])
           /\ Agenda(Exhaust(w))
           /\ \A codes \in Seq(Codes) : Agenda(Note(w, codes))
           /\ \A as : \A n \in Nat : Agenda(Count(w, as, n))
           /\ \A calls : Listed(calls) => Agenda(Queue(w, calls))
<1>1. IsTally(w) /\ Listed(w.todo)
  BY DEF Agenda
<1>2. ASSUME NEW todo, Listed(todo) PROVE Agenda([w EXCEPT !.todo = todo])
  <2>1. todo \in Seq(ToSet(todo))
    BY <1>2 DEF Listed
  <2>2. IsTally([w EXCEPT !.todo = todo]) /\ [w EXCEPT !.todo = todo].todo = todo
    BY <1>1, <2>1, TodoTally
  <2> QED BY <1>2, <2>2 DEF Agenda
<1>3. ASSUME NEW n PROVE Agenda([w EXCEPT !.ledger.files = n])
  BY <1>1, FilesTally DEF Agenda
<1>4. ASSUME NEW n PROVE Agenda([w EXCEPT !.ledger.bytes = n])
  BY <1>1, BytesTally DEF Agenda
<1>5. Agenda(Exhaust(w))
  <2>1. Exhaust(w).todo = w.todo
    BY <1>1 DEF IsTally, IsWalk, Exhaust
  <2> QED BY <1>1, <2>1, ExhaustTally DEF Agenda
<1>6. ASSUME NEW codes \in Seq(Codes) PROVE Agenda(Note(w, codes))
  BY <1>1, NoteTally DEF Agenda
<1>7. ASSUME NEW as, NEW n \in Nat PROVE Agenda(Count(w, as, n))
  BY <1>1, CountTally DEF Agenda
<1>8. ASSUME NEW calls, Listed(calls) PROVE Agenda(Queue(w, calls))
  <2>1. calls \in Seq(ToSet(calls))
    BY <1>8 DEF Listed
  <2>2. /\ IsTally(Queue(w, calls))
        /\ ToSet(Queue(w, calls).todo) = ToSet(w.todo) \cup ToSet(calls)
    BY <1>1, <2>1, QueueTally
  <2> QED BY <1>1, <1>8, <2>2 DEF Agenda, Listed, IsTally
<1> QED BY <1>2, <1>3, <1>4, <1>5, <1>6, <1>7, <1>8

LEMMA CallsAreListed ==
    ASSUME NEW call \in {"list", "read", "run"}, NEW as, NEW paths, paths \in Seq(ToSet(paths))
    PROVE  Listed(Calls(call, paths, as))
<1>1. /\ Calls(call, paths, as) \in Seq(ToSet(Calls(call, paths, as)))
      /\ ToSet(Calls(call, paths, as)) = {Call(call, p, as) : p \in ToSet(paths)}
  BY CallsListed
<1>2. \A p : Call(call, p, as).call = call
  BY DEF Call
<1> QED BY <1>1, <1>2 DEF Listed

LEMMA EntriesAreListed ==
    ASSUME NEW f, NEW paths \in SUBSET Places, NEW calls \in SetToSeqs(Entries(f, paths))
    PROVE  Listed(calls)
<1>1. calls \in Seq(ToSet(calls)) /\ ToSet(calls) = Entries(f, paths)
  BY EntriesAreFinite, OrderedListed
<1>2. ASSUME NEW p, NEW c \in Follow(f, p) PROVE c.call \in {"list", "read", "run"}
  <2>1. c \in {Call("list", p, "root"), Call("read", p, "entry"), Call("run", p, "entry")}
    BY DEF Follow
  <2> QED BY <2>1 DEF Call
<1> QED BY <1>1, <1>2 DEF Listed, Entries

LEMMA OpeningIsListed ==
    ASSUME NEW f \in Families
    PROVE  Listed(Opening(f))
<1> DEFINE lists == Calls(IF Queued(f) THEN "run" ELSE "list", Directories[f], "root")
           reads == Calls("read", Named[f], IF f = "script" THEN "shared" ELSE "named")
<1>1. Listed(lists) /\ Listed(reads)
  BY CensusAssumption, CallsAreListed
<1>2. Opening(f) \in {lists \o reads, reads \o lists}
  BY DEF Opening
<1> HIDE DEF lists, reads
<1>3. \A a, b : Listed(a) /\ Listed(b) => Listed(a \o b)
  BY BothListed DEF Listed
<1> QED BY <1>1, <1>2, <1>3

\* A step of a walk: it goes on, or the family is done and its counts add up.
OnBalance ==
    \/ \E w : Agenda(w) /\ walk' = w /\ UNCHANGED <<family, outcomes>>
    \/ \E o : Tallied(o) /\ Keep(o)

LEMMA ParsedOnBalance ==
    ASSUME NEW w, Agenda(w), NEW at, NEW as, NEW text,
           text.dsns \in Nat, text.malformed \in Nat, text.refers \in Seq(ToSet(text.refers)),
           Parse(w, at, as, text)
    PROVE  OnBalance
<1> DEFINE counted == Count(w, as, Consumers(text))
           noted == Note(counted, Notes(Current, as, text))
           raised == Note(Walking(<<>>), <<"unknown">>)
<1>1. Consumers(text) \in Nat
  BY DEF Consumers
<1>2. Agenda(counted)
  BY <1>1, AgendaKept
<1>3. Agenda(noted)
  <2>1. Notes(Current, as, text) \in Seq(Codes)
    BY NotesAreCodes
  <2> HIDE DEF counted
  <2> QED BY <1>2, <2>1, AgendaKept
<1>4. Agenda(Queue(noted, Referred(Current, as, text)))
  <2>1. Listed(Referred(Current, as, text))
    BY CallsAreListed, NothingListed DEF Referred
  <2> HIDE DEF noted
  <2> QED BY <1>3, <2>1, AgendaKept
<1>5. Tallied(Outcome(raised, TRUE))
  <2>1. <<"unknown">> \in Seq(Codes)
    BY DEF Codes
  <2>2. IsTally(Walking(<<>>))
    BY WalkingIsWalk, NothingListed DEF IsTally, Walking, Listed
  <2>3. IsTally(raised)
    BY <2>1, <2>2, NoteTally
  <2> HIDE DEF raised
  <2> QED BY <2>3, CountsTally
<1>6. \/ walk' = w /\ UNCHANGED <<family, outcomes>>
      \/ Keep(Outcome(raised, TRUE))
      \/ /\ walk' = Queue(noted, Referred(Current, as, text))
         /\ UNCHANGED <<family, outcomes>>
  BY Zenon DEF Parse
<1> HIDE DEF noted, raised
<1> QED BY Zenon, <1>4, <1>5, <1>6 DEF OnBalance

\* What a source answers with a text counts in it, and refers to a list.
LEMMA TextHeld ==
    ASSUME host \in Hosts, NEW p, Fails(p) = "no"
    PROVE  /\ host[p].text.dsns \in Nat /\ host[p].text.malformed \in Nat
           /\ host[p].text.refers \in Seq(ToSet(host[p].text.refers))
  BY CensusAssumption DEF Fails

LEMMA RestOnBalance ==
    ASSUME Balance, walk # None, walk.todo # <<>>
    PROVE  Agenda(Rest)
<1>1. Agenda(walk) /\ Listed(walk.todo)
  BY DEF Balance, Agenda
<1>2. Listed(Tail(walk.todo))
  BY <1>1, RestListed DEF Listed
<1>3. Rest = [walk EXCEPT !.todo = Tail(walk.todo)]
  BY DEF Rest
<1> QED BY <1>1, <1>2, <1>3, AgendaKept

LEMMA ListOnBalance == Balance /\ List => OnBalance
<1> SUFFICES ASSUME Balance, List PROVE OnBalance
  OBVIOUS
<1> DEFINE p == Head(walk.todo).at
           code == Classify(Fails(p))
<1>1. Agenda(Rest)
  BY RestOnBalance DEF List, Step
<1>2. Agenda(Note(Rest, <<code>>))
  BY <1>1, ClassifiedAsCode, AgendaKept
<1>3. UNCHANGED <<family, outcomes>>
  BY DEF List
<1>4. CASE Fails(p) # "no"
  <2>1. walk' = IF code = "missing" THEN Rest ELSE Note(Rest, <<code>>)
    BY <1>4 DEF List
  <2> QED BY <1>1, <1>2, <1>3, <2>1 DEF OnBalance
<1>5. CASE Fails(p) = "no"
  <2>1. PICK paths \in Listings(Under(p)) : \E calls \in SetToSeqs(Entries(Current, paths)) :
               walk' \in {Queue(Rest, calls), Exhaust(Queue(Rest, calls))}
    BY <1>5 DEF List
  <2> PICK calls \in SetToSeqs(Entries(Current, paths)) :
               walk' \in {Queue(Rest, calls), Exhaust(Queue(Rest, calls))}
    BY <2>1
  <2>2. paths \in SUBSET Places
    BY Underneath DEF Listings, kSubset
  <2>3. Listed(calls)
    BY <2>2, EntriesAreListed
  <2>4. Agenda(Queue(Rest, calls))
    BY <1>1, <2>3, AgendaKept
  <2>5. Agenda(Exhaust(Queue(Rest, calls)))
    BY <2>4, AgendaKept
  <2> QED BY <1>3, <2>1, <2>4, <2>5 DEF OnBalance
<1> QED BY <1>4, <1>5

LEMMA ReadOnBalance == Walked /\ Balance /\ Read => OnBalance
<1> SUFFICES ASSUME Walked, Balance, Read PROVE OnBalance
  OBVIOUS
<1> DEFINE c == Head(walk.todo)
           code == Classify(Fails(c.at))
           spent == [Rest EXCEPT !.ledger.files = @ + 1]
           text == host[c.at].text
           held == [spent EXCEPT !.ledger.bytes = @ + text.size]
<1>1. Agenda(Rest) /\ host \in Hosts
  BY RestOnBalance DEF Read, Step, Walked
<1>2. Agenda(spent)
  BY <1>1, AgendaKept
<1>3. Agenda(held)
  <2> HIDE DEF spent
  <2> QED BY <1>2, AgendaKept
<1>4. Agenda(Exhaust(spent)) /\ Agenda(Note(spent, <<code>>)) /\ Agenda(Exhaust(held))
  <2> HIDE DEF spent, held
  <2> QED BY <1>2, <1>3, ClassifiedAsCode, AgendaKept
<1>5. \/ walk' \in {Exhaust(spent), spent, Note(spent, <<code>>), Exhaust(held)}
            /\ UNCHANGED <<family, outcomes>>
      \/ Fails(c.at) = "no" /\ Parse(held, c.at, c.as, text)
  BY Zenon DEF Read
<1> HIDE DEF spent, held, code, text
<1>6. ASSUME Fails(c.at) = "no", Parse(held, c.at, c.as, text) PROVE OnBalance
  <2>1. /\ text.dsns \in Nat /\ text.malformed \in Nat
        /\ text.refers \in Seq(ToSet(text.refers))
    BY <1>1, <1>6, TextHeld DEF text
  <2> QED BY <1>3, <1>6, <2>1, ParsedOnBalance
<1> QED BY <1>2, <1>4, <1>5, <1>6 DEF OnBalance

LEMMA RunOnBalance == Walked /\ Balance /\ Run => OnBalance
<1> SUFFICES ASSUME Walked, Balance, Run PROVE OnBalance
  OBVIOUS
<1> DEFINE c == Head(walk.todo)
           code == Classify(Fails(c.at))
           counted == [Rest EXCEPT !.ledger.files = @ + 1]
           spent == IF c.as = "entry" THEN counted ELSE Rest
           text == host[c.at].text
           ended == Exhaust([spent EXCEPT !.todo = <<>>])
<1>1. Agenda(Rest) /\ host \in Hosts
  BY RestOnBalance DEF Run, Step, Walked
<1>2. Agenda(counted)
  BY <1>1, AgendaKept
<1>3. Agenda(spent)
  <2> HIDE DEF counted
  <2> QED BY <1>1, <1>2
<1>4. Agenda(ended) /\ Agenda(Note(spent, <<code>>))
  <2> HIDE DEF spent
  <2>1. Agenda([spent EXCEPT !.todo = <<>>])
    BY <1>3, NothingListed, AgendaKept
  <2> QED BY <1>3, <2>1, ClassifiedAsCode, AgendaKept
<1>5. \A calls : Listed(calls) => Agenda(Queue(spent, calls))
  <2> HIDE DEF spent
  <2> QED BY <1>3, AgendaKept
<1>6. \/ walk' \in {ended, Note(spent, <<code>>)} /\ UNCHANGED <<family, outcomes>>
      \/ /\ \E calls \in SetToSeqs(Entries(Current, Under(c.at))) : walk' = Queue(spent, calls)
         /\ UNCHANGED <<family, outcomes>>
      \/ Fails(c.at) = "no" /\ Parse(spent, c.at, c.as, text)
  BY Zenon DEF Run
<1> HIDE DEF spent, code, text, ended, c
<1>7. ASSUME Fails(c.at) = "no", Parse(spent, c.at, c.as, text) PROVE OnBalance
  <2>1. /\ text.dsns \in Nat /\ text.malformed \in Nat
        /\ text.refers \in Seq(ToSet(text.refers))
    BY <1>1, <1>7, TextHeld DEF text
  <2> QED BY <1>3, <1>7, <2>1, ParsedOnBalance
<1>8. \A calls \in SetToSeqs(Entries(Current, Under(c.at))) : Listed(calls)
  BY Underneath, EntriesAreListed
<1> QED BY <1>4, <1>5, <1>6, <1>7, <1>8 DEF OnBalance

\* A family that is done is recorded with counts that add up.
LEMMA KeptBalance ==
    ASSUME Balance, NEW o, Tallied(o), Keep(o)
    PROVE  Balance'
<1>1. /\ outcomes' = [f \in DOMAIN outcomes \cup {Current} |->
                        IF f = Current THEN o ELSE outcomes[f]]
      /\ walk' = None
  BY DEF Keep
<1>2. ASSUME NEW f \in DOMAIN outcomes' PROVE Tallied(outcomes'[f])
  <2>1. outcomes'[f] = IF f = Current THEN o ELSE outcomes[f]
    BY <1>1
  <2>2. f # Current => f \in DOMAIN outcomes
    BY <1>1
  <2>3. outcomes'[f] = o \/ (f \in DOMAIN outcomes /\ outcomes'[f] = outcomes[f])
    BY <2>1, <2>2
  <2> QED BY Zenon, <2>3 DEF Balance
<1> QED BY <1>1, <1>2 DEF Balance

LEMMA OnBalanceKept == Balance /\ OnBalance => Balance'
<1> SUFFICES ASSUME Balance, OnBalance PROVE Balance'
  OBVIOUS
<1>1. CASE \E w : Agenda(w) /\ walk' = w /\ UNCHANGED <<family, outcomes>>
  <2>1. Agenda(walk') /\ outcomes' = outcomes
    BY <1>1
  <2> QED BY <2>1 DEF Balance
<1>2. CASE \E o : Tallied(o) /\ Keep(o)
  BY <1>2, KeptBalance
<1> QED BY <1>1, <1>2 DEF OnBalance

LEMMA NextBalance == Walked /\ Balance /\ [Next]_vars => Balance'
<1> SUFFICES ASSUME Walked, Balance, [Next]_vars PROVE Balance'
  OBVIOUS
<1>1. CASE Begin
  <2>1. CASE Current \in skipped
    <3>1. IsTally(Walking(<<>>))
      BY WalkingIsWalk, NothingListed DEF IsTally, Walking, Listed
    <3>2. Tallied(Outcome(Walking(<<>>), FALSE)) /\ Keep(Outcome(Walking(<<>>), FALSE))
      BY <1>1, <2>1, <3>1, CountsTally DEF Begin
    <3> QED BY <3>2, KeptBalance
  <2>2. CASE Current \notin skipped
    <3> DEFINE calls == Opening(Current)
    <3>1. walk' = Walking(calls) /\ UNCHANGED <<family, outcomes>>
      BY <1>1, <2>2 DEF Begin
    <3>2. Listed(calls)
      BY <1>1, CurrentIsFamily, OpeningIsListed DEF Begin
    <3> HIDE DEF calls
    <3>3. Agenda(walk')
      BY <3>1, <3>2, WalkingIsWalk DEF Agenda, IsTally, Walking, Listed
    <3> QED BY <3>1, <3>3 DEF Balance
  <2> QED BY <2>1, <2>2
<1>2. CASE List
  BY <1>2, ListOnBalance, OnBalanceKept
<1>3. CASE Read
  BY <1>3, ReadOnBalance, OnBalanceKept
<1>4. CASE Run
  BY <1>4, RunOnBalance, OnBalanceKept
<1>5. CASE Finish
  <2>1. Keep(Outcome(walk, TRUE)) /\ Agenda(walk)
    BY <1>5 DEF Finish, Balance
  <2>2. Tallied(Outcome(walk, TRUE))
    BY <2>1, CountsTally DEF Agenda
  <2> QED BY <2>1, <2>2, KeptBalance
<1>6. CASE UNCHANGED <<family, walk, outcomes>>
  BY <1>6 DEF Balance
<1>7. \/ Begin \/ List \/ Read \/ Run \/ Finish
      \/ UNCHANGED <<family, walk, outcomes>>
  BY DEF Next, vars, Look, Answer, File, Project, Ask, Change
<1> QED BY <1>1, <1>2, <1>3, <1>4, <1>5, <1>6, <1>7

\* A degraded family keeps its counts.
LEMMA DegradedTallied ==
    ASSUME NEW o, Tallied(o), NEW n \in Nat
    PROVE  Tallied(Degraded(o, n))
<1> DEFINE codes == Copies("ambiguous", n)
<1>1. "ambiguous" \in Codes
  BY DEF Codes
<1>2. codes \in Seq(Codes)
  BY <1>1, CopiesAreCodes
<1>3. o.scan.errors \in Seq(Codes)
  BY DEF Tallied, FamilyOutcome, Scan, Codes
<1>4. o.scan.errors \o codes \in Seq(Codes)
  BY <1>2, <1>3, ConcatProperties
<1>5. Degraded(o, n) = [o EXCEPT !.scan.errors = o.scan.errors \o codes]
  BY DEF Degraded
<1> HIDE DEF codes
<1>6. Degraded(o, n) \in FamilyOutcome
  BY <1>4, <1>5 DEF Tallied, FamilyOutcome, Scan, Codes
<1>7. /\ Degraded(o, n).scan.found = o.scan.found
      /\ Degraded(o, n).attributed = o.attributed /\ Degraded(o, n).unattributed = o.unattributed
  BY <1>5 DEF Tallied, FamilyOutcome, Scan
<1> QED BY <1>6, <1>7 DEF Tallied

LEMMA FamiliesAreFinite == IsFiniteSet(Families)
<1> DEFINE n == Len(DeclaredFamilies)
           named == [i \in 1..n |-> DeclaredFamilies[i]]
<1>1. n \in Nat /\ Families = {DeclaredFamilies[i] : i \in 1..n}
  BY FamiliesAreListed
<1> HIDE DEF n
<1>2. IsFiniteSet(1..n)
  BY <1>1, FS_Interval
<1>3. named \in Surjection(1..n, Families)
  BY <1>1 DEF Surjection
<1> HIDE DEF named
<1> QED BY <1>2, <1>3, FS_Surjection

LEMMA TotalIsSum ==
    ASSUME NEW count, DOMAIN count = Families
    PROVE  Total(count) = SumOver(count, Families)
  BY FoldIsSum DEF Total

LEMMA FamiliesAddUp ==
    ASSUME NEW f, NEW g, NEW h,
           \A x \in Families : f[x] \in Nat /\ g[x] \in Nat /\ h[x] = f[x] + g[x]
    PROVE  SumOver(h, Families) = SumOver(f, Families) + SumOver(g, Families)
<1>1. \A S \in SUBSET Families : SumOver(h, S) = SumOver(f, S) + SumOver(g, S)
  BY FamiliesAreFinite, SumAdds
<1> QED BY <1>1

\* What is found in all the families is what is attributed in all of them and what
\* is not.
LEMMA ObservationBalances ==
    ASSUME NEW found, found \in [Families -> FamilyOutcome], \A f \in Families : Tallied(found[f]),
           NEW collector \in {"d", ""}, NEW source \in {"d", ""}
    PROVE  Balanced(Observation(found, collector, source))
<1> DEFINE document == Observation(found, collector, source)
           attributed == [f \in Families |-> found[f].attributed]
           unattributed == [f \in Families |-> found[f].unattributed]
           both == [f \in Families |-> document.families[f].found]
<1>1. ASSUME NEW f \in Families
      PROVE  /\ found[f].scan \in Scan
             /\ found[f].scan.found = found[f].attributed + found[f].unattributed
             /\ found[f].attributed \in Nat /\ found[f].unattributed \in Nat
  BY DEF Tallied, FamilyOutcome
<1>2. /\ document.families = [f \in Families |-> found[f].scan]
      /\ document.attributed = Total(attributed)
      /\ document.unattributed = Total(unattributed)
  BY DEF Observation
<1>3. ASSUME NEW f \in Families
      PROVE  /\ attributed[f] \in Nat /\ unattributed[f] \in Nat
             /\ both[f] = attributed[f] + unattributed[f]
  BY <1>1, <1>2
<1>4. /\ DOMAIN attributed = Families /\ DOMAIN unattributed = Families
      /\ DOMAIN both = Families
  OBVIOUS
<1> HIDE DEF attributed, unattributed, both
<1>5. /\ Total(attributed) = SumOver(attributed, Families)
      /\ Total(unattributed) = SumOver(unattributed, Families)
      /\ Total(both) = SumOver(both, Families)
  BY <1>4, TotalIsSum
<1>6. \A f \in Families : attributed[f] \in Nat /\ unattributed[f] \in Nat
  BY <1>3
<1>7. SumOver(attributed, Families) \in Nat /\ SumOver(unattributed, Families) \in Nat
  BY <1>6, FamiliesAreFinite, SumIsNatural
<1>8. SumOver(both, Families) = SumOver(attributed, Families) + SumOver(unattributed, Families)
  <2>1. \A f \in Families : /\ attributed[f] \in Nat /\ unattributed[f] \in Nat
                            /\ both[f] = attributed[f] + unattributed[f]
    BY <1>3
  <2> QED BY <2>1, FamiliesAddUp
<1>9. document \in Document
  BY <1>1, <1>2, <1>5, <1>7 DEF Observation, Document
<1> HIDE DEF document
<1>10. document.attributed + document.unattributed = Total(both)
  BY <1>2, <1>5, <1>8
<1>11. Balanced(document)
  BY <1>9, <1>10 DEF Balanced, both
<1> QED BY <1>11 DEF document

\* The same census under the contract that came before.
LEMMA HistoricalBalances ==
    ASSUME NEW document, Balanced(document)
    PROVE  Balanced([document EXCEPT !.version = 1, !.collector = "", !.source = ""])
<1> DEFINE before == [document EXCEPT !.version = 1, !.collector = "", !.source = ""]
<1>1. document \in Document
  BY DEF Balanced
<1>2. before \in Document
  BY <1>1 DEF Document
<1>3. /\ before.families = document.families
      /\ before.attributed = document.attributed /\ before.unattributed = document.unattributed
  BY <1>1 DEF Document
<1> HIDE DEF before
<1>4. [f \in Families |-> before.families[f].found]
          = [f \in Families |-> document.families[f].found]
  BY <1>3
<1>5. Balanced(before)
  BY <1>2, <1>3, <1>4 DEF Balanced
<1> QED BY <1>5 DEF before

LEMMA NextBooks == Walked /\ Noted /\ Balance /\ Books /\ [Next]_vars => Books'
<1> SUFFICES ASSUME Walked, Noted, Balance, Books, [Next]_vars PROVE Books'
  OBVIOUS
<1>1. CASE Answer
  <2> DEFINE n == Cardinality({i \in DOMAIN facts : facts[i]})
  <2>1. /\ report' = [f \in Families |-> Degraded(outcomes[f], n)]
        /\ family = Len(DeclaredFamilies)
        /\ UNCHANGED <<observation, envelope>>
    BY <1>1 DEF Answer, documents
  <2>2. n \in Nat
    BY FactsCounted
  <2> HIDE DEF n
  <2>3. DOMAIN outcomes = Families
    BY <2>1, FamiliesAreListed DEF Walked
  <2>4. ASSUME NEW f \in Families PROVE Tallied(Degraded(outcomes[f], n))
    <3>1. Tallied(outcomes[f])
      BY <2>3 DEF Balance
    <3> QED BY <2>2, <3>1, DegradedTallied
  <2>5. report' \in [Families -> FamilyOutcome] /\ \A f \in Families : Tallied(report'[f])
    BY <2>1, <2>4 DEF Tallied
  <2> QED BY <2>1, <2>5 DEF Books
<1>2. ASSUME NEW collector \in {"d", ""}, NEW source \in {"d", ""}, File(collector, source)
      PROVE  Books'
  <2>1. /\ report # None /\ UNCHANGED <<report, envelope>>
        /\ observation' = Observation(report, collector, source)
        /\ collector # ""
    BY <1>2 DEF File, Fileable
  <2>2. Balanced(observation')
    BY <2>1, ObservationBalances DEF Books
  <2>3. observation'.collector # ""
    BY <2>1 DEF Observation
  <2> QED BY <2>1, <2>2, <2>3 DEF Books
<1>3. ASSUME observation # None, NEW document \in {observation, Historical},
             NEW request, NEW clash, Project(document, request, clash)
      PROVE  Books'
  <2>1. UNCHANGED <<report, observation>> /\ envelope' = Envelope(document, "running", request)
    BY <1>3 DEF Project
  <2>2. Balanced(document)
    BY <1>3, HistoricalBalances DEF Books, Historical
  <2> QED BY <2>1, <2>2 DEF Books
<1>4. CASE UNCHANGED <<report, observation, envelope>>
  BY <1>4 DEF Books
<1>5. \/ Answer
      \/ \E collector, source \in {"d", ""} : File(collector, source)
      \/ /\ observation # None
         /\ \E document \in {observation, Historical} : \E request, clash :
                Project(document, request, clash)
      \/ UNCHANGED <<report, observation, envelope>>
  BY DEF Next, vars, documents, Begin, List, Read, Run, Finish, Step, Look, Ask, Change
<1> QED BY <1>1, <1>2, <1>3, <1>4, <1>5

\* Whatever was degraded, refused or cut short: what the envelope attributes and
\* what it does not are together what its families found.
THEOREM EnvelopesAddUp == Spec => []CustodyAddsUp
<1>1. Init => Walked /\ Noted /\ Balance /\ Books
  <2> SUFFICES ASSUME Init PROVE Walked /\ Noted /\ Balance /\ Books
    OBVIOUS
  <2>1. Walked /\ Noted
    BY InitWalked
  <2>2. DOMAIN outcomes = {}
    BY DEF Init
  <2> QED BY <2>1, <2>2 DEF Init, Balance, Books
<1>2. Books => CustodyAddsUp
  <2> SUFFICES ASSUME Books, envelope # None PROVE CustodyAddsUp
    BY DEF CustodyAddsUp
  <2>1. PICK document, request : /\ Balanced(document)
                                 /\ envelope = Envelope(document, "running", request)
    BY DEF Books
  <2>2. /\ envelope.attributed = document.attributed
        /\ envelope.unattributed = document.unattributed
        /\ \A f \in Families : envelope.coverage[f].found = document.families[f].found
    BY <2>1 DEF Envelope
  <2>3. [f \in Families |-> envelope.coverage[f].found]
            = [f \in Families |-> document.families[f].found]
    BY <2>2
  <2> QED BY <2>1, <2>2, <2>3 DEF Balanced, CustodyAddsUp
<1> QED BY <1>1, <1>2, NextWalked, NextNoted, NextBalance, NextBooks, PTL DEF Spec

\* What the host's changes and the operator's exclusions are bounded by.
Bounded == skipped \in Skips /\ changes \in 0..MaxChanges /\ touched \subseteq Places

LEMMA NextBounded == Bounded /\ [Next]_vars => Bounded'
<1> SUFFICES ASSUME Bounded, [Next]_vars PROVE Bounded'
  OBVIOUS
<1>1. skipped' = skipped
  BY DEF Next, vars, Begin, List, Read, Run, Finish, Step, Look, Answer, File, Project, Ask,
         Change
<1>2. CASE Change
  <2>1. /\ changes' = changes + 1 /\ changes < MaxChanges /\ MaxChanges \in Nat
        /\ touched' = touched \cup {p \in Places : host'[p] # host[p]}
    BY <1>2, CensusAssumption DEF Change
  <2> QED BY <1>1, <2>1 DEF Bounded
<1>3. CASE UNCHANGED <<changes, touched>>
  BY <1>1, <1>3 DEF Bounded
<1>4. Change \/ UNCHANGED <<changes, touched>>
  BY DEF Next, vars, Begin, List, Read, Run, Finish, Step, Look, Answer, File, Project, Ask
<1> QED BY <1>2, <1>3, <1>4

\* The walk, the outcomes and the documents are well formed, the counts of what a
\* walk and a family found among them, and a walk only asks what a source answers.
THEOREM CensusTypes == Spec => []TypeOK
<1>1. Init => Walked /\ Noted /\ Balance /\ Books /\ Bounded /\ Filed
  <2> SUFFICES ASSUME Init PROVE Walked /\ Noted /\ Balance /\ Books /\ Bounded /\ Filed
    OBVIOUS
  <2>1. Walked /\ Noted
    BY InitWalked
  <2>2. DOMAIN outcomes = {}
    BY DEF Init
  <2> QED BY <2>1, <2>2, CensusAssumption DEF Init, Balance, Books, Bounded, Filed
<1>2. Walked /\ Noted /\ Balance /\ Books /\ Bounded /\ Filed => TypeOK
  <2> SUFFICES ASSUME Walked, Noted, Balance, Books, Bounded, Filed PROVE TypeOK
    OBVIOUS
  <2>1. ASSUME walk # None
        PROVE  /\ Outcome(walk, TRUE) \in FamilyOutcome
               /\ \A i \in DOMAIN walk.todo : walk.todo[i].call \in {"list", "read", "run"}
    <3>1. IsTally(walk) /\ Listed(walk.todo)
      BY <2>1 DEF Balance, Agenda
    <3>2. Outcome(walk, TRUE) \in FamilyOutcome
      BY <3>1, CountsTally DEF Tallied
    <3>3. \A i \in DOMAIN walk.todo : walk.todo[i] \in ToSet(walk.todo)
      BY DEF ToSet
    <3> QED BY <3>1, <3>2, <3>3 DEF Listed
  <2>2. \A f \in DOMAIN outcomes : outcomes[f] \in FamilyOutcome
    BY DEF Balance, Tallied
  <2>3. answer # None => answer.verdict \in {"DISCHARGED", "REFUSED", "UNKNOWN"}
    BY DEF Filed, Interlock
  <2>4. observation # None => observation \in Document /\ observation.collector # ""
    BY DEF Books, Balanced
  <2> QED BY <2>1, <2>2, <2>3, <2>4 DEF TypeOK, Walked, Noted, Bounded, Books
<1> QED BY <1>1, <1>2, NextWalked, NextNoted, NextBalance, NextBooks, NextBounded, NextFiled,
           PTL DEF Spec

-----------------------------------------------------------------------------
(* A total misses nothing, and counts nothing twice.                         *)

At(h, p) == Consumers(h[p].text)

\* What a place refers to, as far as it is among the places X: a unit that mentions
\* a file twice reads it twice.
Mentions(h, p, X) ==
    [i \in DOMAIN h[p].text.refers |->
        IF h[p].text.refers[i] \in X THEN At(h, h[p].text.refers[i]) ELSE 0]
From(h, f, p, X) ==
    IF Unit(f) THEN SumOver(Mentions(h, p, X), DOMAIN h[p].text.refers) ELSE 0

Worth(h, f, X) == [p \in Places |-> At(h, p) + From(h, f, p, X)]

\* The places of X that make a family's total, and those of them that no call ahead
\* leads to.
Present(h, f, X) ==
    {p \in Territory(f) \cap X :
        /\ h[p].fails = "no"
        /\ Parsed(f, IF p \in ToSet(Named[f]) THEN "shared" ELSE "entry", h[p].text)}
Behind(h, f, X, calls) == {p \in Present(h, f, X) : ~Ahead(f, p, calls)}
Booked(h, f, X, calls) == SumOver(Worth(h, f, X), Behind(h, f, X, calls))

\* What is still to be counted by the calls ahead for what a unit referred to.
Owes(h, X, c) == IF c = Refers(c.at) /\ c.at \in X THEN At(h, c.at) ELSE 0
Owed(h, X, s) == [i \in DOMAIN s |-> Owes(h, X, s[i])]
Due(h, X, s) == SumOver(Owed(h, X, s), DOMAIN s)

LEMMA PlacesCount ==
    ASSUME NEW h \in Hosts, NEW p \in Places
    PROVE  /\ At(h, p) \in Nat /\ DOMAIN h[p].text.refers = 1..Len(h[p].text.refers)
           /\ Len(h[p].text.refers) \in Nat
<1>1. /\ h[p].text.dsns \in Nat /\ h[p].text.malformed \in Nat
      /\ h[p].text.refers \in Seq(ToSet(h[p].text.refers))
  BY CensusAssumption
<1>2. At(h, p) \in Nat
  BY <1>1 DEF At, Consumers
<1> QED BY <1>1, <1>2, LenProperties

LEMMA MentionsCount ==
    ASSUME NEW h \in Hosts, NEW p \in Places, NEW X \in SUBSET Places
    PROVE  /\ IsFiniteSet(DOMAIN h[p].text.refers)
           /\ \A i \in DOMAIN h[p].text.refers : Mentions(h, p, X)[i] \in Nat
           /\ SumOver(Mentions(h, p, X), DOMAIN h[p].text.refers) \in Nat
<1> DEFINE n == Len(h[p].text.refers)
<1>1. n \in Nat /\ DOMAIN h[p].text.refers = 1..n
  BY PlacesCount
<1>2. IsFiniteSet(DOMAIN h[p].text.refers)
  <2> HIDE DEF n
  <2> QED BY <1>1, FS_Interval
<1>3. ASSUME NEW i \in DOMAIN h[p].text.refers PROVE Mentions(h, p, X)[i] \in Nat
  <2>1. \A e \in X : At(h, e) \in Nat
    BY PlacesCount
  <2> QED BY <2>1 DEF Mentions
<1>4. \A S \in SUBSET DOMAIN h[p].text.refers : SumOver(Mentions(h, p, X), S) \in Nat
  <2>1. \A i \in DOMAIN h[p].text.refers : Mentions(h, p, X)[i] \in Nat
    BY <1>3
  <2> QED BY <1>2, <2>1, SumIsNatural
<1> QED BY <1>2, <1>3, <1>4

LEMMA WorthIsNatural ==
    ASSUME NEW h \in Hosts, NEW f, NEW X \in SUBSET Places
    PROVE  /\ \A p \in Places : Worth(h, f, X)[p] \in Nat
           /\ \A S \in SUBSET Places : SumOver(Worth(h, f, X), S) \in Nat
<1>1. ASSUME NEW p \in Places PROVE Worth(h, f, X)[p] \in Nat
  <2>1. At(h, p) \in Nat
    BY PlacesCount
  <2>2. From(h, f, p, X) \in Nat
    <3>1. SumOver(Mentions(h, p, X), DOMAIN h[p].text.refers) \in Nat
      BY MentionsCount
    <3> QED BY <3>1 DEF From
  <2>3. Worth(h, f, X)[p] = At(h, p) + From(h, f, p, X)
    BY DEF Worth
  <2> QED BY <2>1, <2>2, <2>3
<1>2. IsFiniteSet(Places)
  BY CensusAssumption
<1>3. \A p \in Places : Worth(h, f, X)[p] \in Nat
  BY <1>1
<1> QED BY <1>2, <1>3, SumIsNatural

LEMMA BehindArePlaces ==
    ASSUME NEW h, NEW f, NEW X \in SUBSET Places, NEW calls
    PROVE  /\ Present(h, f, X) \in SUBSET Places /\ Behind(h, f, X, calls) \in SUBSET Places
           /\ Behind(h, f, X, {}) = Present(h, f, X)
  BY DEF Present, Behind, Ahead

LEMMA BookedIsNatural ==
    ASSUME NEW h \in Hosts, NEW f, NEW X \in SUBSET Places, NEW calls
    PROVE  Booked(h, f, X, calls) \in Nat
<1>1. \A S \in SUBSET Places : SumOver(Worth(h, f, X), S) \in Nat
  BY WorthIsNatural
<1> QED BY <1>1, BehindArePlaces DEF Booked

LEMMA OwesIsNatural ==
    ASSUME NEW h \in Hosts, NEW X \in SUBSET Places
    PROVE  \A c : Owes(h, X, c) \in Nat
<1>1. \A e \in X : At(h, e) \in Nat
  BY PlacesCount
<1> QED BY <1>1 DEF Owes

LEMMA DueIsNatural ==
    ASSUME NEW h \in Hosts, NEW X \in SUBSET Places, NEW s, s \in Seq(ToSet(s))
    PROVE  Due(h, X, s) \in Nat
<1>1. DOMAIN s = 1..Len(s) /\ Len(s) \in Nat
  BY LenProperties
<1>2. IsFiniteSet(DOMAIN s)
  BY <1>1, FS_Interval
<1>3. \A i \in DOMAIN s : Owed(h, X, s)[i] \in Nat
  BY OwesIsNatural DEF Owed
<1>4. \A S \in SUBSET DOMAIN s : SumOver(Owed(h, X, s), S) \in Nat
  BY <1>2, <1>3, SumIsNatural
<1> QED BY <1>4 DEF Due

LEMMA DueOfBoth ==
    ASSUME NEW h \in Hosts, NEW X \in SUBSET Places,
           NEW a, NEW b, a \in Seq(ToSet(a)), b \in Seq(ToSet(b))
    PROVE  Due(h, X, a \o b) = Due(h, X, a) + Due(h, X, b)
<1> DEFINE S == ToSet(a) \cup ToSet(b)
<1>1. a \in Seq(S) /\ b \in Seq(S)
  BY SeqDef
<1>2. /\ a \o b \in Seq(S) /\ Len(a \o b) = Len(a) + Len(b)
      /\ \A i \in 1..(Len(a) + Len(b)) :
             (a \o b)[i] = IF i <= Len(a) THEN a[i] ELSE b[i - Len(a)]
  BY <1>1, ConcatProperties
<1>3. /\ DOMAIN a = 1..Len(a) /\ DOMAIN b = 1..Len(b) /\ Len(a) \in Nat /\ Len(b) \in Nat
      /\ DOMAIN (a \o b) = 1..Len(a) + Len(b)
  BY <1>1, <1>2, LenProperties
<1> HIDE DEF S
<1>4. \A i \in 1..Len(a) + Len(b) : Owed(h, X, a \o b)[i] \in Nat
  BY <1>3, OwesIsNatural DEF Owed
<1>5. \A i \in 1..Len(a) : Owed(h, X, a)[i] = Owed(h, X, a \o b)[i]
  <2>1. ASSUME NEW i \in 1..Len(a) PROVE Owed(h, X, a)[i] = Owed(h, X, a \o b)[i]
    <3>1. i \in DOMAIN a /\ i \in DOMAIN (a \o b) /\ (a \o b)[i] = a[i]
      BY <1>2, <1>3
    <3> QED BY <3>1 DEF Owed
  <2> QED BY <2>1
<1>6. \A i \in 1..Len(b) : Owed(h, X, b)[i] = Owed(h, X, a \o b)[Len(a) + i]
  <2>1. ASSUME NEW i \in 1..Len(b) PROVE Owed(h, X, b)[i] = Owed(h, X, a \o b)[Len(a) + i]
    <3>1. i \in DOMAIN b /\ Len(a) + i \in DOMAIN (a \o b) /\ (a \o b)[Len(a) + i] = b[i]
      BY <1>2, <1>3
    <3> QED BY <3>1 DEF Owed
  <2> QED BY <2>1
<1>7. /\ SumOver(Owed(h, X, a), 1..Len(a)) \in Nat
      /\ SumOver(Owed(h, X, b), 1..Len(b)) \in Nat
      /\ SumOver(Owed(h, X, a \o b), 1..Len(a) + Len(b))
             = SumOver(Owed(h, X, a), 1..Len(a)) + SumOver(Owed(h, X, b), 1..Len(b))
  <2>1. Len(a) \in Nat /\ Len(b) \in Nat
    BY <1>3
  <2>2. Joins(Owed(h, X, a \o b), Owed(h, X, a), Len(a), Owed(h, X, b), Len(b))
    BY <1>4, <1>5, <1>6 DEF Joins
  <2> QED BY <2>1, <2>2, SumAlong
<1> QED BY <1>3, <1>7 DEF Due

LEMMA DueOfRest ==
    ASSUME NEW h \in Hosts, NEW X \in SUBSET Places, NEW s, s \in Seq(ToSet(s)), s # <<>>
    PROVE  Due(h, X, s) = Owes(h, X, Head(s)) + Due(h, X, Tail(s))
<1> DEFINE n == Len(Tail(s))
<1>1. /\ Tail(s) \in Seq(ToSet(s)) /\ Len(Tail(s)) = Len(s) - 1
      /\ \A i \in 1..Len(Tail(s)) : Tail(s)[i] = s[i + 1]
      /\ Head(s) = s[1] /\ Len(s) \in Nat \ {0}
  BY HeadTailProperties, LenProperties, EmptySeq
<1>2. DOMAIN s = 1..1 + n /\ DOMAIN Tail(s) = 1..n /\ n \in Nat
  BY <1>1, LenProperties
<1> HIDE DEF n
<1>3. \A i \in 1..1 + n : Owed(h, X, s)[i] \in Nat
  BY <1>2, OwesIsNatural DEF Owed
<1>4. \A i \in 1..n : Owed(h, X, Tail(s))[i] = Owed(h, X, s)[1 + i]
  <2>1. ASSUME NEW i \in 1..n PROVE Owed(h, X, Tail(s))[i] = Owed(h, X, s)[1 + i]
    <3>1. i \in DOMAIN Tail(s) /\ 1 + i \in DOMAIN s /\ Tail(s)[i] = s[1 + i]
      BY <1>1, <1>2 DEF n
    <3> QED BY <3>1 DEF Owed
  <2> QED BY <2>1
<1>5. SumOver(Owed(h, X, s), 1..1 + n)
          = SumOver(Owed(h, X, s), 1..1) + SumOver(Owed(h, X, Tail(s)), 1..n)
  <2>2. n \in Nat /\ 1 \in Nat
    BY <1>2
  <2> DEFINE F == Owed(h, X, s)
             G == Owed(h, X, Tail(s))
  <2> HIDE DEF F, G
  <2>3. (\A i \in 1..1 + n : F[i] \in Nat) /\ (\A i \in 1..1 : F[i] = F[i])
    BY Zenon, <1>3 DEF F
  <2>4. \A i \in 1..n : G[i] = F[1 + i]
    BY Zenon, <1>4 DEF F, G
  <2>5. /\ SumOver(F, 1..1) \in Nat /\ SumOver(G, 1..n) \in Nat
        /\ SumOver(F, 1..1 + n) = SumOver(F, 1..1) + SumOver(G, 1..n)
    <3>1. Joins(F, F, 1, G, n)
      BY <2>3, <2>4 DEF Joins
    <3>2. PICK m \in Nat : m = 1
      OBVIOUS
    <3>3. Joins(F, F, m, G, n)
      BY Zenon, <3>1, <3>2
    <3>4. /\ SumOver(F, 1..m) \in Nat /\ SumOver(G, 1..n) \in Nat
          /\ SumOver(F, 1..m + n) = SumOver(F, 1..m) + SumOver(G, 1..n)
      BY <2>2, <3>3, SumAlong
    <3> QED BY Zenon, <3>2, <3>4
  <2> QED BY Zenon, <2>5 DEF F, G
<1>6. SumOver(Owed(h, X, s), 1..1) = Owes(h, X, Head(s))
  <2>1. IsFiniteSet({1}) /\ 1..1 = {1}
    <3>1. IsFiniteSet({1})
      BY FS_Singleton
    <3>2. 1..1 = {1}
      OBVIOUS
    <3> QED BY <3>1, <3>2
  <2>2. One(1..1) = 1 /\ 1..1 # {} /\ (1..1) \ {1} = {}
    BY SMTT(30), <2>1, OneIsIn
  <2>3. SumOver(Owed(h, X, s), 1..1) = Owed(h, X, s)[1] + SumOver(Owed(h, X, s), {})
    BY ZenonT(40), <2>1, <2>2, SumStep
  <2>4. SumOver(Owed(h, X, s), {}) = 0
    BY FS_EmptySet, SumStep
  <2>5. 1 \in DOMAIN s /\ Owed(h, X, s)[1] \in Nat
    BY <1>2, <1>3
  <2>6. Owed(h, X, s)[1] = Owes(h, X, Head(s))
    BY <1>1, <2>5 DEF Owed
  <2> QED BY <2>3, <2>4, <2>5, <2>6
<1> QED BY <1>2, <1>5, <1>6 DEF Due

LEMMA DueOfNone ==
    ASSUME NEW h, NEW X, NEW s, s \in Seq(ToSet(s)), \A c \in ToSet(s) : Owes(h, X, c) = 0
    PROVE  Due(h, X, s) = 0
<1>1. DOMAIN s = 1..Len(s) /\ Len(s) \in Nat
  BY LenProperties
<1>2. IsFiniteSet(DOMAIN s)
  BY <1>1, FS_Interval
<1>3. \A i \in DOMAIN s : Owed(h, X, s)[i] = 0
  BY DEF Owed, ToSet
<1>4. \A S \in SUBSET DOMAIN s : SumOver(Owed(h, X, s), S) = 0
  BY <1>2, <1>3, SumOfNothing
<1> QED BY <1>4 DEF Due

\* The calls for what a place refers to owe what it mentions.
LEMMA DueOfMentions ==
    ASSUME NEW h \in Hosts, NEW X \in SUBSET Places, NEW p \in Places
    PROVE  Due(h, X, Calls("read", h[p].text.refers, "environment"))
               = SumOver(Mentions(h, p, X), DOMAIN h[p].text.refers)
<1> DEFINE refers == h[p].text.refers
           s == Calls("read", refers, "environment")
<1>1. DOMAIN s = DOMAIN refers
  BY DEF Calls
<1>2. ASSUME NEW i \in DOMAIN refers PROVE Owed(h, X, s)[i] = Mentions(h, p, X)[i]
  <2>1. s[i] = Refers(refers[i]) /\ s[i].at = refers[i]
    BY DEF Calls, Refers, Call
  <2>2. Owed(h, X, s)[i] = Owes(h, X, s[i])
    BY <1>1 DEF Owed
  <2>3. Owes(h, X, s[i]) = IF refers[i] \in X THEN At(h, refers[i]) ELSE 0
    BY <2>1 DEF Owes
  <2> QED BY <2>2, <2>3 DEF Mentions
<1>3. IsFiniteSet(DOMAIN refers)
  BY MentionsCount
<1> HIDE DEF s, refers
<1>4. \A S \in SUBSET DOMAIN refers : SumOver(Owed(h, X, s), S) = SumOver(Mentions(h, p, X), S)
  <2>1. \A i \in DOMAIN refers : Owed(h, X, s)[i] = Mentions(h, p, X)[i]
    BY <1>2
  <2> QED BY <1>3, <2>1, SumOfTheSame
<1>5. Due(h, X, s) = SumOver(Owed(h, X, s), DOMAIN refers)
  BY <1>1 DEF Due
<1> QED BY <1>4, <1>5 DEF s, refers

LEMMA BookedOneMore ==
    ASSUME NEW h \in Hosts, NEW f, NEW X \in SUBSET Places, NEW before, NEW after,
           NEW p \in Places
    PROVE  /\ Behind(h, f, X, after) \subseteq Behind(h, f, X, before) \cup {p}
                  => Booked(h, f, X, after) <= Booked(h, f, X, before) + Worth(h, f, X)[p]
           /\ p \notin Behind(h, f, X, before)
                 /\ Behind(h, f, X, after) = Behind(h, f, X, before) \cup {p}
                  => Booked(h, f, X, after) = Booked(h, f, X, before) + Worth(h, f, X)[p]
<1> DEFINE B == Behind(h, f, X, before)
           A == Behind(h, f, X, after)
           v == Worth(h, f, X)
           S(t) == SumOver(v, t)
<1>1. IsFiniteSet(Places)
  BY CensusAssumption
<1>2. \A q \in Places : v[q] \in Nat
  BY WorthIsNatural
<1>3. A \in SUBSET Places /\ B \in SUBSET Places
  BY BehindArePlaces
<1>4. S(A) = Booked(h, f, X, after) /\ S(B) = Booked(h, f, X, before)
  BY DEF Booked
<1> HIDE DEF A, B, v
<1>5. /\ \A t \in SUBSET Places : S(t) \in Nat
      /\ \A t \in SUBSET Places : \A q \in t : S(t) = v[q] + S(t \ {q})
  BY <1>1, <1>2, SumIsNatural, SumWithout
<1>6. p \notin B => S(B \cup {p}) = S(B) + v[p]
  <2>1. B \cup {p} \in SUBSET Places /\ p \in B \cup {p}
    BY <1>3
  <2>2. p \notin B => (B \cup {p}) \ {p} = B
    OBVIOUS
  <2>3. S(B \cup {p}) = v[p] + S((B \cup {p}) \ {p})
    BY <1>5, <2>1
  <2>4. v[p] \in Nat /\ S(B) \in Nat
    BY <1>2, <1>3, <1>5
  <2>5. \A a, b \in Nat : a + b = b + a
    OBVIOUS
  <2> QED BY Zenon, <2>2, <2>3, <2>4, <2>5
<1>7. A \subseteq B \cup {p} => S(A) <= S(B \cup {p})
  BY <1>1, <1>2, <1>3, SumOfFewer
<1>8. p \in B => B \cup {p} = B
  OBVIOUS
<1>9. v[p] \in Nat /\ S(B) \in Nat /\ S(A) \in Nat
  BY <1>2, <1>3, <1>5
<1> HIDE DEF S
<1>10. A \subseteq B \cup {p} => S(A) <= S(B) + v[p]
  BY <1>6, <1>7, <1>8, <1>9
<1>11. p \notin B /\ A = B \cup {p} => S(A) = S(B) + v[p]
  BY <1>6
<1>12. /\ A \subseteq B \cup {p}
               => Booked(h, f, X, after) <= Booked(h, f, X, before) + v[p]
       /\ p \notin B /\ A = B \cup {p}
               => Booked(h, f, X, after) = Booked(h, f, X, before) + v[p]
  BY Zenon, <1>4, <1>10, <1>11
<1>13. /\ A = Behind(h, f, X, after) /\ B = Behind(h, f, X, before)
       /\ v[p] = Worth(h, f, X)[p]
  BY DEF A, B, v
<1> QED BY Zenon, <1>12, <1>13

\* Walks and families that missed nothing so far.
Clean(w) == ~w.ledger.exhausted /\ w.ledger.errors = <<>>
CleanOutcome(o) == o.scan.attempted /\ o.scan.completed /\ o.scan.errors = <<>>

Counted(w) == w.attributed + w.unattributed

LEMMA CleanKept ==
    ASSUME NEW w, IsTally(w)
    PROVE  /\ Counted(w) \in Nat
           /\ ~Clean(Exhaust(w))
           /\ \A todo : LET v == [w EXCEPT !.todo = todo]
                        IN  (Clean(v) <=> Clean(w)) /\ Counted(v) = Counted(w)
           /\ \A n : LET v == [w EXCEPT !.ledger.files = n]
                     IN  (Clean(v) <=> Clean(w)) /\ Counted(v) = Counted(w)
           /\ \A n : LET v == [w EXCEPT !.ledger.bytes = n]
                     IN  (Clean(v) <=> Clean(w)) /\ Counted(v) = Counted(w)
           /\ \A calls : /\ Clean(Queue(w, calls)) <=> Clean(w)
                         /\ Counted(Queue(w, calls)) = Counted(w)
<1>1. IsWalk(w) /\ w.attributed \in Nat /\ w.unattributed \in Nat
  BY DEF IsTally
<1>2. Counted(w) \in Nat
  BY <1>1 DEF Counted
<1>3. ~Clean(Exhaust(w))
  BY <1>1 DEF IsWalk, Exhaust, Clean
<1>4. \A todo : LET v == [w EXCEPT !.todo = todo]
                IN  (Clean(v) <=> Clean(w)) /\ Counted(v) = Counted(w)
  BY <1>1 DEF IsWalk, Clean, Counted
<1>5. \A n : LET v == [w EXCEPT !.ledger.files = n]
             IN  (Clean(v) <=> Clean(w)) /\ Counted(v) = Counted(w)
  BY <1>1 DEF IsWalk, Clean, Counted
<1>6. \A n : LET v == [w EXCEPT !.ledger.bytes = n]
             IN  (Clean(v) <=> Clean(w)) /\ Counted(v) = Counted(w)
  BY <1>1 DEF IsWalk, Clean, Counted
<1>7. \A calls : /\ Clean(Queue(w, calls)) <=> Clean(w)
                 /\ Counted(Queue(w, calls)) = Counted(w)
  BY <1>1 DEF IsWalk, Clean, Counted, Queue
<1> QED BY <1>2, <1>3, <1>4, <1>5, <1>6, <1>7

LEMMA CleanNote ==
    ASSUME NEW w, IsTally(w), NEW codes \in Seq(Codes)
    PROVE  /\ Clean(Note(w, codes)) => Clean(w) /\ codes = <<>>
           /\ Counted(Note(w, codes)) = Counted(w)
<1>1. /\ Note(w, codes).ledger.errors = w.ledger.errors \o codes
      /\ Note(w, codes).ledger.exhausted = w.ledger.exhausted
      /\ Note(w, codes).attributed = w.attributed
      /\ Note(w, codes).unattributed = w.unattributed
      /\ w.ledger.errors \in Seq(Codes)
  BY DEF IsTally, IsWalk, Note
<1>2. w.ledger.errors \o codes = <<>> => w.ledger.errors = <<>> /\ codes = <<>>
  BY <1>1, NeitherHasAny
<1> QED BY Zenon, <1>1, <1>2 DEF Clean, Counted

LEMMA CleanCount ==
    ASSUME NEW w, IsTally(w), NEW as, NEW n \in Nat
    PROVE  /\ Clean(Count(w, as, n)) <=> Clean(w)
           /\ Counted(Count(w, as, n)) = Counted(w) + n
<1>1. /\ w.attributed \in Nat /\ w.unattributed \in Nat
      /\ Count(w, as, n).ledger = w.ledger
      /\ \/ /\ Count(w, as, n).attributed = w.attributed
            /\ Count(w, as, n).unattributed = w.unattributed + n
         \/ /\ Count(w, as, n).attributed = w.attributed + n
            /\ Count(w, as, n).unattributed = w.unattributed
  BY DEF IsTally, IsWalk, Count
<1>2. \A a, b \in Nat : (a + n) + b = (a + b) + n /\ a + (b + n) = (a + b) + n
  OBVIOUS
<1> QED BY ZenonT(40), <1>1, <1>2 DEF Clean, Counted

LEMMA DueOfQueue ==
    ASSUME NEW h \in Hosts, NEW X \in SUBSET Places,
           NEW w, IsTally(w), NEW calls, calls \in Seq(ToSet(calls))
    PROVE  Due(h, X, Queue(w, calls).todo) = Due(h, X, w.todo) + Due(h, X, calls)
<1>1. w.todo \in Seq(ToSet(w.todo)) /\ IsWalk(w)
  BY DEF IsTally
<1>2. Queue(w, calls).todo \in {w.todo \o calls, calls \o w.todo}
  BY <1>1 DEF IsWalk, Queue
<1>3. Due(h, X, w.todo) \in Nat /\ Due(h, X, calls) \in Nat
  BY <1>1, DueIsNatural
<1>4. /\ Due(h, X, w.todo \o calls) = Due(h, X, w.todo) + Due(h, X, calls)
      /\ Due(h, X, calls \o w.todo) = Due(h, X, calls) + Due(h, X, w.todo)
  BY <1>1, DueOfBoth
<1>5. \A a, b \in Nat : a + b = b + a
  OBVIOUS
<1> QED BY Zenon, <1>2, <1>3, <1>4, <1>5

-----------------------------------------------------------------------------
(* A walk comes by a place once.                                             *)

\* The calls that are on the way to a place: the one that looks into it, and those
\* that list what it is under.
Leads(f, c, p) ==
    \/ Looks(f, p) = c
    \/ /\ p \notin ToSet(Named[f])
       /\ \E n \in 1..Len(p) - 1 : Lists(f, SubSeq(p, 1, n)) = c

Once(f, s) ==
    \A p \in Territory(f) : \A i, j \in DOMAIN s : Leads(f, s[i], p) /\ Leads(f, s[j], p) => i = j

\* What a family lists: its directories, and their directories where it goes on.
Roots(f) ==
    ToSet(Directories[f]) \cup
    {q \in Inside(f, 2) : f = "compose" \/ (f = "systemd_dropin" /\ KindOf[q[2]] = "dropins")}

\* A call is for what a unit refers to, or on the way to some place.
Proper(f, c) ==
    \/ c = Refers(c.at)
    \/ \E p \in Territory(f) : c = Looks(f, p)
    \/ \E q \in Roots(f) : c = Lists(f, q)

Orderly(f, s) == Once(f, s) /\ \A c \in ToSet(s) : Proper(f, c)

LEMMA AheadLeads ==
    \A f, p, calls : Ahead(f, p, calls) <=> \E c \in calls : Leads(f, c, p)
  BY DEF Ahead, Leads

LEMMA NothingOrderly == \A f : Orderly(f, <<>>)
<1>1. DOMAIN <<>> = {} /\ ToSet(<<>>) = {}
  BY DEF ToSet
<1> QED BY <1>1 DEF Orderly, Once

LEMMA OnceRest ==
    ASSUME NEW f, NEW s, s \in Seq(ToSet(s)), s # <<>>, Once(f, s)
    PROVE  /\ Once(f, Tail(s))
           /\ \A p \in Territory(f) :
                  Leads(f, Head(s), p) => ~Ahead(f, p, ToSet(Tail(s)))
<1>1. /\ Tail(s) \in Seq(ToSet(s)) /\ Len(Tail(s)) = Len(s) - 1
      /\ \A i \in 1..Len(Tail(s)) : Tail(s)[i] = s[i + 1]
      /\ Head(s) = s[1] /\ Len(s) \in Nat \ {0}
  BY HeadTailProperties, LenProperties, EmptySeq
<1>2. /\ DOMAIN s = 1..Len(s) /\ DOMAIN Tail(s) = 1..(Len(s) - 1)
  BY <1>1, LenProperties
<1>3. \A i \in DOMAIN Tail(s) : i + 1 \in DOMAIN s /\ Tail(s)[i] = s[i + 1] /\ i + 1 # 1
  BY <1>1, <1>2
<1>4. \A i, j \in DOMAIN Tail(s) : i + 1 = j + 1 => i = j
  BY <1>2
<1>5. 1 \in DOMAIN s
  BY <1>1, <1>2
<1>6. Once(f, Tail(s))
  BY Zenon, <1>3, <1>4 DEF Once
<1>7. ASSUME NEW p \in Territory(f), Leads(f, Head(s), p), Ahead(f, p, ToSet(Tail(s)))
      PROVE  FALSE
  <2>1. PICK i \in DOMAIN Tail(s) : Leads(f, Tail(s)[i], p)
    BY <1>7, AheadLeads DEF ToSet
  <2> QED BY Zenon, <1>1, <1>3, <1>5, <1>7, <2>1 DEF Once
<1> QED BY <1>6, <1>7

LEMMA OnceBoth ==
    ASSUME NEW f, NEW a, NEW b, a \in Seq(ToSet(a)), b \in Seq(ToSet(b)),
           Once(f, a), Once(f, b),
           \A p \in Territory(f) : ~(Ahead(f, p, ToSet(a)) /\ Ahead(f, p, ToSet(b)))
    PROVE  Once(f, a \o b)
<1> DEFINE S == ToSet(a) \cup ToSet(b)
<1>1. a \in Seq(S) /\ b \in Seq(S)
  BY SeqDef
<1>2. /\ Len(a \o b) = Len(a) + Len(b) /\ a \o b \in Seq(S)
      /\ \A i \in 1..(Len(a) + Len(b)) :
             (a \o b)[i] = IF i <= Len(a) THEN a[i] ELSE b[i - Len(a)]
  BY <1>1, ConcatProperties
<1>3. /\ DOMAIN a = 1..Len(a) /\ DOMAIN b = 1..Len(b) /\ Len(a) \in Nat /\ Len(b) \in Nat
      /\ DOMAIN (a \o b) = 1..(Len(a) + Len(b))
  BY <1>1, <1>2, LenProperties
<1> SUFFICES ASSUME NEW p \in Territory(f), NEW i \in DOMAIN (a \o b), NEW j \in DOMAIN (a \o b),
                    Leads(f, (a \o b)[i], p), Leads(f, (a \o b)[j], p)
             PROVE  i = j
  BY DEF Once
<1>4. ASSUME NEW k \in DOMAIN (a \o b)
      PROVE  \/ k \in DOMAIN a /\ (a \o b)[k] = a[k]
             \/ k - Len(a) \in DOMAIN b /\ (a \o b)[k] = b[k - Len(a)] /\ k \in Int
  BY <1>2, <1>3
<1>5. \A k \in DOMAIN a : Leads(f, a[k], p) => Ahead(f, p, ToSet(a))
  BY AheadLeads DEF ToSet
<1>6. \A k \in DOMAIN b : Leads(f, b[k], p) => Ahead(f, p, ToSet(b))
  BY AheadLeads DEF ToSet
<1>7. CASE i \in DOMAIN a /\ (a \o b)[i] = a[i]
  <2>1. ~Ahead(f, p, ToSet(b))
    BY Zenon, <1>5, <1>7
  <2>2. j \in DOMAIN a /\ (a \o b)[j] = a[j]
    BY Zenon, <1>4, <1>6, <2>1
  <2> QED BY Zenon, <1>7, <2>2 DEF Once
<1>8. CASE i - Len(a) \in DOMAIN b /\ (a \o b)[i] = b[i - Len(a)] /\ i \in Int
  <2>1. ~Ahead(f, p, ToSet(a))
    BY Zenon, <1>6, <1>8
  <2>2. j - Len(a) \in DOMAIN b /\ (a \o b)[j] = b[j - Len(a)] /\ j \in Int
    BY Zenon, <1>4, <1>5, <2>1
  <2>3. i - Len(a) = j - Len(a)
    BY Zenon, <1>8, <2>2 DEF Once
  <2> QED BY <1>3, <1>8, <2>2, <2>3
<1> QED BY Zenon, <1>4, <1>7, <1>8

LEMMA OnceOrdered ==
    ASSUME NEW f, NEW calls, NEW s \in SetToSeqs(calls),
           \A p \in Territory(f) : \A c, d \in calls : Leads(f, c, p) /\ Leads(f, d, p) => c = d
    PROVE  Once(f, s)
<1>1. /\ \A i \in DOMAIN s : s[i] \in calls
      /\ \A i, j \in DOMAIN s : s[i] = s[j] => i = j
  BY DEF SetToSeqs
<1> QED BY Zenon, <1>1 DEF Once

\* What refers to a file leads to no place, and there is nothing to be found below it.
LEMMA ReferringLeadsNowhere == \A f, e, p : ~Leads(f, Refers(e), p)
  BY DEF Leads, Refers, Looks, Lists, Call

LEMMA OpeningOrderly ==
    ASSUME host \in Hosts, NEW f \in Families
    PROVE  Orderly(f, Opening(f))
<1> DEFINE as == IF f = "script" THEN "shared" ELSE "named"
           kind == IF Queued(f) THEN "run" ELSE "list"
           lists == Calls(kind, Directories[f], "root")
           reads == Calls("read", Named[f], as)
<1>1. /\ lists \in Seq(ToSet(lists)) /\ reads \in Seq(ToSet(reads))
      /\ ToSet(lists) = {Call(kind, p, "root") : p \in ToSet(Directories[f])}
      /\ ToSet(reads) = {Call("read", p, as) : p \in ToSet(Named[f])}
  BY CensusAssumption, CallsListed
<1>2. Opening(f) \in {lists \o reads, reads \o lists}
  BY DEF Opening
<1>3. /\ IsInjective(Directories[f]) /\ IsInjective(Named[f])
      /\ \A p \in ToSet(Directories[f]) \cup ToSet(Named[f]) : Len(p) = 1
  BY CensusAssumption
<1>4. /\ DOMAIN lists = DOMAIN Directories[f] /\ DOMAIN reads = DOMAIN Named[f]
      /\ \A i \in DOMAIN lists : lists[i] = Call(kind, Directories[f][i], "root")
      /\ \A i \in DOMAIN reads : reads[i] = Call("read", Named[f][i], as)
  BY DEF Calls
<1> HIDE DEF lists, reads
<1>5. ASSUME NEW p \in Territory(f), NEW q, Leads(f, Call(kind, q, "root"), p),
             q \in ToSet(Directories[f])
      PROVE  p \notin ToSet(Named[f]) /\ q = SubSeq(p, 1, 1)
  <2>1. Looks(f, p) # Call(kind, q, "root")
    BY DEF Looks, Call
  <2>2. PICK n \in 1..Len(p) - 1 : Lists(f, SubSeq(p, 1, n)) = Call(kind, q, "root")
    BY <1>5, <2>1 DEF Leads
  <2>3. p \notin ToSet(Named[f]) /\ SubSeq(p, 1, n) = q
    BY <1>5, <2>1, <2>2 DEF Leads, Lists, Call
  <2>4. p \in Seq(ToSet(p)) /\ Len(p) \in {2, 3}
    BY <2>3, LedTo, CensusAssumption
  <2>5. n = 1
    <3>1. Len(SubSeq(p, 1, n)) = n
      <4>1. n \in 1..Len(p) /\ n \in Int
        BY <2>4
      <4> QED BY <2>4, <4>1, SubSeqProperties
    <3> QED BY <1>3, <1>5, <2>3, <3>1
  <2> QED BY <2>3, <2>5
<1>6. ASSUME NEW p \in Territory(f), NEW q, Leads(f, Call("read", q, as), p)
      PROVE  p \in ToSet(Named[f]) /\ q = p
  BY <1>6 DEF Leads, Looks, Lists, Call
<1>7. Once(f, lists)
  <2> SUFFICES ASSUME NEW p \in Territory(f), NEW i \in DOMAIN lists, NEW j \in DOMAIN lists,
                      Leads(f, lists[i], p), Leads(f, lists[j], p)
               PROVE  i = j
    BY DEF Once
  <2>1. Directories[f][i] \in ToSet(Directories[f]) /\ Directories[f][j] \in ToSet(Directories[f])
    BY <1>4 DEF ToSet
  <2>2. Directories[f][i] = SubSeq(p, 1, 1) /\ Directories[f][j] = SubSeq(p, 1, 1)
    BY Zenon, <1>4, <1>5, <2>1
  <2> QED BY Zenon, <1>3, <1>4, <2>2 DEF IsInjective
<1>8. Once(f, reads)
  <2> SUFFICES ASSUME NEW p \in Territory(f), NEW i \in DOMAIN reads, NEW j \in DOMAIN reads,
                      Leads(f, reads[i], p), Leads(f, reads[j], p)
               PROVE  i = j
    BY DEF Once
  <2>1. Named[f][i] = p /\ Named[f][j] = p
    BY Zenon, <1>4, <1>6
  <2> QED BY Zenon, <1>3, <1>4, <2>1 DEF IsInjective
<1>9. \A p \in Territory(f) : ~(Ahead(f, p, ToSet(lists)) /\ Ahead(f, p, ToSet(reads)))
  <2>1. ASSUME NEW p \in Territory(f), Ahead(f, p, ToSet(lists)) PROVE p \notin ToSet(Named[f])
    <3>1. PICK q \in ToSet(Directories[f]) : Leads(f, Call(kind, q, "root"), p)
      BY <1>1, <2>1, AheadLeads
    <3> QED BY <1>5, <3>1
  <2>2. ASSUME NEW p \in Territory(f), Ahead(f, p, ToSet(reads)) PROVE p \in ToSet(Named[f])
    <3>1. PICK q \in ToSet(Named[f]) : Leads(f, Call("read", q, as), p)
      BY <1>1, <2>2, AheadLeads
    <3> QED BY <1>6, <3>1
  <2> QED BY <2>1, <2>2
<1>10. Once(f, Opening(f))
  <2>1. Once(f, lists \o reads)
    BY <1>1, <1>7, <1>8, <1>9, OnceBoth
  <2>2. Once(f, reads \o lists)
    BY <1>1, <1>7, <1>8, <1>9, OnceBoth
  <2> QED BY <1>2, <2>1, <2>2
<1>11. ToSet(Opening(f)) = ToSet(lists) \cup ToSet(reads)
  <2>1. ToSet(lists \o reads) = ToSet(lists) \cup ToSet(reads)
    BY <1>1, BothListed
  <2>2. ToSet(reads \o lists) = ToSet(lists) \cup ToSet(reads)
    BY <1>1, BothListed
  <2> QED BY <1>2, <2>1, <2>2
<1>12. ASSUME NEW q \in ToSet(Directories[f]) PROVE Proper(f, Call(kind, q, "root"))
  BY DEF Proper, Roots, Lists
<1>13. ASSUME NEW q \in ToSet(Named[f]) PROVE Proper(f, Call("read", q, as))
  <2>1. q \in Territory(f) /\ Call("read", q, as) = Looks(f, q)
    BY DEF Territory, Looks
  <2> QED BY <2>1 DEF Proper
<1>14. \A c \in ToSet(Opening(f)) : Proper(f, c)
  BY <1>1, <1>11, <1>12, <1>13
<1> QED BY <1>10, <1>14 DEF Orderly

LEMMA BelowIs ==
    ASSUME NEW q, NEW r \in Under(q)
    PROVE  /\ r \in Places /\ Len(q) \in Nat \ {0} /\ Len(r) = Len(q) + 1
           /\ SubSeq(r, 1, Len(q)) = q /\ \A i \in 1..Len(q) : r[i] = q[i]
           /\ Head(r) = Head(q) /\ Last(r) = r[Len(r)]
<1> DEFINE S == ToSet(r)
           n == Len(r) - 1
<1>1. r \in Places /\ Len(r) > 1 /\ Front(r) = q
  BY DEF Under
<1>2. r \in Seq(S)
  BY <1>1, CensusAssumption
<1> HIDE DEF S
<1>3. n \in Nat \ {0} /\ Len(r) \in Nat /\ n \in 1..Len(r) /\ 1 \in 1..n
  <2>1. Len(r) \in Nat
    BY <1>2, LenProperties
  <2>2. \A l \in Nat : l > 1 => l - 1 \in Nat \ {0} /\ l - 1 \in 1..l /\ 1 \in 1..l - 1
    OBVIOUS
  <2> QED BY Zenon, <1>1, <2>1, <2>2
<1>4. q = SubSeq(r, 1, n)
  BY <1>1 DEF Front
<1>5. /\ q \in Seq(S) /\ Len(q) = n
      /\ \A i \in 1..n : q[i] = r[i]
  BY <1>2, <1>3, <1>4, SubSeqProperties
<1>6. Head(r) = r[1] /\ Head(q) = q[1]
  OBVIOUS
<1> QED BY <1>1, <1>3, <1>4, <1>5, <1>6 DEF Last

\* What a listing leads on to lies below what was listed, each at a place of its own.
LEMMA EntryLeads ==
    ASSUME host \in Hosts, NEW f \in Families, NEW q, NEW r \in Under(q),
           NEW c \in Follow(f, r),
           NEW p \in Territory(f), Leads(f, c, p)
    PROVE  Leads(f, Lists(f, q), p) /\ r = SubSeq(p, 1, Len(q) + 1)
<1>1. /\ r \in Places /\ Len(q) \in Nat \ {0} /\ Len(r) = Len(q) + 1
      /\ SubSeq(r, 1, Len(q)) = q
  BY BelowIs
<1>2. /\ c.at = r /\ c.as \in {"root", "entry"}
      /\ c.as = "root" => c.call = "list"
  BY DEF Follow, Call
<1>3. p \notin ToSet(Named[f])
  BY <1>2 DEF Leads, Looks, Lists, Call
<1>4. p \in Places /\ Len(p) \in {2, 3} /\ p \in Seq(ToSet(p))
  BY <1>3, LedTo, CensusAssumption
<1>5. PICK m \in 1..Len(p) : r = SubSeq(p, 1, m)
  <2>1. CASE Looks(f, p) = c
    <3>1. r = p
      BY <1>2, <2>1 DEF Looks, Call
    <3>2. SubSeq(p, 1, Len(p)) = p
      BY <1>4, SubSeqFull
    <3>3. Len(p) \in 1..Len(p)
      <4>1. \A l \in {2, 3} : l \in 1..l
        OBVIOUS
      <4> QED BY Zenon, <1>4, <4>1
    <3> QED BY <3>1, <3>2, <3>3
  <2>2. CASE \E n \in 1..Len(p) - 1 : Lists(f, SubSeq(p, 1, n)) = c
    <3>1. PICK n \in 1..Len(p) - 1 : Lists(f, SubSeq(p, 1, n)) = c
      BY <2>2
    <3>2. n \in 1..Len(p) /\ r = SubSeq(p, 1, n)
      BY <1>2, <1>4, <3>1 DEF Lists, Call
    <3> QED BY <3>2
  <2> QED BY <1>3, <2>1, <2>2 DEF Leads
<1>6. m = Len(q) + 1
  <2>1. Len(SubSeq(p, 1, m)) = m
    BY <1>4, SubSeqProperties
  <2> QED BY <1>1, <1>5, <2>1
<1>7. Len(q) \in 1..Len(p) - 1 /\ Len(q) \in 1..Len(p) /\ Len(q) \in 1..m
  BY <1>1, <1>4, <1>6
<1>8. SubSeq(p, 1, Len(q)) = q
  <2>1. /\ SubSeq(p, 1, m) \in Seq(ToSet(p)) /\ Len(SubSeq(p, 1, m)) = m
        /\ \A i \in 1..m : SubSeq(p, 1, m)[i] = p[i]
    BY <1>4, SubSeqProperties
  <2>2. /\ r \in Seq(ToSet(p)) /\ Len(r) = m /\ \A i \in 1..m : r[i] = p[i]
    BY <1>5, <2>1
  <2>3. /\ SubSeq(p, 1, Len(q)) \in Seq(ToSet(p)) /\ Len(SubSeq(p, 1, Len(q))) = Len(q)
        /\ \A i \in 1..Len(q) : SubSeq(p, 1, Len(q))[i] = p[i]
    BY <1>4, <1>7, SubSeqProperties
  <2>4. /\ SubSeq(r, 1, Len(q)) \in Seq(ToSet(p)) /\ Len(SubSeq(r, 1, Len(q))) = Len(q)
        /\ \A i \in 1..Len(q) : SubSeq(r, 1, Len(q))[i] = r[i]
    BY <1>7, <2>2, SubSeqProperties
  <2>5. \A i \in 1..Len(q) : SubSeq(r, 1, Len(q))[i] = SubSeq(p, 1, Len(q))[i]
    <3>1. \A i \in 1..Len(q) : i \in 1..m
      BY <1>1, <1>6
    <3> QED BY Zenon, <2>2, <2>3, <2>4, <3>1
  <2>6. SubSeq(r, 1, Len(q)) = SubSeq(p, 1, Len(q))
    <3>1. Len(SubSeq(r, 1, Len(q))) = Len(SubSeq(p, 1, Len(q)))
      BY <2>3, <2>4
    <3> QED BY <2>3, <2>4, <2>5, <3>1, SeqEqual
  <2> QED BY <1>1, <2>6
<1>9. Leads(f, Lists(f, q), p)
  BY Zenon, <1>3, <1>7, <1>8 DEF Leads
<1> QED BY <1>5, <1>6, <1>9

LEMMA EntryProper ==
    ASSUME NEW f \in Families, NEW q \in Roots(f), NEW r \in Under(q), NEW c \in Follow(f, r)
    PROVE  Proper(f, c)
<1>1. /\ r \in Places /\ Len(q) \in Nat \ {0} /\ Len(r) = Len(q) + 1
      /\ \A i \in 1..Len(q) : r[i] = q[i]
      /\ Head(r) = Head(q) /\ Last(r) = r[Len(r)]
  BY BelowIs
<1>2. /\ \A p \in ToSet(Directories[f]) \cup ToSet(Named[f]) : Len(p) = 1
      /\ f \in {"systemd_service", "systemd_timer"} => Named[f] = <<>>
  BY CensusAssumption
<1>3. r \notin ToSet(Named[f])
  <2>1. Len(r) # 1
    BY <1>1
  <2> QED BY Zenon, <1>2, <2>1
<1>4. Looks(f, r) = Call(IF Queued(f) THEN "run" ELSE "read", r, "entry")
  BY <1>3 DEF Looks
<1>5. CASE q \in ToSet(Directories[f])
  <2>1. Len(q) = 1 /\ Len(r) = 2 /\ Last(r) = r[2]
    BY <1>1, <1>2, <1>5
  <2>2. <<Head(r)>> = q
    <3>1. r \in Seq(ToSet(r)) /\ SubSeq(r, 1, 1) = q
      BY <1>1, <2>1, BelowIs, CensusAssumption
    <3>2. /\ SubSeq(r, 1, 1) \in Seq(ToSet(r)) /\ SubSeq(r, 1, 1)[1] = r[1]
      BY <2>1, <3>1, SubSeqProperties
    <3>3. r[1] \in ToSet(r) /\ Head(r) = r[1]
      <4>1. DOMAIN r = 1..2
        BY <2>1, <3>1, LenProperties
      <4> QED BY <4>1 DEF ToSet
    <3>4. <<r[1]>> \in Seq(ToSet(r)) /\ Len(<<r[1]>>) = 1 /\ <<r[1]>>[1] = r[1]
      BY <3>3
    <3>5. \A i \in 1..1 : q[i] = <<r[1]>>[i]
      <4>1. \A i \in 1..1 : i = 1
        OBVIOUS
      <4> QED BY Zenon, <3>1, <3>2, <3>4, <4>1
    <3>6. q \in Seq(ToSet(r))
      BY <3>1, <3>2
    <3> HIDE DEF ToSet
    <3>7. <<r[1]>> = q
      BY Zenon, <2>1, <3>4, <3>5, <3>6, SeqEqual
    <3> QED BY <3>3, <3>7
  <2>3. r \in Inside(f, 2)
    BY <1>1, <1>5, <2>1, <2>2 DEF Inside
  <2>4. CASE f \in {"systemd_dropin", "compose"}
    <3>1. c = Call("list", r, "root") /\ (f = "systemd_dropin" => KindOf[r[2]] = "dropins")
      BY <2>1, <2>4 DEF Follow, Tabular, Queued
    <3>2. r \in Roots(f) /\ c = Lists(f, r)
      BY <2>3, <2>4, <3>1 DEF Roots, Lists, Queued
    <3> QED BY <3>2 DEF Proper
  <2>5. CASE f \notin {"systemd_dropin", "compose"}
    <3>1. c = Looks(f, r)
      BY <1>4, <2>1, <2>5 DEF Follow, Tabular, Queued
    <3>2. r \in Territory(f)
      BY <2>1, <2>3, <2>5 DEF Follow, Territory, Tabular, Queued
    <3> QED BY <3>1, <3>2 DEF Proper
  <2> QED BY <2>4, <2>5
<1>6. CASE /\ q \in Inside(f, 2)
           /\ f = "compose" \/ (f = "systemd_dropin" /\ KindOf[q[2]] = "dropins")
  <2>1. Len(q) = 2 /\ <<Head(q)>> \in ToSet(Directories[f]) /\ Len(r) = 3 /\ Last(r) = r[3]
    <3>1. Len(q) = 2 /\ <<Head(q)>> \in ToSet(Directories[f])
      BY <1>6 DEF Inside
    <3> QED BY <1>1, <3>1
  <2>2. r \in Inside(f, 3) /\ r[2] = q[2]
    BY <1>1, <2>1 DEF Inside
  <2>3. c = Looks(f, r)
    BY <1>4, <1>6, <2>1 DEF Follow, Tabular, Queued
  <2>4. r \in Territory(f)
    <3>1. CASE f = "compose"
      <4>1. KindOf[r[3]] \in {"compose", "env"}
        BY <2>1, <3>1 DEF Follow, Tabular, Queued
      <4> QED BY <2>2, <3>1, <4>1 DEF Territory, Tabular
    <3>2. CASE f = "systemd_dropin"
      <4>1. KindOf[r[3]] = "conf" /\ KindOf[r[2]] = "dropins"
        BY <1>6, <2>1, <2>2, <3>2 DEF Follow, Tabular, Queued
      <4>2. r \in {p \in Inside(f, 3) : KindOf[p[2]] = "dropins" /\ KindOf[p[3]] = "conf"}
        BY <2>2, <4>1
      <4>3. Territory(f) = ToSet(Named[f]) \cup
                {p \in Inside(f, 3) : KindOf[p[2]] = "dropins" /\ KindOf[p[3]] = "conf"}
        BY <3>2 DEF Territory, Tabular
      <4> QED BY <4>2, <4>3
    <3> QED BY <1>6, <3>1, <3>2
  <2> QED BY <2>3, <2>4 DEF Proper
<1> QED BY <1>5, <1>6 DEF Roots

Ordered == walk # None => Orderly(Current, walk.todo)

LEMMA FollowsOne == \A f, p : \A c, d \in Follow(f, p) : c = d
  BY DEF Follow

LEMMA QueueOrderly ==
    ASSUME NEW f, NEW w, IsTally(w), NEW calls, calls \in Seq(ToSet(calls)),
           Orderly(f, w.todo), Orderly(f, calls),
           \A p \in Territory(f) : ~(Ahead(f, p, ToSet(w.todo)) /\ Ahead(f, p, ToSet(calls)))
    PROVE  Orderly(f, Queue(w, calls).todo)
<1>1. w.todo \in Seq(ToSet(w.todo)) /\ IsWalk(w)
  BY DEF IsTally
<1>2. Queue(w, calls).todo \in {w.todo \o calls, calls \o w.todo}
  BY <1>1 DEF IsWalk, Queue
<1>3. Once(f, w.todo) /\ Once(f, calls)
  BY DEF Orderly
<1>4. Once(f, w.todo \o calls)
  BY <1>1, <1>3, OnceBoth
<1>5. Once(f, calls \o w.todo)
  BY <1>1, <1>3, OnceBoth
<1>6. ToSet(Queue(w, calls).todo) = ToSet(w.todo) \cup ToSet(calls)
  BY QueueTally
<1>7. \A c \in ToSet(Queue(w, calls).todo) : Proper(f, c)
  BY <1>6 DEF Orderly
<1> QED BY <1>2, <1>4, <1>5, <1>7 DEF Orderly

\* The calls for what a unit refers to are orderly, however often it does.
LEMMA ReferredOrderly ==
    ASSUME NEW f, NEW as, NEW text, text.refers \in Seq(ToSet(text.refers))
    PROVE  /\ Referred(f, as, text) \in Seq(ToSet(Referred(f, as, text)))
           /\ \A c \in ToSet(Referred(f, as, text)) : c = Refers(c.at)
           /\ Orderly(f, Referred(f, as, text))
           /\ \A p : ~Ahead(f, p, ToSet(Referred(f, as, text)))
<1> DEFINE calls == Referred(f, as, text)
<1>1. calls \in Seq(ToSet(calls)) /\ \A c \in ToSet(calls) : c = Refers(c.at)
  <2>1. CASE Unit(f) /\ as = "entry"
    <3>1. /\ calls \in Seq(ToSet(calls))
          /\ ToSet(calls) = {Refers(e) : e \in ToSet(text.refers)}
      BY <2>1, CallsListed DEF Referred, Refers
    <3>2. \A e : Refers(e) = Refers(Refers(e).at)
      BY DEF Refers, Call
    <3> QED BY <3>1, <3>2
  <2>2. CASE ~(Unit(f) /\ as = "entry")
    <3>1. calls = <<>> /\ <<>> \in Seq(ToSet(<<>>))
      BY <2>2, EmptySeq DEF Referred
    <3>2. ToSet(calls) = {}
      BY <3>1 DEF ToSet
    <3> QED BY <3>1, <3>2
  <2> QED BY <2>1, <2>2
<1> HIDE DEF calls
<1>2. \A p : ~Ahead(f, p, ToSet(calls))
  BY <1>1, AheadLeads, ReferringLeadsNowhere
<1>3. \A i \in DOMAIN calls : calls[i] \in ToSet(calls)
  BY DEF ToSet
<1>4. Once(f, calls)
  BY <1>2, <1>3, AheadLeads DEF Once
<1>5. Orderly(f, calls)
  BY <1>1, <1>4 DEF Orderly, Proper
<1> QED BY <1>1, <1>2, <1>5 DEF calls

LEMMA RestOrderly ==
    ASSUME NEW f, NEW s, s \in Seq(ToSet(s)), s # <<>>, Orderly(f, s)
    PROVE  /\ Orderly(f, Tail(s)) /\ Proper(f, Head(s))
           /\ \A p \in Territory(f) :
                  Leads(f, Head(s), p) => ~Ahead(f, p, ToSet(Tail(s)))
<1>1. Once(f, s)
  BY DEF Orderly
<1>2. ToSet(s) = {Head(s)} \cup ToSet(Tail(s))
  BY RestListed
<1> QED BY <1>1, <1>2, OnceRest DEF Orderly

\* What a listing found takes the place of the listing.
LEMMA FoundOrderly ==
    ASSUME host \in Hosts, NEW f \in Families, NEW q \in Roots(f),
           NEW w, IsTally(w), Orderly(f, w.todo),
           \A p \in Territory(f) : Leads(f, Lists(f, q), p) => ~Ahead(f, p, ToSet(w.todo)),
           NEW paths \in SUBSET Under(q), NEW calls \in SetToSeqs(Entries(f, paths))
    PROVE  Orderly(f, Queue(w, calls).todo)
<1>1. paths \in SUBSET Places
  BY Underneath
<1>2. calls \in Seq(ToSet(calls)) /\ ToSet(calls) = Entries(f, paths)
  BY <1>1, EntriesAreFinite, OrderedListed
<1>3. ASSUME NEW p \in Territory(f), NEW c \in Entries(f, paths), NEW d \in Entries(f, paths),
             Leads(f, c, p), Leads(f, d, p)
      PROVE  c = d
  <2>1. PICK r \in paths : c \in Follow(f, r)
    BY DEF Entries
  <2>2. PICK t \in paths : d \in Follow(f, t)
    BY DEF Entries
  <2>3. r = SubSeq(p, 1, Len(q) + 1)
    BY <1>3, <2>1, EntryLeads
  <2>4. t = SubSeq(p, 1, Len(q) + 1)
    BY <1>3, <2>2, EntryLeads
  <2> QED BY <2>1, <2>2, <2>3, <2>4, FollowsOne
<1>4. Once(f, calls)
  BY <1>3, OnceOrdered
<1>5. ASSUME NEW c \in ToSet(calls) PROVE Proper(f, c)
  <2>1. PICK r \in paths : c \in Follow(f, r)
    BY <1>2 DEF Entries
  <2> QED BY <2>1, EntryProper
<1>6. ASSUME NEW p \in Territory(f), Ahead(f, p, ToSet(calls))
      PROVE  ~Ahead(f, p, ToSet(w.todo))
  <2>1. PICK c \in Entries(f, paths) : Leads(f, c, p)
    BY <1>2, <1>6, AheadLeads
  <2>2. PICK r \in paths : c \in Follow(f, r)
    BY DEF Entries
  <2>3. Leads(f, Lists(f, q), p)
    BY <2>1, <2>2, EntryLeads
  <2> QED BY <2>3
<1>7. Orderly(f, calls)
  BY <1>4, <1>5 DEF Orderly
<1> QED BY <1>2, <1>6, <1>7, QueueOrderly

\* The walk goes on with an orderly list, or is over.
OnOrder == walk' = None \/ (family' = family /\ Orderly(Current, walk'.todo))

LEMMA ParsedOrder ==
    ASSUME NEW w, IsTally(w), Orderly(Current, w.todo), NEW p, NEW as, NEW text,
           text.dsns \in Nat, text.malformed \in Nat,
           text.refers \in Seq(ToSet(text.refers)),
           Parse(w, p, as, text)
    PROVE  OnOrder
<1>1. CASE ~Parsed(Current, as, text)
  BY <1>1 DEF Parse, OnOrder
<1>2. CASE Parsed(Current, as, text) /\ Raises(text)
  BY <1>2 DEF Parse, OnOrder, Keep
<1>3. CASE Parsed(Current, as, text) /\ ~Raises(text)
  <2> DEFINE n == Consumers(text)
             notes == Notes(Current, as, text)
             calls == Referred(Current, as, text)
             counted == Count(w, as, n)
             noted == Note(counted, notes)
  <2>1. walk' = Queue(noted, calls) /\ UNCHANGED <<family, outcomes>>
    BY <1>3 DEF Parse
  <2>2. n \in Nat
    BY DEF Consumers
  <2>3. notes \in Seq(Codes)
    BY NotesAreCodes
  <2>4. /\ calls \in Seq(ToSet(calls)) /\ Orderly(Current, calls)
        /\ \A q : ~Ahead(Current, q, ToSet(calls))
    BY ReferredOrderly
  <2> HIDE DEF n, notes, calls
  <2>5. IsTally(counted) /\ counted.todo = w.todo
    BY <2>2, CountTally
  <2> HIDE DEF counted
  <2>6. IsTally(noted) /\ noted.todo = w.todo
    BY <2>3, <2>5, NoteTally
  <2> HIDE DEF noted
  <2>7. Orderly(Current, Queue(noted, calls).todo)
    BY <2>4, <2>6, QueueOrderly
  <2> QED BY <2>1, <2>7 DEF OnOrder
<1> QED BY <1>1, <1>2, <1>3

LEMMA RestKeepsOrder ==
    ASSUME Walked, Looking, Ordered, walk # None, walk.todo # <<>>
    PROVE  /\ IsTally(Rest) /\ Rest.todo = Tail(walk.todo)
           /\ Current \in Families /\ Proper(Current, Head(walk.todo))
           /\ Orderly(Current, Rest.todo)
           /\ \A p \in Territory(Current) :
                  Leads(Current, Head(walk.todo), p) => ~Ahead(Current, p, ToSet(Rest.todo))
<1>1. IsTally(walk) /\ walk.todo \in Seq(ToSet(walk.todo))
  BY DEF Looking, IsTally
<1>2. IsTally(Rest)
  BY RestLooking
<1>3. Rest.todo = Tail(walk.todo)
  BY <1>1 DEF Rest, IsTally, IsWalk
<1>4. Current \in Families
  BY CurrentIsFamily DEF Walked
<1>5. Orderly(Current, walk.todo)
  BY DEF Ordered
<1> QED BY <1>1, <1>2, <1>3, <1>4, <1>5, RestOrderly

LEMMA ListOrder == Walked /\ Looking /\ Ordered /\ List => OnOrder
<1> SUFFICES ASSUME Walked, Looking, Ordered, List PROVE OnOrder
  OBVIOUS
<1> DEFINE c == Head(walk.todo)
           p == c.at
           code == Classify(Fails(p))
<1>1. /\ walk # None /\ walk.todo # <<>> /\ c.call = "list" /\ host \in Hosts
      /\ family' = family
  BY DEF List, Step, Walked
<1>2. PICK f : f = Current
  OBVIOUS
<1>3. /\ IsTally(Rest) /\ f \in Families /\ Proper(f, c) /\ Orderly(f, Rest.todo)
      /\ \A q \in Territory(f) : Leads(f, c, q) => ~Ahead(f, q, ToSet(Rest.todo))
  BY <1>1, <1>2, RestKeepsOrder
<1> HIDE DEF c
<1>4. p \in Roots(f) /\ c = Lists(f, p)
  BY <1>1, <1>3 DEF Proper, Refers, Looks, Lists, Call
<1>5. CASE Fails(p) # "no"
  <2>1. walk' = Rest \/ walk' = Note(Rest, <<code>>)
    BY <1>5 DEF List, c
  <2>2. <<code>> \in Seq(Codes)
    BY ClassifiedAsCode
  <2> HIDE DEF code
  <2>3. Note(Rest, <<code>>).todo = Rest.todo
    BY <1>3, <2>2, NoteTally
  <2> QED BY <1>1, <1>2, <1>3, <2>1, <2>3 DEF OnOrder
<1>6. CASE Fails(p) = "no"
  <2>1. PICK paths \in Listings(Under(p)) : \E calls \in SetToSeqs(Entries(Current, paths)) :
               walk' = IF paths = Under(p) THEN Queue(Rest, calls)
                       ELSE Exhaust(Queue(Rest, calls))
    BY <1>6 DEF List, c
  <2>2. PICK calls \in SetToSeqs(Entries(f, paths)) :
               walk' = IF paths = Under(p) THEN Queue(Rest, calls)
                       ELSE Exhaust(Queue(Rest, calls))
    BY <1>2, <2>1
  <2>3. paths \in SUBSET Under(p)
    BY DEF Listings, kSubset
  <2>4. Orderly(f, Queue(Rest, calls).todo)
    BY <1>1, <1>3, <1>4, <2>3, FoundOrderly
  <2>5. Exhaust(Queue(Rest, calls)).todo = Queue(Rest, calls).todo
    <3>1. IsWalk(Queue(Rest, calls))
      BY <1>3, WalkKept DEF IsTally
    <3> QED BY <3>1 DEF IsWalk, Exhaust
  <2>6. walk'.todo = Queue(Rest, calls).todo
    BY <2>2, <2>5
  <2> QED BY <1>1, <1>2, <2>4, <2>6 DEF OnOrder
<1> QED BY <1>5, <1>6

LEMMA ReadOrder == Walked /\ Looking /\ Ordered /\ Read => OnOrder
<1> SUFFICES ASSUME Walked, Looking, Ordered, Read PROVE OnOrder
  OBVIOUS
<1> DEFINE c == Head(walk.todo)
           code == Classify(Fails(c.at))
           spent == [Rest EXCEPT !.ledger.files = @ + 1]
           text == host[c.at].text
           held == [spent EXCEPT !.ledger.bytes = @ + text.size]
<1>1. /\ walk # None /\ walk.todo # <<>> /\ host \in Hosts
  BY DEF Read, Step, Walked
<1>2. /\ IsTally(Rest) /\ Orderly(Current, Rest.todo)
  BY <1>1, RestKeepsOrder
<1>3. IsTally(spent) /\ spent.todo = Rest.todo
  BY <1>2, FilesTally
<1>4. IsTally(held) /\ held.todo = spent.todo
  <2> HIDE DEF spent
  <2> QED BY <1>3, BytesTally
<1>5. \/ /\ walk' \in {spent, Exhaust(spent), Exhaust(held), Note(spent, <<code>>)}
         /\ UNCHANGED <<family, outcomes>>
      \/ Fails(c.at) = "no" /\ Parse(held, c.at, c.as, text)
  <2> HIDE DEF spent, held, code
  <2> QED BY DEF Read, spent, held, code
<1>6. <<code>> \in Seq(Codes)
  BY ClassifiedAsCode
<1>7. Fails(c.at) = "no" => /\ text.dsns \in Nat /\ text.malformed \in Nat
                            /\ text.refers \in Seq(ToSet(text.refers))
  BY <1>1, CensusAssumption DEF Fails
<1> HIDE DEF c, spent, held, code, text
<1>8. /\ Exhaust(spent).todo = spent.todo /\ Exhaust(held).todo = held.todo
      /\ Note(spent, <<code>>).todo = spent.todo
  <2>1. IsWalk(spent) /\ IsWalk(held)
    BY <1>3, <1>4 DEF IsTally
  <2>2. Exhaust(spent).todo = spent.todo /\ Exhaust(held).todo = held.todo
    BY <2>1 DEF IsWalk, Exhaust
  <2>3. Note(spent, <<code>>).todo = spent.todo
    BY <1>3, <1>6, NoteTally
  <2> QED BY <2>2, <2>3
<1>9. CASE Fails(c.at) = "no" /\ Parse(held, c.at, c.as, text)
  BY <1>2, <1>3, <1>4, <1>7, <1>9, ParsedOrder
<1>10. CASE /\ walk' \in {spent, Exhaust(spent), Exhaust(held), Note(spent, <<code>>)}
            /\ UNCHANGED <<family, outcomes>>
  BY <1>2, <1>3, <1>4, <1>8, <1>10 DEF OnOrder
<1> QED BY <1>5, <1>9, <1>10

LEMMA RunOrder == Walked /\ Looking /\ Ordered /\ Run => OnOrder
<1> SUFFICES ASSUME Walked, Looking, Ordered, Run PROVE OnOrder
  OBVIOUS
<1> DEFINE c == Head(walk.todo)
           code == Classify(Fails(c.at))
           counted == [Rest EXCEPT !.ledger.files = @ + 1]
           spent == IF c.as = "entry" THEN counted ELSE Rest
           text == host[c.at].text
           cut == [spent EXCEPT !.todo = <<>>]
<1>1. /\ walk # None /\ walk.todo # <<>> /\ c.call = "run" /\ host \in Hosts
  BY DEF Run, Step, Walked
<1>2. PICK f : f = Current
  OBVIOUS
<1>3. /\ IsTally(Rest) /\ f \in Families /\ Proper(f, c) /\ Orderly(f, Rest.todo)
      /\ \A q \in Territory(f) : Leads(f, c, q) => ~Ahead(f, q, ToSet(Rest.todo))
  BY <1>1, <1>2, RestKeepsOrder
<1>4. IsTally(spent) /\ spent.todo = Rest.todo
  <2>1. IsTally(counted) /\ counted.todo = Rest.todo
    BY <1>3, FilesTally
  <2> HIDE DEF counted
  <2> QED BY <1>3, <2>1
<1>5. \/ walk' = Exhaust(cut) /\ UNCHANGED <<family, outcomes>>
      \/ walk' = Note(spent, <<code>>) /\ UNCHANGED <<family, outcomes>>
      \/ /\ Fails(c.at) = "no" /\ c.as = "root" /\ UNCHANGED <<family, outcomes>>
         /\ \E calls \in SetToSeqs(Entries(Current, Under(c.at))) : walk' = Queue(spent, calls)
      \/ Fails(c.at) = "no" /\ c.as # "root" /\ Parse(spent, c.at, c.as, text)
  BY Zenon DEF Run
<1>6. <<code>> \in Seq(Codes)
  BY ClassifiedAsCode
<1>7. Fails(c.at) = "no" => /\ text.dsns \in Nat /\ text.malformed \in Nat
                            /\ text.refers \in Seq(ToSet(text.refers))
  BY <1>1, CensusAssumption DEF Fails
<1> HIDE DEF c, spent, code, text
<1>8. CASE walk' = Exhaust(cut) /\ UNCHANGED <<family, outcomes>>
  <2>1. Exhaust(cut).todo = <<>>
    BY <1>4 DEF IsTally, IsWalk, Exhaust
  <2> QED BY <1>8, <2>1, NothingOrderly DEF OnOrder
<1>9. CASE walk' = Note(spent, <<code>>) /\ UNCHANGED <<family, outcomes>>
  <2>1. Note(spent, <<code>>).todo = spent.todo
    BY <1>4, <1>6, NoteTally
  <2> QED BY <1>2, <1>3, <1>4, <1>9, <2>1 DEF OnOrder
<1>10. CASE /\ Fails(c.at) = "no" /\ c.as = "root" /\ UNCHANGED <<family, outcomes>>
            /\ \E calls \in SetToSeqs(Entries(Current, Under(c.at))) : walk' = Queue(spent, calls)
  <2>1. c.at \in Roots(f) /\ c = Lists(f, c.at)
    BY <1>3, <1>10 DEF Proper, Refers, Looks, Lists, Call
  <2>2. PICK calls \in SetToSeqs(Entries(f, Under(c.at))) : walk' = Queue(spent, calls)
    BY <1>2, <1>10
  <2>3. Orderly(f, Queue(spent, calls).todo)
    BY <1>1, <1>3, <1>4, <2>1, FoundOrderly
  <2> QED BY <1>2, <1>10, <2>2, <2>3 DEF OnOrder
<1>11. CASE Fails(c.at) = "no" /\ c.as # "root" /\ Parse(spent, c.at, c.as, text)
  BY <1>2, <1>3, <1>4, <1>7, <1>11, ParsedOrder
<1> QED BY <1>5, <1>8, <1>9, <1>10, <1>11

LEMMA BeginOrder == Walked /\ Begin => OnOrder
<1> SUFFICES ASSUME Walked, Begin PROVE OnOrder
  OBVIOUS
<1>1. host \in Hosts /\ Current \in Families
  BY CurrentIsFamily DEF Begin, Walked
<1>2. CASE Current \in skipped
  BY <1>2 DEF Begin, Keep, OnOrder
<1>3. CASE Current \notin skipped
  <2>1. walk'.todo = Opening(Current) /\ family' = family
    BY <1>3 DEF Begin, Walking
  <2> QED BY <1>1, <2>1, OpeningOrderly DEF OnOrder
<1> QED BY <1>2, <1>3

LEMMA NextOrdered == Walked /\ Looking /\ Ordered /\ [Next]_vars => Ordered'
<1> SUFFICES ASSUME Walked, Looking, Ordered, [Next]_vars PROVE Ordered'
  OBVIOUS
<1>1. Finish => OnOrder
  BY DEF Finish, Keep, OnOrder
<1>2. OnOrder => Ordered'
  <2>1. family' = family => Current' = Current
    BY DEF Current
  <2> QED BY <2>1 DEF OnOrder, Ordered
<1>3. UNCHANGED <<family, walk>> => Ordered'
  BY DEF Ordered, Current
<1>4. Begin \/ List \/ Read \/ Run \/ Finish \/ UNCHANGED <<family, walk>>
  BY DEF Next, vars, Look, Answer, Change, File, Project, Ask
<1> QED BY <1>1, <1>2, <1>3, <1>4, BeginOrder, ListOrder, ReadOrder, RunOrder

-----------------------------------------------------------------------------
(* The reckoning.                                                            *)

Steadies == {p \in Places : Steady(p)}

\* What is behind was counted, and with it what is still due of it; of all that is
\* there, as long as nothing changed, nothing more than that.
Reckons(f, s, n) ==
    \A X \in SUBSET Steadies :
        /\ Booked(host, f, X, ToSet(s)) <= n + Due(host, X, s)
        /\ touched = {} /\ X = Steadies
               => Booked(host, f, X, ToSet(s)) = n + Due(host, X, s)

LEMMA ReckonedOn ==
    ASSUME host \in Hosts, NEW f, NEW n \in Nat, NEW k \in Nat,
           NEW s, s \in Seq(ToSet(s)), NEW t, t \in Seq(ToSet(t)), Reckons(f, s, n),
           \A X \in SUBSET Steadies :
               /\ Booked(host, f, X, ToSet(t)) + Due(host, X, s)
                      <= Booked(host, f, X, ToSet(s)) + (Due(host, X, t) + k)
               /\ touched = {} /\ X = Steadies
                      => Booked(host, f, X, ToSet(t)) + Due(host, X, s)
                             = Booked(host, f, X, ToSet(s)) + (Due(host, X, t) + k)
    PROVE  Reckons(f, t, n + k)
<1> SUFFICES ASSUME NEW X \in SUBSET Steadies
             PROVE  /\ Booked(host, f, X, ToSet(t)) <= (n + k) + Due(host, X, t)
                    /\ touched = {} /\ X = Steadies
                         => Booked(host, f, X, ToSet(t)) = (n + k) + Due(host, X, t)
  BY DEF Reckons
<1> DEFINE bs == Booked(host, f, X, ToSet(s))
           bt == Booked(host, f, X, ToSet(t))
           ds == Due(host, X, s)
           dt == Due(host, X, t)
           exact == touched = {} /\ X = Steadies
<1>1. X \in SUBSET Places
  BY DEF Steadies
<1>2. bs \in Nat /\ bt \in Nat /\ ds \in Nat /\ dt \in Nat
  BY <1>1, BookedIsNatural, DueIsNatural
<1>3. bs <= n + ds /\ (exact => bs = n + ds)
  BY DEF Reckons
<1>4. bt + ds <= bs + (dt + k) /\ (exact => bt + ds = bs + (dt + k))
  OBVIOUS
<1> HIDE DEF bs, bt, ds, dt, exact
<1>5. bt <= (n + k) + dt
  BY <1>2, <1>3, <1>4
<1>6. ASSUME exact PROVE bt = (n + k) + dt
  <2>1. bs = n + ds /\ bt + ds = bs + (dt + k)
    BY <1>3, <1>4, <1>6
  <2> QED BY <1>2, <2>1
<1> QED BY <1>5, <1>6 DEF bs, bt, dt, exact

LEMMA BookedSame ==
    ASSUME NEW h, NEW f, NEW X, NEW before, NEW after,
           \A p \in Present(h, f, X) : Ahead(f, p, before) <=> Ahead(f, p, after)
    PROVE  Booked(h, f, X, before) = Booked(h, f, X, after)
<1>1. Behind(h, f, X, before) = Behind(h, f, X, after)
  BY DEF Behind
<1> QED BY <1>1 DEF Booked

\* A call that was on the way to nothing that is there.
LEMMA ReckonedWithout ==
    ASSUME host \in Hosts, NEW f, NEW n \in Nat, NEW s, s \in Seq(ToSet(s)), s # <<>>,
           Reckons(f, s, n), Head(s) # Refers(Head(s).at),
           \A X \in SUBSET Steadies : \A p \in Present(host, f, X) : ~Leads(f, Head(s), p)
    PROVE  Reckons(f, Tail(s), n)
<1>1. Tail(s) \in Seq(ToSet(Tail(s))) /\ ToSet(s) = {Head(s)} \cup ToSet(Tail(s))
  BY RestListed
<1>2. ASSUME NEW X \in SUBSET Steadies
      PROVE  /\ Booked(host, f, X, ToSet(Tail(s))) = Booked(host, f, X, ToSet(s))
             /\ Due(host, X, Tail(s)) = Due(host, X, s)
  <2>1. \A p \in Present(host, f, X) : Ahead(f, p, ToSet(Tail(s))) <=> Ahead(f, p, ToSet(s))
    <3> SUFFICES ASSUME NEW p \in Present(host, f, X)
                 PROVE  Ahead(f, p, ToSet(Tail(s))) <=> Ahead(f, p, ToSet(s))
      OBVIOUS
    <3>1. ~Leads(f, Head(s), p)
      OBVIOUS
    <3> QED BY <1>1, <3>1, AheadLeads
  <2>2. X \in SUBSET Places
    BY DEF Steadies
  <2>3. Due(host, X, s) = Owes(host, X, Head(s)) + Due(host, X, Tail(s))
    BY <2>2, DueOfRest
  <2>4. Owes(host, X, Head(s)) = 0
    BY DEF Owes
  <2>5. Due(host, X, Tail(s)) \in Nat
    BY <1>1, <2>2, DueIsNatural
  <2>6. Due(host, X, Tail(s)) = Due(host, X, s)
    BY <2>3, <2>4, <2>5
  <2> QED BY <2>1, <2>6, BookedSame
<1> QED BY <1>2 DEF Reckons

LEMMA ReckonedOpening ==
    ASSUME host \in Hosts, NEW f \in Families
    PROVE  Reckons(f, Opening(f), 0)
<1> DEFINE s == Opening(f)
<1>1. s \in Seq(ToSet(s)) /\ \A p \in Territory(f) : Ahead(f, p, ToSet(s))
  BY OpeningAhead
<1>2. \A c \in ToSet(s) : c.as # "environment"
  BY OpeningAhead
<1> HIDE DEF s
<1>3. ASSUME NEW X \in SUBSET Steadies
      PROVE  Booked(host, f, X, ToSet(s)) = 0 /\ Due(host, X, s) = 0
  <2>1. Behind(host, f, X, ToSet(s)) = {}
    BY <1>1 DEF Behind, Present
  <2>2. SumOver(Worth(host, f, X), {}) = 0
    BY FS_EmptySet, SumStep
  <2>3. \A c \in ToSet(s) : Owes(host, X, c) = 0
    BY <1>2 DEF Owes, Refers, Call
  <2>4. Due(host, X, s) = 0
    BY <1>1, <2>3, DueOfNone
  <2> QED BY <2>1, <2>2, <2>4 DEF Booked
<1>4. 0 <= 0 + 0 /\ 0 = 0 + 0
  OBVIOUS
<1> QED BY <1>3, <1>4 DEF Reckons, s

\* A listing, and what it led on to instead.
LEMMA ReckonedListing ==
    ASSUME host \in Hosts, NEW f \in Families, NEW n \in Nat,
           NEW s, s \in Seq(ToSet(s)), s # <<>>, Reckons(f, s, n),
           NEW q, Head(s) = Lists(f, q),
           NEW w, IsTally(w), w.todo = Tail(s),
           NEW calls, calls \in Seq(ToSet(calls)), ToSet(calls) = Entries(f, Under(q))
    PROVE  Reckons(f, Queue(w, calls).todo, n)
<1> DEFINE t == Queue(w, calls).todo
<1>1. Tail(s) \in Seq(ToSet(Tail(s))) /\ ToSet(s) = {Head(s)} \cup ToSet(Tail(s))
  BY RestListed
<1>2. ToSet(t) = ToSet(Tail(s)) \cup ToSet(calls) /\ t \in Seq(ToSet(t))
  BY QueueTally DEF IsTally
<1>3. ASSUME NEW c \in ToSet(calls)
      PROVE  /\ c.as # "environment"
             /\ \A p \in Territory(f) : Leads(f, c, p) => Leads(f, Head(s), p)
  <2>1. PICK r \in Under(q) : c \in Follow(f, r)
    BY DEF Entries
  <2>2. c.as # "environment"
    BY <2>1 DEF Follow, Call
  <2> QED BY <2>1, <2>2, EntryLeads
<1>4. ASSUME NEW X \in SUBSET Steadies, NEW p \in Present(host, f, X)
      PROVE  Ahead(f, p, ToSet(t)) <=> Ahead(f, p, ToSet(s))
  <2>1. p \in Territory(f) /\ Steady(p)
    BY DEF Present, Steadies
  <2>2. ASSUME Leads(f, Head(s), p) PROVE Ahead(f, p, ToSet(t))
    <3>1. Looks(f, p) # Head(s)
      BY DEF Looks, Lists, Call
    <3>2. PICK m \in 1..Len(p) - 1 : Lists(f, SubSeq(p, 1, m)) = Lists(f, q)
      BY <2>2, <3>1 DEF Leads
    <3>3. p \notin ToSet(Named[f]) /\ SubSeq(p, 1, m) = q
      BY <2>2, <3>1, <3>2 DEF Leads, Lists, Call
    <3>4. Ahead(f, p, ToSet(calls))
      BY <2>1, <3>3, ListingCovers
    <3> QED BY <1>2, <3>4, AheadLeads
  <2>3. Ahead(f, p, ToSet(t)) => Ahead(f, p, ToSet(s))
    BY <1>1, <1>2, <1>3, <2>1, AheadLeads
  <2> QED BY <1>1, <1>2, <2>2, <2>3, AheadLeads
<1> HIDE DEF t
<1>5. ASSUME NEW X \in SUBSET Steadies
      PROVE  /\ Booked(host, f, X, ToSet(t)) = Booked(host, f, X, ToSet(s))
             /\ Due(host, X, t) = Due(host, X, s)
  <2>1. X \in SUBSET Places
    BY DEF Steadies
  <2>2. Due(host, X, s) = Owes(host, X, Head(s)) + Due(host, X, Tail(s))
    BY <2>1, DueOfRest
  <2>3. Owes(host, X, Head(s)) = 0
    BY DEF Owes, Lists, Refers, Call
  <2>4. Due(host, X, t) = Due(host, X, Tail(s)) + Due(host, X, calls)
    <3>1. Due(host, X, Queue(w, calls).todo) = Due(host, X, w.todo) + Due(host, X, calls)
      BY Zenon, <2>1, DueOfQueue
    <3> QED BY Zenon, <3>1 DEF t
  <2>5. Due(host, X, calls) = 0
    <3>1. \A c \in ToSet(calls) : Owes(host, X, c) = 0
      BY <1>3 DEF Owes, Refers, Call
    <3> QED BY <3>1, DueOfNone
  <2>6. Due(host, X, Tail(s)) \in Nat
    BY <1>1, <2>1, DueIsNatural
  <2>7. Due(host, X, t) = Due(host, X, s)
    BY <2>2, <2>3, <2>4, <2>5, <2>6
  <2> QED BY <1>4, <2>7, BookedSame
<1> QED BY <1>5 DEF Reckons, t

\* A call that reads is for what a unit refers to, or for a place of the family.
LEMMA ReadsOneOf ==
    ASSUME NEW f \in Families, NEW c, Proper(f, c),
           c.call = "read" \/ (c.call = "run" /\ c.as # "root")
    PROVE  \/ c = Refers(c.at)
           \/ c.at \in Territory(f) /\ c = Looks(f, c.at)
<1>1. \A q : Lists(f, q) # c
  BY DEF Lists, Call
<1>2. \A p : Looks(f, p).at = p
  BY DEF Looks, Call
<1> QED BY <1>1, <1>2 DEF Proper

\* What is due of a text is what it mentions, if it is a unit's.
LEMMA DueOfReferred ==
    ASSUME host \in Hosts, NEW f \in Families, NEW p \in Places, NEW X \in SUBSET Places, NEW c
    PROVE  /\ c = Refers(p) => Due(host, X, Referred(f, c.as, host[p].text)) = 0
           /\ c = Looks(f, p) =>
                  Due(host, X, Referred(f, c.as, host[p].text)) = From(host, f, p, X)
<1> DEFINE calls == Referred(f, c.as, host[p].text)
<1>1. ASSUME ~(Unit(f) /\ c.as = "entry") PROVE Due(host, X, calls) = 0
  <2>1. calls = <<>> /\ <<>> \in Seq(ToSet(<<>>))
    BY <1>1, EmptySeq DEF Referred
  <2>2. ToSet(calls) = {}
    BY <2>1 DEF ToSet
  <2> HIDE DEF calls
  <2> QED BY <2>1, <2>2, DueOfNone
<1>2. c = Refers(p) => c.as # "entry"
  BY DEF Refers, Call
<1>3. ASSUME c = Looks(f, p) PROVE Due(host, X, calls) = From(host, f, p, X)
  <2>1. CASE Unit(f)
    <3>1. Named[f] = <<>>
      BY <2>1, CensusAssumption DEF Unit
    <3>2. p \notin ToSet(Named[f])
      BY <3>1 DEF ToSet
    <3>3. c.as = "entry"
      BY <1>3, <3>2 DEF Looks, Call
    <3>4. calls = Calls("read", host[p].text.refers, "environment")
      BY <2>1, <3>3 DEF Referred
    <3>5. Due(host, X, calls) = SumOver(Mentions(host, p, X), DOMAIN host[p].text.refers)
      BY Zenon, <3>4, DueOfMentions
    <3> QED BY <2>1, <3>5 DEF From
  <2>2. CASE ~Unit(f)
    BY <1>1, <2>2 DEF From
  <2> QED BY <2>1, <2>2
<1> QED BY <1>1, <1>2, <1>3

\* A text: its consumers were counted, and what it refers to is due.
LEMMA ReckonedText ==
    ASSUME host \in Hosts, NEW f \in Families, NEW n \in Nat,
           NEW s, s \in Seq(ToSet(s)), s # <<>>, Reckons(f, s, n),
           NEW c, c = Head(s), Proper(f, c),
           c.call = "read" \/ (c.call = "run" /\ c.as # "root"),
           Fails(c.at) = "no", Parsed(f, c.as, host[c.at].text),
           \A p \in Territory(f) : Leads(f, c, p) => ~Ahead(f, p, ToSet(Tail(s))),
           NEW w, IsTally(w), w.todo = Tail(s)
    PROVE  Reckons(f, Queue(w, Referred(f, c.as, host[c.at].text)).todo, n + At(host, c.at))
<1> DEFINE p == c.at
           calls == Referred(f, c.as, host[p].text)
           t == Queue(w, calls).todo
           k == At(host, p)
<1>1. Tail(s) \in Seq(ToSet(Tail(s))) /\ ToSet(s) = {c} \cup ToSet(Tail(s))
  BY RestListed
<1>2. p \in Places /\ k \in Nat /\ host[p].text.refers \in Seq(ToSet(host[p].text.refers))
  <2>1. p \in Places
    BY DEF Fails
  <2> QED BY <2>1, PlacesCount, CensusAssumption
<1>3. /\ calls \in Seq(ToSet(calls))
      /\ \A q : ~Ahead(f, q, ToSet(calls))
  BY <1>2, ReferredOrderly
<1> HIDE DEF calls
<1>4. ToSet(t) = ToSet(Tail(s)) \cup ToSet(calls) /\ t \in Seq(ToSet(t))
  BY <1>3, QueueTally DEF IsTally
<1>5. \A q : Ahead(f, q, ToSet(t)) <=> Ahead(f, q, ToSet(Tail(s)))
  BY <1>3, <1>4, AheadLeads
<1>6. \A q : Ahead(f, q, ToSet(s)) <=> Leads(f, c, q) \/ Ahead(f, q, ToSet(Tail(s)))
  BY <1>1, AheadLeads
<1> DEFINE bs(X) == Booked(host, f, X, ToSet(s))
           bt(X) == Booked(host, f, X, ToSet(t))
           exact(X) == touched = {} /\ X = Steadies
<1>7. ASSUME NEW X \in SUBSET Steadies
      PROVE  /\ X \in SUBSET Places
             /\ bs(X) \in Nat /\ bt(X) \in Nat
             /\ Due(host, X, s) = Owes(host, X, c) + Due(host, X, Tail(s))
             /\ Due(host, X, t) = Due(host, X, Tail(s)) + Due(host, X, calls)
             /\ Owes(host, X, c) \in Nat /\ Due(host, X, Tail(s)) \in Nat
             /\ Due(host, X, calls) \in Nat
  <2>1. X \in SUBSET Places
    BY DEF Steadies
  <2>2. Due(host, X, s) = Owes(host, X, c) + Due(host, X, Tail(s))
    BY Zenon, <2>1, DueOfRest
  <2>3. Due(host, X, Queue(w, calls).todo) = Due(host, X, w.todo) + Due(host, X, calls)
    BY Zenon, <1>3, <2>1, DueOfQueue
  <2>4. Due(host, X, t) = Due(host, X, Tail(s)) + Due(host, X, calls)
    BY Zenon, <2>3
  <2>5. bs(X) \in Nat /\ bt(X) \in Nat
    BY <2>1, BookedIsNatural
  <2>6. /\ Owes(host, X, c) \in Nat /\ Due(host, X, Tail(s)) \in Nat
        /\ Due(host, X, calls) \in Nat
    BY <1>1, <1>3, <2>1, OwesIsNatural, DueIsNatural
  <2> HIDE DEF t, bs, bt
  <2> QED BY Zenon, <2>1, <2>2, <2>4, <2>5, <2>6
<1>8. ASSUME NEW X \in SUBSET Steadies, exact(X) PROVE p \in X
  <2>1. Steady(p)
    BY <1>8 DEF Steady
  <2> QED BY <1>2, <1>8, <2>1 DEF Steadies
<1> HIDE DEF t
<1>9. CASE c = Refers(p)
  <2>1. ASSUME NEW X \in SUBSET Steadies
        PROVE  /\ bt(X) = bs(X) /\ Due(host, X, calls) = 0
               /\ Owes(host, X, c) <= k /\ (exact(X) => Owes(host, X, c) = k)
    <3>1. \A q : ~Leads(f, c, q)
      BY <1>9, ReferringLeadsNowhere
    <3>2. bt(X) = bs(X)
      BY <1>5, <1>6, <3>1, BookedSame
    <3>3. Due(host, X, calls) = 0
      BY <1>2, <1>7, <1>9, DueOfReferred DEF calls
    <3>4. Owes(host, X, c) = IF p \in X THEN k ELSE 0
      BY <1>9 DEF Owes
    <3> HIDE DEF bt, bs, exact, k
    <3> QED BY <1>2, <1>8, <3>2, <3>3, <3>4
  <2> HIDE DEF bs, bt, exact, k
  <2>2. ASSUME NEW X \in SUBSET Steadies
        PROVE  /\ bt(X) + Due(host, X, s) <= bs(X) + (Due(host, X, t) + k)
               /\ exact(X) => bt(X) + Due(host, X, s) = bs(X) + (Due(host, X, t) + k)
    <3> DEFINE a == bt(X)
               b == bs(X)
               ds == Due(host, X, s)
               dt == Due(host, X, t)
               rest == Due(host, X, Tail(s))
               owes == Owes(host, X, c)
    <3>1. /\ a = b /\ ds = owes + rest /\ dt = rest + 0
          /\ a \in Nat /\ b \in Nat /\ owes \in Nat /\ rest \in Nat /\ k \in Nat
          /\ owes <= k /\ (exact(X) => owes = k)
      BY Zenon, <1>2, <1>7, <2>1
    <3> HIDE DEF a, b, ds, dt, rest, owes
    <3>2. a + ds <= b + (dt + k)
      BY <3>1
    <3>3. owes = k => a + ds = b + (dt + k)
      BY <3>1
    <3> QED BY Zenon, <3>1, <3>2, <3>3 DEF a, b, ds, dt
  <2>3. Reckons(f, t, n + k)
    BY <1>2, <1>4, <2>2, ReckonedOn DEF bs, bt, exact
  <2> QED BY <2>3 DEF t, calls, k
<1>10. CASE p \in Territory(f) /\ c = Looks(f, p)
  <2>1. \A q : Leads(f, c, q) <=> q = p
    <3>1. \A q : Lists(f, q) # c
      BY DEF Lists, Call
    <3>2. \A q : Looks(f, q).at = q
      BY DEF Looks, Call
    <3> QED BY Zenon, <1>10, <3>1, <3>2 DEF Leads
  <2>2. ~Ahead(f, p, ToSet(Tail(s)))
    BY <1>10, <2>1
  <2>3. c # Refers(p)
    BY <1>10 DEF Looks, Refers, Call
  <2>4. ASSUME NEW X \in SUBSET Steadies
        PROVE  /\ bt(X) <= bs(X) + (k + Due(host, X, calls))
               /\ exact(X) => bt(X) = bs(X) + (k + Due(host, X, calls))
    <3>1. Worth(host, f, X)[p] = k + Due(host, X, calls)
      <4>1. Due(host, X, calls) = From(host, f, p, X)
        BY <1>2, <1>7, <1>10, DueOfReferred DEF calls
      <4> QED BY <1>2, <4>1 DEF Worth
    <3>2. p \notin Behind(host, f, X, ToSet(s))
      BY <1>6, <2>1 DEF Behind
    <3>3. Behind(host, f, X, ToSet(t))
              = Behind(host, f, X, ToSet(s)) \cup ({p} \cap Present(host, f, X))
      BY <1>5, <1>6, <2>1, <2>2 DEF Behind
    <3>4. /\ Behind(host, f, X, ToSet(t)) \subseteq Behind(host, f, X, ToSet(s)) \cup {p}
               => bt(X) <= bs(X) + Worth(host, f, X)[p]
          /\ p \notin Behind(host, f, X, ToSet(s))
                /\ Behind(host, f, X, ToSet(t)) = Behind(host, f, X, ToSet(s)) \cup {p}
               => bt(X) = bs(X) + Worth(host, f, X)[p]
      <4>1. X \in SUBSET Places /\ p \in Places
        BY <1>2, <1>7
      <4>2. \A q \in Places :
               /\ Behind(host, f, X, ToSet(t)) \subseteq Behind(host, f, X, ToSet(s)) \cup {q}
                      => Booked(host, f, X, ToSet(t))
                             <= Booked(host, f, X, ToSet(s)) + Worth(host, f, X)[q]
               /\ q \notin Behind(host, f, X, ToSet(s))
                     /\ Behind(host, f, X, ToSet(t)) = Behind(host, f, X, ToSet(s)) \cup {q}
                      => Booked(host, f, X, ToSet(t))
                             = Booked(host, f, X, ToSet(s)) + Worth(host, f, X)[q]
        <5> HIDE DEF p, k, bs, bt
        <5> QED BY <4>1, BookedOneMore
      <4> QED BY Zenon, <4>1, <4>2
    <3>5. exact(X) => p \in Present(host, f, X)
      <4>1. Parsed(f, c.as, host[p].text)
                => Parsed(f, IF p \in ToSet(Named[f]) THEN "shared" ELSE "entry", host[p].text)
        BY <1>10 DEF Parsed, Looks, Call
      <4>2. host[p].fails = "no"
        BY <1>2 DEF Fails
      <4> QED BY <1>8, <1>10, <4>1, <4>2 DEF Present
    <3> HIDE DEF bs, bt, exact, k
    <3> QED BY <3>1, <3>2, <3>3, <3>4, <3>5
  <2>5. \A X : Owes(host, X, c) = 0
    BY <2>3 DEF Owes
  <2> HIDE DEF bs, bt, exact, k
  <2>6. ASSUME NEW X \in SUBSET Steadies
        PROVE  /\ bt(X) + Due(host, X, s) <= bs(X) + (Due(host, X, t) + k)
               /\ exact(X) => bt(X) + Due(host, X, s) = bs(X) + (Due(host, X, t) + k)
    <3> DEFINE a == bt(X)
               b == bs(X)
               ds == Due(host, X, s)
               dt == Due(host, X, t)
               rest == Due(host, X, Tail(s))
               more == Due(host, X, calls)
    <3>1. /\ ds = 0 + rest /\ dt = rest + more
          /\ a \in Nat /\ b \in Nat /\ rest \in Nat /\ more \in Nat /\ k \in Nat
          /\ a <= b + (k + more) /\ (exact(X) => a = b + (k + more))
      BY Zenon, <1>2, <1>7, <2>4, <2>5
    <3> HIDE DEF a, b, ds, dt, rest, more
    <3>2. a + ds <= b + (dt + k)
      BY SMTT(30), <3>1
    <3>3. a = b + (k + more) => a + ds = b + (dt + k)
      BY <3>1
    <3> QED BY Zenon, <3>1, <3>2, <3>3 DEF a, b, ds, dt
  <2>7. Reckons(f, t, n + k)
    BY <1>2, <1>4, <2>6, ReckonedOn DEF bs, bt, exact
  <2> QED BY <2>7 DEF t, calls, k
<1> QED BY <1>9, <1>10, ReadsOneOf

-----------------------------------------------------------------------------
(* A walk reckons with every place.                                          *)

\* As long as nothing went wrong, what a walk counted so far is what is behind it.
Reckoning ==
    /\ walk # None /\ Clean(walk) => Reckons(Current, walk.todo, Counted(walk))
    /\ \A f \in DOMAIN outcomes :
           CleanOutcome(outcomes[f]) => Reckons(f, <<>>, outcomes[f].scan.found)

\* The walk goes on with what it counted, or the family is done with it.
OnReckoning ==
    \/ /\ UNCHANGED <<family, outcomes>>
       /\ Clean(walk') => Reckons(Current, walk'.todo, Counted(walk'))
    \/ \E o : Keep(o) /\ (CleanOutcome(o) => Reckons(Current, <<>>, o.scan.found))

LEMMA ReckonsSame ==
    ASSUME UNCHANGED <<host, touched>>
    PROVE  \A f, s, n : Reckons(f, s, n)' <=> Reckons(f, s, n)
<1>1. \A p : Steady(p)' <=> Steady(p)
  BY DEF Steady, Fails
<1>2. Steadies' = Steadies
  BY <1>1 DEF Steadies
<1> QED BY <1>2 DEF Reckons

LEMMA OnReckoningKept ==
    ASSUME Reckoning, UNCHANGED <<host, touched>>, OnReckoning
    PROVE  Reckoning'
<1>1. CASE /\ UNCHANGED <<family, outcomes>>
           /\ Clean(walk') => Reckons(Current, walk'.todo, Counted(walk'))
  <2>1. Current' = Current
    BY <1>1 DEF Current
  <2>2. Clean(walk') => Reckons(Current, walk.todo, Counted(walk))'
    BY <1>1, <2>1, ReckonsSame
  <2>3. \A f \in DOMAIN outcomes :
            CleanOutcome(outcomes[f]) => Reckons(f, <<>>, outcomes[f].scan.found)'
    BY <1>1, ReckonsSame DEF Reckoning
  <2> QED BY <1>1, <2>2, <2>3 DEF Reckoning
<1>2. ASSUME NEW o, Keep(o), CleanOutcome(o) => Reckons(Current, <<>>, o.scan.found)
      PROVE  Reckoning'
  <2>1. /\ walk' = None
        /\ outcomes' = [f \in DOMAIN outcomes \cup {Current} |->
                            IF f = Current THEN o ELSE outcomes[f]]
    BY <1>2 DEF Keep
  <2>2. ASSUME NEW f \in DOMAIN outcomes', CleanOutcome(outcomes'[f])
        PROVE  Reckons(f, <<>>, outcomes'[f].scan.found)
    <3>1. CASE f = Current
      <4>1. outcomes'[f] = o
        BY <2>1, <3>1
      <4> QED BY Zenon, <1>2, <2>2, <3>1, <4>1
    <3>2. CASE f # Current
      <4>1. f \in DOMAIN outcomes /\ outcomes'[f] = outcomes[f]
        BY <2>1, <3>2
      <4> QED BY Zenon, <2>2, <4>1 DEF Reckoning
    <3> QED BY <3>1, <3>2
  <2>3. \A f \in DOMAIN outcomes' :
            CleanOutcome(outcomes'[f]) => Reckons(f, <<>>, outcomes[f].scan.found)'
    BY <2>2, ReckonsSame
  <2> QED BY <2>1, <2>3 DEF Reckoning
<1> QED BY <1>1, <1>2 DEF OnReckoning

\* A text that arrived: it was passed over, it ended the walk, or it was counted.
LEMMA ParsedReckons ==
    ASSUME host \in Hosts, NEW f \in Families, f = Current,
           NEW s, s \in Seq(ToSet(s)), s # <<>>, NEW c, c = Head(s), Proper(f, c),
           c.call = "read" \/ (c.call = "run" /\ c.as # "root"),
           \A p \in Territory(f) : Leads(f, c, p) => ~Ahead(f, p, ToSet(Tail(s))),
           NEW w, IsTally(w), w.todo = Tail(s), Clean(w) => Reckons(f, s, Counted(w)),
           Fails(c.at) = "no", Parse(w, c.at, c.as, host[c.at].text)
    PROVE  OnReckoning
<1> DEFINE text == host[c.at].text
<1>1. /\ text.dsns \in Nat /\ text.malformed \in Nat
      /\ text.refers \in Seq(ToSet(text.refers)) /\ c.at \in Places
  BY TextHeld DEF Fails
<1>2. CASE ~Parsed(f, c.as, text)
  <2>1. walk' = w /\ UNCHANGED <<family, outcomes>>
    BY <1>2 DEF Parse
  <2>2. f = "script" /\ c.as = "entry"
    BY <1>2 DEF Parsed
  <2>3. Head(s) # Refers(Head(s).at)
    BY <2>2 DEF Refers, Call
  <2>4. ASSUME NEW X \in SUBSET Steadies, NEW p \in Present(host, f, X), Leads(f, c, p)
        PROVE  FALSE
    <3>1. Looks(f, p) = c
      <4>1. \A q : Lists(f, q) # c
        BY <2>2 DEF Lists, Call
      <4> QED BY Zenon, <2>4, <4>1 DEF Leads
    <3>2. p = c.at /\ p \notin ToSet(Named[f])
      BY <2>2, <3>1 DEF Looks, Call
    <3> QED BY <1>2, <2>2, <3>2 DEF Present
  <2>5. Clean(w) => Reckons(f, Tail(s), Counted(w))
    <3>1. Counted(w) \in Nat
      BY CleanKept
    <3> QED BY <2>3, <2>4, <3>1, ReckonedWithout
  <2> QED BY <2>1, <2>5 DEF OnReckoning
<1>3. CASE Parsed(f, c.as, text) /\ Raises(text)
  <2> DEFINE o == Outcome(Note(Walking(<<>>), <<"unknown">>), TRUE)
  <2>1. Keep(o)
    BY <1>3 DEF Parse
  <2>2. o.scan.errors # <<>>
    <3>1. o.scan.errors = <<>> \o <<"unknown">>
      BY DEF Outcome, Note, Walking, Ledger
    <3>2. <<>> \o <<"unknown">> = <<"unknown">> /\ <<"unknown">> # <<>>
      OBVIOUS
    <3> QED BY <3>1, <3>2
  <2> QED BY <2>1, <2>2 DEF CleanOutcome, OnReckoning
<1>4. CASE Parsed(f, c.as, text) /\ ~Raises(text)
  <2> DEFINE n == Consumers(text)
             notes == Notes(f, c.as, text)
             calls == Referred(f, c.as, text)
             counted == Count(w, c.as, n)
             noted == Note(counted, notes)
  <2>1. walk' = Queue(noted, calls) /\ UNCHANGED <<family, outcomes>>
    BY <1>4 DEF Parse
  <2>2. n \in Nat /\ n = At(host, c.at)
    BY <1>1 DEF Consumers, At
  <2>3. notes \in Seq(Codes)
    BY <1>1, NotesAreCodes
  <2> HIDE DEF n, notes
  <2>4. /\ IsTally(counted) /\ counted.todo = w.todo
        /\ Clean(counted) <=> Clean(w)
        /\ Counted(counted) = Counted(w) + n
    BY <2>2, CountTally, CleanCount
  <2> HIDE DEF counted
  <2>5. /\ IsTally(noted) /\ noted.todo = w.todo
        /\ Clean(noted) => Clean(counted)
        /\ Counted(noted) = Counted(counted)
    BY <2>3, <2>4, NoteTally, CleanNote
  <2> HIDE DEF noted
  <2>6. (Clean(walk') <=> Clean(noted)) /\ Counted(walk') = Counted(noted)
    BY <2>1, <2>5, CleanKept
  <2>7. Counted(w) \in Nat
    BY CleanKept
  <2>8. Clean(w) => Reckons(f, Queue(noted, calls).todo, Counted(w) + At(host, c.at))
    BY <1>4, <2>5, <2>7, ReckonedText
  <2> HIDE DEF calls
  <2>9. Clean(walk') => Reckons(f, walk'.todo, Counted(walk'))
    BY Zenon, <2>1, <2>2, <2>4, <2>5, <2>6, <2>8
  <2> QED BY <2>1, <2>9 DEF OnReckoning
<1> QED BY <1>2, <1>3, <1>4

LEMMA BeginReckons == Walked /\ Begin => OnReckoning
<1> SUFFICES ASSUME Walked, Begin PROVE OnReckoning
  OBVIOUS
<1>1. host \in Hosts /\ Current \in Families
  BY CurrentIsFamily DEF Begin, Walked
<1>2. CASE Current \in skipped
  <2>1. Keep(Outcome(Walking(<<>>), FALSE)) /\ ~CleanOutcome(Outcome(Walking(<<>>), FALSE))
    BY <1>2 DEF Begin, CleanOutcome, Outcome
  <2> QED BY <2>1 DEF OnReckoning
<1>3. CASE Current \notin skipped
  <2>1. walk' = Walking(Opening(Current)) /\ UNCHANGED <<family, outcomes>>
    BY <1>3 DEF Begin
  <2>2. walk'.todo = Opening(Current) /\ Counted(walk') = 0
    BY <2>1 DEF Walking, Counted
  <2>3. Reckons(Current, Opening(Current), 0)
    BY <1>1, ReckonedOpening
  <2> QED BY <2>1, <2>2, <2>3 DEF OnReckoning
<1> QED BY <1>2, <1>3

LEMMA FinishReckons == Reckoning /\ Finish => OnReckoning
<1> SUFFICES ASSUME Reckoning, Finish PROVE OnReckoning
  OBVIOUS
<1> DEFINE o == Outcome(walk, TRUE)
<1>1. walk # None /\ walk.todo = <<>> /\ Keep(o)
  BY DEF Finish
<1>2. /\ o.scan.completed = ~walk.ledger.exhausted /\ o.scan.errors = walk.ledger.errors
      /\ o.scan.found = Counted(walk)
  BY DEF Outcome, Counted
<1> HIDE DEF o
<1>3. CleanOutcome(o) => Clean(walk)
  BY Zenon, <1>2 DEF CleanOutcome, Clean
<1>4. CleanOutcome(o) => Reckons(Current, <<>>, o.scan.found)
  BY Zenon, <1>1, <1>2, <1>3 DEF Reckoning
<1> QED BY <1>1, <1>4 DEF OnReckoning

\* Taking a call off the list keeps the count.
LEMMA RestCounts ==
    ASSUME Walked, Looking, Reckoning, walk # None, walk.todo # <<>>
    PROVE  /\ walk.todo \in Seq(ToSet(walk.todo))
           /\ Clean(Rest) => Reckons(Current, walk.todo, Counted(Rest))
           /\ Counted(Rest) \in Nat
<1>1. IsTally(walk) /\ walk.todo \in Seq(ToSet(walk.todo))
  BY DEF Looking, IsTally
<1>2. Rest = [walk EXCEPT !.todo = Tail(walk.todo)]
  BY <1>1 DEF Rest, IsTally, IsWalk
<1>3. /\ Clean(Rest) <=> Clean(walk)
      /\ Counted(Rest) = Counted(walk)
      /\ Counted(walk) \in Nat
  BY <1>1, <1>2, CleanKept
<1> QED BY Zenon, <1>1, <1>3 DEF Reckoning

LEMMA ListReckons == Walked /\ Looking /\ Ordered /\ Reckoning /\ List => OnReckoning
<1> SUFFICES ASSUME Walked, Looking, Ordered, Reckoning, List PROVE OnReckoning
  OBVIOUS
<1> DEFINE c == Head(walk.todo)
           p == c.at
           code == Classify(Fails(p))
<1>1. /\ walk # None /\ walk.todo # <<>> /\ c.call = "list" /\ host \in Hosts
      /\ UNCHANGED <<family, outcomes>>
  BY DEF List, Step, Walked
<1>2. PICK f : f = Current
  OBVIOUS
<1>3. /\ IsTally(Rest) /\ Rest.todo = Tail(walk.todo) /\ f \in Families /\ Proper(f, c)
  BY <1>1, <1>2, RestKeepsOrder
<1>4. /\ walk.todo \in Seq(ToSet(walk.todo)) /\ Counted(Rest) \in Nat
      /\ Clean(Rest) => Reckons(f, walk.todo, Counted(Rest))
  BY <1>1, <1>2, RestCounts
<1> HIDE DEF c
<1>5. c = Lists(f, p) /\ c # Refers(p)
  BY <1>1, <1>3 DEF Proper, Refers, Looks, Lists, Call
<1>6. CASE Fails(p) # "no" /\ code = "missing"
  <2>1. walk' = Rest
    BY <1>6 DEF List, c
  <2>2. Fails(p) = "missing"
    BY <1>6, MissingOnly
  <2>3. ASSUME NEW X \in SUBSET Steadies, NEW q \in Present(host, f, X), Leads(f, c, q)
        PROVE  FALSE
    <3>1. q \in Territory(f) /\ Steady(q)
      BY DEF Present, Steadies
    <3>2. Looks(f, q) # c
      BY <1>5 DEF Looks, Lists, Call
    <3>3. PICK n \in 1..Len(q) - 1 : q \notin ToSet(Named[f]) /\ Lists(f, SubSeq(q, 1, n)) = c
      BY <2>3, <3>2 DEF Leads
    <3>4. SubSeq(q, 1, n) = p
      BY <1>5, <3>3 DEF Lists, Call
    <3>5. Fails(p) # "missing"
      BY <1>1, <1>3, <3>1, <3>3, <3>4, ListingCovers
    <3> QED BY <2>2, <3>5
  <2>4. Clean(Rest) => Reckons(f, Tail(walk.todo), Counted(Rest))
    BY <1>1, <1>4, <1>5, <2>3, ReckonedWithout DEF c
  <2> QED BY <1>1, <1>2, <1>3, <2>1, <2>4 DEF OnReckoning
<1>7. CASE Fails(p) # "no" /\ code # "missing"
  <2>1. walk' = Note(Rest, <<code>>)
    BY <1>7 DEF List, c
  <2>2. <<code>> \in Seq(Codes) /\ <<code>> # <<>>
    BY ClassifiedAsCode
  <2>3. ~Clean(walk')
    BY <1>3, <2>1, <2>2, CleanNote
  <2> QED BY <1>1, <2>3 DEF OnReckoning
<1>8. CASE Fails(p) = "no"
  <2>1. PICK paths \in Listings(Under(p)) : \E calls \in SetToSeqs(Entries(Current, paths)) :
               walk' = IF paths = Under(p) THEN Queue(Rest, calls)
                       ELSE Exhaust(Queue(Rest, calls))
    BY <1>8 DEF List, c
  <2>2. PICK calls \in SetToSeqs(Entries(f, paths)) :
               walk' = IF paths = Under(p) THEN Queue(Rest, calls)
                       ELSE Exhaust(Queue(Rest, calls))
    BY <1>2, <2>1
  <2>3. paths \in SUBSET Under(p)
    BY DEF Listings, kSubset
  <2>4. calls \in Seq(ToSet(calls)) /\ ToSet(calls) = Entries(f, paths)
    <3>1. paths \in SUBSET Places
      BY <2>3, Underneath
    <3> QED BY <3>1, EntriesAreFinite, OrderedListed
  <2>5. IsTally(Queue(Rest, calls))
    BY <1>3, <2>4, QueueTally
  <2>6. CASE paths # Under(p)
    <3>1. ~Clean(walk')
      BY <2>2, <2>5, <2>6, CleanKept
    <3> QED BY <1>1, <3>1 DEF OnReckoning
  <2>7. CASE paths = Under(p)
    <3>1. walk' = Queue(Rest, calls)
      BY <2>2, <2>7
    <3>2. /\ Clean(Queue(Rest, calls)) <=> Clean(Rest)
          /\ Counted(Queue(Rest, calls)) = Counted(Rest)
      BY <1>3, CleanKept
    <3>3. Clean(Rest) => Reckons(f, Queue(Rest, calls).todo, Counted(Rest))
      BY <1>1, <1>3, <1>4, <1>5, <2>4, <2>7, ReckonedListing DEF c
    <3> QED BY <1>1, <1>2, <3>1, <3>2, <3>3 DEF OnReckoning
  <2> QED BY <2>6, <2>7
<1> QED BY <1>6, <1>7, <1>8

LEMMA ReadReckons == Walked /\ Looking /\ Ordered /\ Reckoning /\ Read => OnReckoning
<1> SUFFICES ASSUME Walked, Looking, Ordered, Reckoning, Read PROVE OnReckoning
  OBVIOUS
<1> DEFINE c == Head(walk.todo)
           code == Classify(Fails(c.at))
           spent == [Rest EXCEPT !.ledger.files = @ + 1]
           text == host[c.at].text
           held == [spent EXCEPT !.ledger.bytes = @ + text.size]
<1>1. /\ walk # None /\ walk.todo # <<>> /\ c.call = "read" /\ host \in Hosts
  BY DEF Read, Step, Walked
<1>2. PICK f : f = Current
  OBVIOUS
<1>3. /\ IsTally(Rest) /\ Rest.todo = Tail(walk.todo) /\ f \in Families /\ Proper(f, c)
      /\ \A p \in Territory(f) : Leads(f, c, p) => ~Ahead(f, p, ToSet(Tail(walk.todo)))
  BY <1>1, <1>2, RestKeepsOrder
<1>4. /\ walk.todo \in Seq(ToSet(walk.todo)) /\ Counted(Rest) \in Nat
      /\ Clean(Rest) => Reckons(f, walk.todo, Counted(Rest))
  BY <1>1, <1>2, RestCounts
<1>5. /\ IsTally(spent) /\ spent.todo = Rest.todo
      /\ Clean(spent) <=> Clean(Rest)
      /\ Counted(spent) = Counted(Rest)
  BY <1>3, FilesTally, CleanKept
<1>6. /\ IsTally(held) /\ held.todo = spent.todo
      /\ Clean(held) <=> Clean(spent)
      /\ Counted(held) = Counted(spent)
  <2> HIDE DEF spent
  <2>1. IsTally(held) /\ held.todo = spent.todo
    BY <1>5, BytesTally
  <2>2. \A n : LET v == [spent EXCEPT !.ledger.bytes = n]
              IN  (Clean(v) <=> Clean(spent)) /\ Counted(v) = Counted(spent)
    BY <1>5, CleanKept
  <2>3. (Clean(held) <=> Clean(spent)) /\ Counted(held) = Counted(spent)
    BY Zenon, <2>2
  <2> QED BY <2>1, <2>3
<1>7. \/ walk' \in {Exhaust(spent), Exhaust(held)} /\ UNCHANGED <<family, outcomes>>
      \/ /\ Fails(c.at) # "no" /\ UNCHANGED <<family, outcomes>>
         /\ walk' = IF code = "missing" /\ c.as \in {"named", "shared"} THEN spent
                    ELSE Note(spent, <<code>>)
      \/ Fails(c.at) = "no" /\ Parse(held, c.at, c.as, text)
  BY Zenon DEF Read
<1> HIDE DEF c, spent, held, code
<1>8. CASE walk' \in {Exhaust(spent), Exhaust(held)} /\ UNCHANGED <<family, outcomes>>
  <2>1. ~Clean(walk')
    BY <1>5, <1>6, <1>8, CleanKept
  <2> QED BY <1>8, <2>1 DEF OnReckoning
<1>9. CASE /\ Fails(c.at) # "no" /\ UNCHANGED <<family, outcomes>>
           /\ walk' = Note(spent, <<code>>)
  <2>1. <<code>> \in Seq(Codes) /\ <<code>> # <<>>
    BY ClassifiedAsCode DEF code
  <2>2. ~Clean(walk')
    BY <1>5, <1>9, <2>1, CleanNote
  <2> QED BY <1>9, <2>2 DEF OnReckoning
<1>10. CASE /\ UNCHANGED <<family, outcomes>> /\ walk' = spent
            /\ code = "missing" /\ c.as \in {"named", "shared"}
  <2>1. Fails(c.at) = "missing"
    BY <1>10, MissingOnly DEF code
  <2>2. c # Refers(c.at) /\ \A q : Lists(f, q) # c
    BY <1>1, <1>10 DEF Refers, Lists, Call
  <2>3. ASSUME NEW X \in SUBSET Steadies, NEW p \in Present(host, f, X), Leads(f, c, p)
        PROVE  FALSE
    <3>1. Looks(f, p) = c
      BY Zenon, <2>2, <2>3 DEF Leads
    <3>2. p = c.at
      BY <3>1 DEF Looks, Call
    <3>3. p \in Steadies
      BY DEF Present
    <3> QED BY <2>1, <3>2, <3>3 DEF Steadies, Steady
  <2>4. Clean(Rest) => Reckons(f, Tail(walk.todo), Counted(Rest))
    BY <1>1, <1>4, <2>2, <2>3, ReckonedWithout DEF c
  <2> QED BY Zenon, <1>2, <1>3, <1>5, <1>10, <2>4 DEF OnReckoning
<1>11. CASE Fails(c.at) = "no" /\ Parse(held, c.at, c.as, text)
  <2>1. held.todo = Tail(walk.todo) /\ (Clean(held) => Reckons(f, walk.todo, Counted(held)))
    BY Zenon, <1>3, <1>4, <1>5, <1>6
  <2> QED BY <1>1, <1>2, <1>3, <1>4, <1>6, <1>11, <2>1, ParsedReckons DEF c
<1> QED BY <1>7, <1>8, <1>9, <1>10, <1>11

LEMMA RunReckons == Walked /\ Looking /\ Ordered /\ Reckoning /\ Run => OnReckoning
<1> SUFFICES ASSUME Walked, Looking, Ordered, Reckoning, Run PROVE OnReckoning
  OBVIOUS
<1> DEFINE c == Head(walk.todo)
           code == Classify(Fails(c.at))
           counted == [Rest EXCEPT !.ledger.files = @ + 1]
           spent == IF c.as = "entry" THEN counted ELSE Rest
           text == host[c.at].text
           cut == [spent EXCEPT !.todo = <<>>]
<1>1. /\ walk # None /\ walk.todo # <<>> /\ c.call = "run" /\ host \in Hosts
  BY DEF Run, Step, Walked
<1>2. PICK f : f = Current
  OBVIOUS
<1>3. /\ IsTally(Rest) /\ Rest.todo = Tail(walk.todo) /\ f \in Families /\ Proper(f, c)
      /\ \A p \in Territory(f) : Leads(f, c, p) => ~Ahead(f, p, ToSet(Tail(walk.todo)))
  BY <1>1, <1>2, RestKeepsOrder
<1>4. /\ walk.todo \in Seq(ToSet(walk.todo)) /\ Counted(Rest) \in Nat
      /\ Clean(Rest) => Reckons(f, walk.todo, Counted(Rest))
  BY <1>1, <1>2, RestCounts
<1>5. /\ IsTally(spent) /\ spent.todo = Rest.todo
      /\ Clean(spent) <=> Clean(Rest)
      /\ Counted(spent) = Counted(Rest)
  <2>1. /\ IsTally(counted) /\ counted.todo = Rest.todo
        /\ Clean(counted) <=> Clean(Rest)
        /\ Counted(counted) = Counted(Rest)
    BY <1>3, FilesTally, CleanKept
  <2> HIDE DEF counted
  <2> QED BY <1>3, <2>1
<1>6. \/ walk' = Exhaust(cut) /\ UNCHANGED <<family, outcomes>>
      \/ walk' = Note(spent, <<code>>) /\ UNCHANGED <<family, outcomes>>
      \/ /\ Fails(c.at) = "no" /\ c.as = "root" /\ UNCHANGED <<family, outcomes>>
         /\ \E calls \in SetToSeqs(Entries(Current, Under(c.at))) : walk' = Queue(spent, calls)
      \/ Fails(c.at) = "no" /\ c.as # "root" /\ Parse(spent, c.at, c.as, text)
  BY Zenon DEF Run
<1> HIDE DEF c, spent, code
<1>7. CASE walk' = Exhaust(cut) /\ UNCHANGED <<family, outcomes>>
  <2>1. <<>> \in Seq(ToSet(<<>>))
    BY EmptySeq
  <2>2. IsTally(cut)
    BY <1>5, <2>1, TodoTally
  <2> HIDE DEF cut
  <2>3. ~Clean(walk')
    BY <1>7, <2>2, CleanKept
  <2> QED BY <1>7, <2>3 DEF OnReckoning
<1>8. CASE walk' = Note(spent, <<code>>) /\ UNCHANGED <<family, outcomes>>
  <2>1. <<code>> \in Seq(Codes) /\ <<code>> # <<>>
    BY ClassifiedAsCode DEF code
  <2>2. ~Clean(walk')
    BY <1>5, <1>8, <2>1, CleanNote
  <2> QED BY <1>8, <2>2 DEF OnReckoning
<1>9. CASE /\ Fails(c.at) = "no" /\ c.as = "root" /\ UNCHANGED <<family, outcomes>>
           /\ \E calls \in SetToSeqs(Entries(Current, Under(c.at))) : walk' = Queue(spent, calls)
  <2>1. PICK calls \in SetToSeqs(Entries(f, Under(c.at))) : walk' = Queue(spent, calls)
    BY <1>2, <1>9
  <2>2. calls \in Seq(ToSet(calls)) /\ ToSet(calls) = Entries(f, Under(c.at))
    BY Underneath, EntriesAreFinite, OrderedListed
  <2>3. c = Lists(f, c.at)
    BY <1>3, <1>9 DEF Proper, Refers, Looks, Lists, Call
  <2>4. /\ Clean(Queue(spent, calls)) <=> Clean(spent)
        /\ Counted(Queue(spent, calls)) = Counted(spent)
    BY <1>5, CleanKept
  <2>5. Clean(Rest) => Reckons(f, Queue(spent, calls).todo, Counted(Rest))
    BY <1>1, <1>3, <1>4, <1>5, <2>2, <2>3, ReckonedListing DEF c
  <2> QED BY Zenon, <1>2, <1>5, <1>9, <2>1, <2>4, <2>5 DEF OnReckoning
<1>10. CASE Fails(c.at) = "no" /\ c.as # "root" /\ Parse(spent, c.at, c.as, text)
  <2>1. spent.todo = Tail(walk.todo) /\ (Clean(spent) => Reckons(f, walk.todo, Counted(spent)))
    BY Zenon, <1>3, <1>4, <1>5
  <2> QED BY <1>1, <1>2, <1>3, <1>4, <1>5, <1>10, <2>1, ParsedReckons DEF c
<1> QED BY <1>6, <1>7, <1>8, <1>9, <1>10

LEMMA BookedAlike ==
    ASSUME NEW h \in Hosts, NEW g \in Hosts, NEW f, NEW X \in SUBSET Places,
           \A p \in X : h[p] = g[p]
    PROVE  \A calls : Booked(h, f, X, calls) = Booked(g, f, X, calls)
<1> SUFFICES ASSUME NEW calls PROVE Booked(h, f, X, calls) = Booked(g, f, X, calls)
  OBVIOUS
<1>1. \A p \in X : At(h, p) = At(g, p)
  BY DEF At
<1>2. Present(h, f, X) = Present(g, f, X) /\ Present(h, f, X) \subseteq X
  BY DEF Present
<1>3. Behind(h, f, X, calls) = Behind(g, f, X, calls) /\ Behind(h, f, X, calls) \in SUBSET X
  BY <1>2 DEF Behind
<1>4. ASSUME NEW p \in X PROVE Worth(h, f, X)[p] = Worth(g, f, X)[p]
  <2>1. h[p].text.refers = g[p].text.refers
    OBVIOUS
  <2>2. Mentions(h, p, X) = Mentions(g, p, X)
    BY <1>1, <2>1 DEF Mentions
  <2>3. From(h, f, p, X) = From(g, f, p, X)
    BY Zenon, <2>1, <2>2 DEF From
  <2> QED BY <1>1, <2>3 DEF Worth
<1>5. IsFiniteSet(X)
  BY CensusAssumption, FS_Subset
<1>6. \A S \in SUBSET X : SumOver(Worth(h, f, X), S) = SumOver(Worth(g, f, X), S)
  <2>1. \A p \in X : Worth(h, f, X)[p] = Worth(g, f, X)[p]
    BY <1>4
  <2> QED BY <1>5, <2>1, SumOfTheSame
<1> QED BY Zenon, <1>3, <1>6 DEF Booked

LEMMA DueAlike ==
    ASSUME NEW h, NEW g, NEW X, \A p \in X : h[p] = g[p]
    PROVE  \A s : Due(h, X, s) = Due(g, X, s)
<1>1. \A p \in X : At(h, p) = At(g, p)
  BY DEF At
<1>2. \A c : Owes(h, X, c) = Owes(g, X, c)
  BY <1>1 DEF Owes
<1>3. \A s : Owed(h, X, s) = Owed(g, X, s)
  BY <1>2 DEF Owed
<1> QED BY <1>3 DEF Due

\* What is steady now was, and is what it was: the same reckoning holds of it.
LEMMA ChangeReckons ==
    ASSUME host \in Hosts, Change, NEW f, NEW s, NEW n, Reckons(f, s, n)
    PROVE  Reckons(f, s, n)'
<1>1. /\ host' \in Hosts /\ touched' = touched \cup {q \in Places : host'[q] # host[q]}
  BY DEF Change
<1>2. ASSUME NEW p \in Steadies' PROVE p \in Steadies /\ host[p] = host'[p]
  <2>1. p \in Places /\ Steady(p)'
    BY DEF Steadies
  <2>2. p \in Seq(ToSet(p)) /\ p # <<>>
    BY <2>1, CensusAssumption
  <2>3. Len(p) \in 1..Len(p) /\ SubSeq(p, 1, Len(p)) = p
    <3>1. Len(p) \in Nat /\ Len(p) # 0
      BY <2>2, LenProperties, EmptySeq
    <3>2. SubSeq(p, 1, Len(p)) = p
      BY <2>2, <3>1, SubSeqFull
    <3> QED BY <3>1, <3>2
  <2>4. p \notin touched'
    BY <2>1, <2>3 DEF Steady
  <2> QED BY <1>1, <2>1, <2>4, SteadyBefore DEF Steadies
<1>3. touched' = {} => touched = {} /\ Steadies' = Steadies
  <2> SUFFICES ASSUME touched' = {} PROVE touched = {} /\ Steadies' = Steadies
    OBVIOUS
  <2>1. touched = {} /\ \A p \in Places : host'[p] = host[p]
    BY <1>1
  <2>2. \A p \in Places : Steady(p)' <=> Steady(p)
    BY <2>1 DEF Steady, Fails
  <2> QED BY <2>1, <2>2 DEF Steadies
<1>4. ASSUME NEW X \in SUBSET Steadies'
      PROVE  /\ Booked(host', f, X, ToSet(s)) <= n + Due(host', X, s)
             /\ touched' = {} /\ X = Steadies'
                    => Booked(host', f, X, ToSet(s)) = n + Due(host', X, s)
  <2>1. X \in SUBSET Steadies /\ X \in SUBSET Places /\ \A p \in X : host[p] = host'[p]
    BY <1>2 DEF Steadies
  <2>2. Booked(host, f, X, ToSet(s)) = Booked(host', f, X, ToSet(s))
    BY <1>1, <2>1, BookedAlike
  <2>3. Due(host, X, s) = Due(host', X, s)
    BY <2>1, DueAlike
  <2>4. /\ Booked(host, f, X, ToSet(s)) <= n + Due(host, X, s)
        /\ touched = {} /\ X = Steadies
               => Booked(host, f, X, ToSet(s)) = n + Due(host, X, s)
    BY <2>1 DEF Reckons
  <2> QED BY Zenon, <1>3, <2>2, <2>3, <2>4
<1> QED BY <1>4 DEF Reckons

LEMMA NextReckoning ==
    Walked /\ Looking /\ Ordered /\ Reckoning /\ [Next]_vars => Reckoning'
<1> SUFFICES ASSUME Walked, Looking, Ordered, Reckoning, [Next]_vars PROVE Reckoning'
  OBVIOUS
<1>1. CASE Change
  <2>1. host \in Hosts /\ UNCHANGED <<family, walk, outcomes>>
    BY <1>1 DEF Change, Walked
  <2>2. Current' = Current
    BY <2>1 DEF Current
  <2>3. walk # None /\ Clean(walk) => Reckons(Current, walk.todo, Counted(walk))'
    BY <1>1, <2>1, <2>2, ChangeReckons DEF Reckoning
  <2>4. \A f \in DOMAIN outcomes :
            CleanOutcome(outcomes[f]) => Reckons(f, <<>>, outcomes[f].scan.found)'
    BY <1>1, <2>1, ChangeReckons DEF Reckoning
  <2> QED BY <2>1, <2>3, <2>4 DEF Reckoning
<1>2. CASE UNCHANGED <<host, touched, family, walk, outcomes>>
  <2>1. walk' = None => Reckoning'
    BY <1>2, ReckonsSame DEF Reckoning
  <2>2. walk' # None => OnReckoning
    BY <1>2 DEF OnReckoning, Reckoning
  <2> QED BY <1>2, <2>1, <2>2, OnReckoningKept
<1>3. Begin \/ List \/ Read \/ Run \/ Finish => OnReckoning /\ UNCHANGED <<host, touched>>
  <2>1. Begin \/ List \/ Read \/ Run \/ Finish => OnReckoning
    BY BeginReckons, ListReckons, ReadReckons, RunReckons, FinishReckons
  <2>2. Begin \/ List \/ Read \/ Run \/ Finish => UNCHANGED <<host, touched>>
    BY DEF Begin, List, Read, Run, Finish, Step
  <2> QED BY <2>1, <2>2
<1>4. \/ Begin \/ List \/ Read \/ Run \/ Finish \/ Change
      \/ UNCHANGED <<host, touched, family, walk, outcomes>>
  BY DEF Next, vars, Look, Answer, File, Project, Ask
<1> QED BY <1>1, <1>2, <1>3, <1>4, OnReckoningKept

\* The total of a family, as it is over the places that are steady now.
TotalOf(f) ==
    LET here == {p \in Territory(f) : Steady(p) /\ Fails(p) = "no" /\ LookedInto(f, p)}
        at(p) == Consumers(host[p].text)
        refers(p) == host[p].text.refers
        from(p) == IF ~Unit(f) THEN 0
                   ELSE Total([i \in DOMAIN refers(p) |->
                                  IF Steady(refers(p)[i]) THEN at(refers(p)[i]) ELSE 0])
    IN  Total([p \in here |-> at(p) + from(p)])

Totals ==
    report # None =>
        \A f \in Known : /\ TotalOf(f) <= report[f].scan.found
                         /\ touched = {} => TotalOf(f) = report[f].scan.found

LEMMA KnownIsTotalOf == (KnownIsTotal <=> Totals) /\ (KnownIsTotal <=> Totals)'
  BY Zenon DEF KnownIsTotal, Totals, TotalOf

LEMMA TotalOfSame == ASSUME UNCHANGED <<host, touched>> PROVE \A f : TotalOf(f)' = TotalOf(f)
  BY DEF TotalOf, Steady, Fails, LookedInto, Territory, Inside

\* What a family's places come to once nothing is ahead.
LEMMA TotalIsBooked ==
    ASSUME host \in Hosts, NEW f
    PROVE  TotalOf(f) = Booked(host, f, Steadies, {})
<1> DEFINE here == {p \in Territory(f) : Steady(p) /\ Fails(p) = "no" /\ LookedInto(f, p)}
           at(p) == Consumers(host[p].text)
           refers(p) == host[p].text.refers
           mentioned(p) == [i \in DOMAIN refers(p) |->
                               IF Steady(refers(p)[i]) THEN at(refers(p)[i]) ELSE 0]
           from(p) == IF ~Unit(f) THEN 0 ELSE Total(mentioned(p))
           worth == [p \in here |-> at(p) + from(p)]
<1>1. \A p : p \in Steadies <=> Steady(p)
  BY DEF Steadies, Steady, Fails
<1>2. here = Present(host, f, Steadies)
  <2>1. \A p \in Steadies : Fails(p) = host[p].fails
    BY DEF Steadies, Fails
  <2>2. \A p : LookedInto(f, p) <=>
            Parsed(f, IF p \in ToSet(Named[f]) THEN "shared" ELSE "entry", host[p].text)
    BY DEF LookedInto
  <2> QED BY <1>1, <2>1, <2>2 DEF Present
<1>3. \A count : Total(count) = SumOver(count, DOMAIN count)
  BY FoldIsSum DEF Total
<1>4. \A p : mentioned(p) = Mentions(host, p, Steadies)
  BY <1>1 DEF Mentions, At
<1>5. ASSUME NEW p PROVE from(p) = From(host, f, p, Steadies)
  <2>1. Total(mentioned(p)) = SumOver(Mentions(host, p, Steadies), DOMAIN refers(p))
    <3>1. DOMAIN mentioned(p) = DOMAIN refers(p)
      OBVIOUS
    <3> HIDE DEF mentioned, refers
    <3> QED BY Zenon, <1>3, <1>4, <3>1
  <2> QED BY <2>1 DEF From
<1>6. Steadies \in SUBSET Places
  BY DEF Steadies
<1>7. here \in SUBSET Places /\ IsFiniteSet(here)
  <2>1. here \in SUBSET Places
    BY <1>2, <1>6, BehindArePlaces
  <2> QED BY <2>1, CensusAssumption, FS_Subset
<1>8. DOMAIN worth = here
  OBVIOUS
<1>9. \A p \in here : worth[p] = Worth(host, f, Steadies)[p]
  <2> SUFFICES ASSUME NEW p \in here PROVE worth[p] = Worth(host, f, Steadies)[p]
    OBVIOUS
  <2>1. worth[p] = at(p) + from(p)
    OBVIOUS
  <2>2. Worth(host, f, Steadies)[p] = At(host, p) + From(host, f, p, Steadies)
    BY <1>7 DEF Worth
  <2>3. at(p) = At(host, p)
    BY DEF At
  <2> HIDE DEF worth, at, from
  <2> QED BY Zenon, <1>5, <2>1, <2>2, <2>3
<1>10. TotalOf(f) = Total(worth)
  BY DEF TotalOf
<1> HIDE DEF here, worth
<1>11. \A S \in SUBSET here : SumOver(worth, S) = SumOver(Worth(host, f, Steadies), S)
  BY <1>7, <1>9, SumOfTheSame
<1>12. Total(worth) = SumOver(Worth(host, f, Steadies), here)
  BY Zenon, <1>3, <1>8, <1>11
<1>13. Behind(host, f, Steadies, {}) = here
  BY Zenon, <1>2, <1>6, BehindArePlaces
<1> QED BY Zenon, <1>10, <1>12, <1>13 DEF Booked

\* A family whose count is known missed nothing, and its count is what it was.
LEMMA KnownWasClean ==
    ASSUME NEW o, IsOutcome(o), NEW n \in Nat, Verdict(Degraded(o, n).scan) # "UNKNOWN"
    PROVE  CleanOutcome(o) /\ Degraded(o, n).scan.found = o.scan.found
<1> DEFINE codes == Copies("ambiguous", n)
<1>1. /\ Degraded(o, n).scan.errors = o.scan.errors \o codes
      /\ Degraded(o, n).scan.attempted = o.scan.attempted
      /\ Degraded(o, n).scan.completed = o.scan.completed
      /\ Degraded(o, n).scan.found = o.scan.found
  BY DEF IsOutcome, Degraded
<1>2. o.scan.attempted /\ o.scan.completed /\ o.scan.errors \o codes = <<>>
  BY Zenon, <1>1 DEF Verdict
<1>3. "ambiguous" \in Codes
  BY DEF Codes
<1>4. codes \in Seq(Codes) /\ o.scan.errors \in Seq(Codes)
  BY <1>3, CopiesAreCodes DEF IsOutcome
<1>5. o.scan.errors = <<>>
  BY <1>2, <1>4, NeitherHasAny
<1> QED BY Zenon, <1>1, <1>2, <1>5 DEF CleanOutcome

LEMMA AnswerTotals == Walked /\ Noted /\ Balance /\ Reckoning /\ Answer => KnownIsTotal'
<1> SUFFICES ASSUME Walked, Noted, Balance, Reckoning, Answer PROVE KnownIsTotal'
  OBVIOUS
<1> DEFINE n == Cardinality({i \in DOMAIN facts : facts[i]})
<1>1. /\ family = Len(DeclaredFamilies)
      /\ report' = [f \in Families |-> Degraded(outcomes[f], n)]
      /\ UNCHANGED <<host, touched>> /\ host \in Hosts
  BY DEF Answer, Walked
<1>2. n \in Nat
  BY FactsCounted
<1> HIDE DEF n
<1>3. DOMAIN outcomes = Families
  BY <1>1, FamiliesAreListed DEF Walked
<1>4. ASSUME NEW f \in Families, Verdict(report'[f].scan) # "UNKNOWN"
      PROVE  /\ TotalOf(f) <= report'[f].scan.found
             /\ touched = {} => TotalOf(f) = report'[f].scan.found
  <2> DEFINE found == outcomes[f].scan.found
  <2>1. report'[f] = Degraded(outcomes[f], n) /\ IsOutcome(outcomes[f])
    BY Zenon, <1>1, <1>3 DEF Walked
  <2>2. CleanOutcome(outcomes[f]) /\ report'[f].scan.found = found
    BY <1>2, <1>4, <2>1, KnownWasClean
  <2>3. Reckons(f, <<>>, found)
    BY <1>3, <2>2 DEF Reckoning
  <2>4. found \in Nat
    BY <1>3 DEF Balance, Tallied, FamilyOutcome, Scan
  <2> HIDE DEF found
  <2>5. Due(host, Steadies, <<>>) = 0 /\ ToSet(<<>>) = {}
    <3>1. <<>> \in Seq(ToSet(<<>>))
      BY EmptySeq
    <3>2. ToSet(<<>>) = {}
      BY DEF ToSet
    <3> QED BY <3>1, <3>2, DueOfNone
  <2>6. /\ Booked(host, f, Steadies, {}) <= found + 0
        /\ touched = {} => Booked(host, f, Steadies, {}) = found + 0
    <3>1. Steadies \in SUBSET Steadies
      OBVIOUS
    <3> QED BY Zenon, <2>3, <2>5, <3>1 DEF Reckons
  <2>7. found + 0 = found
    BY <2>4
  <2> QED BY Zenon, <1>1, <2>2, <2>6, <2>7, TotalIsBooked
<1>5. \A f : TotalOf(f)' = TotalOf(f)
  BY <1>1, TotalOfSame
<1>6. Known' = {f \in Families : Verdict(report'[f].scan) # "UNKNOWN"}
  BY DEF Known
<1>7. \A f \in Known' : /\ TotalOf(f)' <= report'[f].scan.found
                        /\ touched' = {} => TotalOf(f)' = report'[f].scan.found
  BY <1>1, <1>4, <1>5, <1>6
<1> QED BY <1>7, KnownIsTotalOf DEF Totals

LEMMA NextTotals ==
    Walked /\ Noted /\ Balance /\ Reckoning /\ KnownIsTotal /\ [Next]_vars => KnownIsTotal'
<1> SUFFICES ASSUME Walked, Noted, Balance, Reckoning, KnownIsTotal, [Next]_vars
             PROVE  KnownIsTotal'
  OBVIOUS
<1>1. CASE Answer
  BY <1>1, AnswerTotals
<1>2. CASE Change
  BY <1>2 DEF Change, KnownIsTotal
<1>3. CASE UNCHANGED <<host, touched, report>>
  <2>1. Known' = Known
    BY <1>3 DEF Known
  <2>2. \A f : TotalOf(f)' = TotalOf(f)
    BY <1>3, TotalOfSame
  <2> QED BY <1>3, <2>1, <2>2, KnownIsTotalOf DEF Totals
<1>4. Answer \/ Change \/ UNCHANGED <<host, touched, report>>
  BY DEF Next, vars, Begin, List, Read, Run, Finish, Step, Look, File, Project, Ask
<1> QED BY <1>1, <1>2, <1>3, <1>4

\* On any host, in any tree of places, however it changes under the census: a family
\* whose count is reported as a total has in it every consumer of every place that
\* was there all along, once for the place and once for each mention of a file in a
\* unit, and nothing more when the host did not change.
THEOREM TotalsMissNothing == Spec => []KnownIsTotal
<1>1. Init => Walked /\ Noted /\ Looking /\ Balance /\ Ordered /\ Reckoning /\ KnownIsTotal
  <2> SUFFICES ASSUME Init
               PROVE  Walked /\ Noted /\ Looking /\ Balance /\ Ordered /\ Reckoning /\ KnownIsTotal
    OBVIOUS
  <2>1. Walked /\ Noted
    BY InitWalked
  <2>2. DOMAIN outcomes = {}
    BY DEF Init
  <2> QED BY <2>1, <2>2 DEF Init, Looking, Balance, Ordered, Reckoning, KnownIsTotal
<1> QED BY <1>1, NextWalked, NextNoted, NextLooking, NextBalance, NextOrdered, NextReckoning,
           NextTotals, PTL DEF Spec
==============================================================================
