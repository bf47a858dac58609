------------------------------- MODULE Census -------------------------------
(***************************************************************************)
(* The census of one host: every family of launches walked in turn through  *)
(* the HostSource seam, one call of the source at a time, while the host    *)
(* may change between calls; then the facts that degrade every count; then  *)
(* the documents made of what was found.                                    *)
(*                                                                         *)
(* The host is external: a tree of places (paths, or queues of a program    *)
(* whose jobs are its children).  Each holds a text or fails in a way the   *)
(* source declares.  A text is what the walks look for in it.  The order in *)
(* which a walk notes its errors is abstracted.                             *)
(***************************************************************************)
EXTENDS Attribution, SequencesExt

CONSTANTS Hosts,        \* what the host may be like: [Places -> [fails, text]]
          KindOf,       \* what the last name of a path ends in
          Directories,  \* a family's directories (or its program), in order
          Named,        \* the files a family reads by name, in order
          Degrading,    \* the paths whose presence degrades coverage, in order
          Skips,        \* the sets of families an operator may exclude
          MaxFiles, MaxBytes, MaxEntries,  \* Budget
          MaxChanges    \* bound: changes of the host during the census

Places == UNION {DOMAIN h : h \in Hosts}
SourceErrorClasses == {"missing", "denied", "timeout", "unsupported", "parse"}

ASSUME CensusAssumption ==
    /\ \A h \in Hosts : DOMAIN h = Places
    /\ IsFiniteSet(Places)
    /\ \A p \in Places : p \in Seq(ToSet(p)) \ {<<>>}
    /\ \A h \in Hosts, p \in Places :
           /\ Len(p) > 1 /\ h[p].fails # "missing" =>
                  Front(p) \in Places /\ h[Front(p)].fails # "missing"
           /\ h[p].text.dsns \in Nat /\ h[p].text.malformed \in Nat
           /\ h[p].text.refers \in Seq(ToSet(h[p].text.refers))
    /\ \A f \in Families : /\ Directories[f] \in Seq(ToSet(Directories[f]))
                           /\ Named[f] \in Seq(ToSet(Named[f]))
                           /\ IsInjective(Directories[f]) /\ IsInjective(Named[f])
                           /\ \A p \in ToSet(Directories[f]) \cup ToSet(Named[f]) : Len(p) = 1
    /\ \A f \in {"systemd_service", "systemd_timer"} : Named[f] = <<>>
    /\ Degrading \in Seq(ToSet(Degrading))
    /\ Skips \subseteq SUBSET Families
    /\ MaxFiles \in Nat /\ MaxBytes \in Nat /\ MaxEntries \in Nat /\ MaxChanges \in Nat

VARIABLES host, changes,  \* the host, and how often it changed
          touched,        \* history: the places that changed since the census began
          skipped,        \* the families the operator excludes
          family,         \* how many families are done
          walk,           \* the walk of the next one, or None
          outcomes,       \* the families done
          facts,          \* how many degrading paths were asked for, and the answers
          report,         \* enumerate_all()'s result, or None
          observation, envelope, answer  \* the documents, and the interlock's verdict

vars == <<host, changes, touched, skipped, family, walk, outcomes, facts, report,
          observation, envelope, answer>>
documents == <<observation, envelope, answer>>

-----------------------------------------------------------------------------
(* The seam. *)

Fails(p) == IF p \in Places THEN host[p].fails ELSE "missing"
Under(p) == {q \in Places : Len(q) > 1 /\ Front(q) = p /\ Fails(q) # "missing"}

\* Mutant: a code the seam does not know is taken for an absence.
ClassifyAsMissing(code) == IF code \in SourceErrorClasses THEN code ELSE "missing"

Classify(code) == IF code \in SourceErrorClasses THEN code ELSE "unknown"

Call(call, at, as) == [call |-> call, at |-> at, as |-> as]
Calls(call, paths, as) == [i \in DOMAIN paths |-> Call(call, paths[i], as)]

Queued(f) == f \in {"at", "docker"}
Tabular(f) == f \in {"cron", "anacron"}

\* The calls a family begins with.
Opening(f) ==
    LET lists == Calls(IF Queued(f) THEN "run" ELSE "list", Directories[f], "root")
        reads == Calls("read", Named[f], IF f = "script" THEN "shared" ELSE "named")
    IN  IF Tabular(f) THEN lists \o reads ELSE reads \o lists

\* The call an entry of a listing leads to, if any.
Follow(f, p) ==
    LET kind == KindOf[Last(p)]
    IN  CASE f = "systemd_service" -> IF kind = "service" THEN {Call("read", p, "entry")} ELSE {}
          [] f = "systemd_timer" -> IF kind = "timer" THEN {Call("read", p, "entry")} ELSE {}
          [] f = "systemd_dropin" /\ Len(p) = 2 ->
                 IF kind = "dropins" THEN {Call("list", p, "root")} ELSE {}
          [] f = "systemd_dropin" /\ Len(p) > 2 ->
                 IF kind = "conf" THEN {Call("read", p, "entry")} ELSE {}
          [] Tabular(f) -> IF kind # "backup" THEN {Call("read", p, "entry")} ELSE {}
          [] Queued(f) -> {Call("run", p, "entry")}
          [] f = "compose" /\ Len(p) = 2 -> {Call("list", p, "root")}
          [] f = "compose" /\ Len(p) > 2 ->
                 IF kind \in {"compose", "env"} THEN {Call("read", p, "entry")} ELSE {}
          [] OTHER -> {Call("read", p, "entry")}

Unit(f) == f \in {"systemd_service", "systemd_timer"}

\* Two shapes count: DSNs, and the variables libpq assembles one from.
Consumers(text) ==
    IF text.dsns + text.malformed > 0 THEN text.dsns + text.malformed
    ELSE IF text.piecemeal THEN 1 ELSE 0

Copies(code, n) == [i \in 1..n |-> code]
When(condition, code) == Copies(code, IF condition THEN 1 ELSE 0)

\* Only a script that talks to Postgres is parsed.
Parsed(f, as, text) ==
    f = "script" /\ as = "entry" => text.psql \/ text.dsns + text.malformed > 0

\* What a text makes a walk note, beside its consumers.
Notes(f, as, text) ==
    Copies("parse", text.malformed)
      \o When(text.dsns + text.malformed = 0 /\ text.piecemeal /\ text.service, "ambiguous")
      \o When(text.variable /\ (Unit(f) \/ Tabular(f)) /\ as # "environment", "dynamic")
      \o When(f = "ci_runner", "dynamic")
      \o When(f = "script" /\ as = "entry" /\ Consumers(text) = 0, "dynamic")

\* The calls a text leads to: a unit's environment files, which lead nowhere.
Referred(f, as, text) ==
    IF Unit(f) /\ as = "entry" THEN Calls("read", text.refers, "environment") ELSE <<>>

-----------------------------------------------------------------------------
(* The walks. *)

Ledger == [files |-> 0, bytes |-> 0, errors |-> <<>>, exhausted |-> FALSE]

Walking(calls) == [todo |-> calls, ledger |-> Ledger, attributed |-> 0, unattributed |-> 0]

Outcome(w, attempted) ==
    [scan |-> [attempted |-> attempted, completed |-> ~w.ledger.exhausted,
               errors |-> w.ledger.errors, found |-> w.attributed + w.unattributed],
     attributed |-> w.attributed, unattributed |-> w.unattributed]

Note(w, codes) == [w EXCEPT !.ledger.errors = @ \o codes]
Exhaust(w) == [w EXCEPT !.ledger.exhausted = TRUE]

\* Custody needs a unit or a principal, and only a shared environment has neither.
Count(w, as, n) ==
    IF as = "shared" THEN [w EXCEPT !.unattributed = @ + n]
    ELSE [w EXCEPT !.attributed = @ + n]

Init ==
    /\ host \in Hosts
    /\ skipped \in Skips
    /\ changes = 0 /\ touched = {}
    /\ family = 0 /\ walk = None /\ outcomes = <<>>
    /\ facts = <<>> /\ report = None
    /\ observation = None /\ envelope = None /\ answer = None

Current == DeclaredFamilies[family + 1]

Keep(outcome) ==
    /\ outcomes' = [f \in DOMAIN outcomes \cup {Current} |->
                        IF f = Current THEN outcome ELSE outcomes[f]]
    /\ family' = family + 1
    /\ walk' = None

Begin ==
    /\ family < Len(DeclaredFamilies) /\ walk = None
    /\ IF Current \in skipped
       THEN Keep(Outcome(Walking(<<>>), FALSE))
       ELSE /\ walk' = Walking(Opening(Current))
            /\ UNCHANGED <<family, outcomes>>
    /\ UNCHANGED <<host, changes, touched, skipped, facts, report, documents>>

Finish ==
    /\ walk # None /\ walk.todo = <<>>
    /\ Keep(Outcome(walk, TRUE))
    /\ UNCHANGED <<host, changes, touched, skipped, facts, report, documents>>

Step(call) ==
    /\ walk # None /\ walk.todo # <<>>
    /\ Head(walk.todo).call = call
    /\ UNCHANGED <<host, changes, touched, skipped, facts, report, documents>>

Rest == [walk EXCEPT !.todo = Tail(@)]

\* Crontabs are read after every directory is listed, other entries in place.
Queue(w, calls) ==
    [w EXCEPT !.todo = IF Tabular(Current) THEN @ \o calls ELSE calls \o @]

Entries(f, paths) == UNION {Follow(f, p) : p \in paths}

\* What a listing comes to: all of it, or as much as the budget allows.
Listings(paths) ==
    IF Cardinality(paths) <= MaxEntries THEN {paths} ELSE kSubset(MaxEntries, paths)

\* A directory that is not there is an answer, one that fails is an error, and
\* one that holds too much is listed in part.
List ==
    LET p == Head(walk.todo).at
        code == Classify(Fails(p))
    IN  /\ Step("list")
        /\ UNCHANGED <<family, outcomes>>
        /\ IF Fails(p) # "no"
           THEN walk' = IF code = "missing" THEN Rest ELSE Note(Rest, <<code>>)
           ELSE \E paths \in Listings(Under(p)) : \E calls \in SetToSeqs(Entries(Current, paths)) :
                    walk' = IF paths = Under(p) THEN Queue(Rest, calls)
                            ELSE Exhaust(Queue(Rest, calls))

\* A port that only looks like digits raises out of the walk.
Raises(text) == text.dsns + text.malformed = 0 /\ text.piecemeal /\ text.badport

\* A text that arrived.  A walk that raised leaves an error and no consumers.
Parse(w, at, as, text) ==
    IF ~Parsed(Current, as, text) THEN walk' = w /\ UNCHANGED <<family, outcomes>>
    ELSE IF Raises(text) THEN Keep(Outcome(Note(Walking(<<>>), <<"unknown">>), TRUE))
    ELSE /\ walk' = Queue(Note(Count(w, as, Consumers(text)), Notes(Current, as, text)),
                          Referred(Current, as, text))
         /\ UNCHANGED <<family, outcomes>>

\* A named file that is not there is an answer; a discovered one that went is not.
Read ==
    LET c == Head(walk.todo)
        code == Classify(Fails(c.at))
        spent == [Rest EXCEPT !.ledger.files = @ + 1]
    IN  /\ Step("read")
        /\ IF spent.ledger.files > MaxFiles
           THEN walk' = Exhaust(spent) /\ UNCHANGED <<family, outcomes>>
           ELSE IF Fails(c.at) # "no"
           THEN /\ walk' = IF code = "missing" /\ c.as \in {"named", "shared"} THEN spent
                           ELSE Note(spent, <<code>>)
                /\ UNCHANGED <<family, outcomes>>
           ELSE LET text == host[c.at].text
                    held == [spent EXCEPT !.ledger.bytes = @ + text.size]
                IN  IF held.ledger.bytes > MaxBytes
                    THEN walk' = Exhaust(held) /\ UNCHANGED <<family, outcomes>>
                    ELSE Parse(held, c.at, c.as, text)

\* A program that fails is always an error.  Its queue is not cut, but the first
\* job beyond the budget ends the walk.
Run ==
    LET c == Head(walk.todo)
        spent == IF c.as = "entry" THEN [Rest EXCEPT !.ledger.files = @ + 1] ELSE Rest
    IN  /\ Step("run")
        /\ IF spent.ledger.files > MaxFiles
           THEN /\ walk' = Exhaust([spent EXCEPT !.todo = <<>>])
                /\ UNCHANGED <<family, outcomes>>
           ELSE IF Fails(c.at) # "no"
           THEN /\ walk' = Note(spent, <<Classify(Fails(c.at))>>)
                /\ UNCHANGED <<family, outcomes>>
           ELSE IF c.as = "root"
           THEN /\ \E calls \in SetToSeqs(Entries(Current, Under(c.at))) :
                       walk' = Queue(spent, calls)
                /\ UNCHANGED <<family, outcomes>>
           ELSE Parse(spent, c.at, c.as, host[c.at].text)

-----------------------------------------------------------------------------
(* The facts that degrade, and the documents. *)

\* Mutant: only a plain yes degrades.
ThereForSure(p) == Fails(p) = "no"

\* A source that cannot tell degrades like one that says yes.
There(p) == Fails(p) # "missing"

\* Mutant: a degraded family loses its count, and keeps its consumers.
DegradedToNothing(outcome, n) ==
    [outcome EXCEPT !.scan.errors = @ \o Copies("ambiguous", n),
                    !.scan.found = IF n > 0 THEN 0 ELSE @]

\* What was found is kept: only its completeness is in doubt.
Degraded(outcome, n) == [outcome EXCEPT !.scan.errors = @ \o Copies("ambiguous", n)]

Look ==
    /\ family = Len(DeclaredFamilies) /\ Len(facts) < Len(Degrading)
    /\ facts' = Append(facts, There(Degrading[Len(facts) + 1]))
    /\ UNCHANGED <<host, changes, touched, skipped, family, walk, outcomes, report, documents>>

Answer ==
    /\ family = Len(DeclaredFamilies) /\ Len(facts) = Len(Degrading) /\ report = None
    /\ report' = [f \in Families |->
                     Degraded(outcomes[f], Cardinality({i \in DOMAIN facts : facts[i]}))]
    /\ UNCHANGED <<host, changes, touched, skipped, family, walk, outcomes, facts, documents>>

\* The host is somebody else's, and goes on.
Change ==
    /\ report = None /\ changes < MaxChanges
    /\ host' \in Hosts \ {host}
    /\ touched' = touched \cup {p \in Places : host'[p] # host[p]}
    /\ changes' = changes + 1
    /\ UNCHANGED <<skipped, family, walk, outcomes, facts, report, documents>>

\* The caller files the observation, with the artifacts it names.
File(collector, source) ==
    /\ report # None /\ observation = None
    /\ Fileable(collector, source)
    /\ observation' = Observation(report, collector, source)
    /\ UNCHANGED <<host, changes, touched, skipped, family, walk, outcomes, facts, report,
                   envelope, answer>>

\* An observation of the contract that came before, of the same census.
Historical == [observation EXCEPT !.version = 1, !.collector = "", !.source = ""]

\* Another host's observation, in the same store.
Another == [observation EXCEPT !.attributed = @ + 1]

\* attribution-project.  Private material in a published field refuses it all.
Project(document, request, clash) ==
    /\ envelope = None
    /\ Requested(request) /\ ~clash
    /\ envelope' = Envelope(document, "running", request)
    /\ UNCHANGED <<host, changes, touched, skipped, family, walk, outcomes, facts, report,
                   observation, answer>>

\* The rotation lane resolves what it takes for the envelope's observation.
Ask(document) ==
    /\ envelope # None /\ answer = None
    /\ answer' = [verdict |-> Interlock(envelope, document), of |-> document]
    /\ UNCHANGED <<host, changes, touched, skipped, family, walk, outcomes, facts, report,
                   observation, envelope>>

Requests == [authorization : {"a", ""}, challenge : {"c", ""}, authority : {"r", ""}]

Next ==
    \/ Begin \/ List \/ Read \/ Run \/ Finish \/ Look \/ Answer \/ Change
    \/ \E collector, source \in {"d", ""} : File(collector, source)
    \/ /\ observation # None
       /\ \/ \E document \in {observation, Historical}, request \in Requests, clash \in BOOLEAN :
                 Project(document, request, clash)
          \/ \E document \in {None, observation, Historical, Another} : Ask(document)

Spec == Init /\ [][Next]_vars

-----------------------------------------------------------------------------
(* Properties. *)

Scan == [attempted : BOOLEAN, completed : BOOLEAN, found : Nat,
         errors : Seq(SourceErrorClasses \cup {"unknown", "ambiguous", "dynamic"})]
FamilyOutcome == [scan : Scan, attributed : Nat, unattributed : Nat]
Document == [version : {1, 2}, collector : {"d", ""}, source : {"d", ""},
             families : [Families -> Scan], attributed : Nat, unattributed : Nat]

TypeOK ==
    /\ host \in Hosts /\ skipped \in Skips
    /\ changes \in 0..MaxChanges /\ touched \subseteq Places
    /\ family \in 0..Len(DeclaredFamilies)
    /\ walk # None =>
           /\ Outcome(walk, TRUE) \in FamilyOutcome
           /\ \A i \in DOMAIN walk.todo : walk.todo[i].call \in {"list", "read", "run"}
    /\ DOMAIN outcomes = {DeclaredFamilies[i] : i \in 1..family}
    /\ \A f \in DOMAIN outcomes : outcomes[f] \in FamilyOutcome
    /\ facts \in Seq(BOOLEAN)
    /\ report # None => report \in [Families -> FamilyOutcome]
    /\ observation # None => observation \in Document /\ observation.collector # ""
    /\ answer # None => answer.verdict \in {"DISCHARGED", "REFUSED", "UNKNOWN"}

\* A place that is there and, with the directories above it, has been all along.
Steady(p) ==
    /\ Fails(p) # "missing"
    /\ \A n \in 1..Len(p) : SubSeq(p, 1, n) \notin touched

\* Where a family's launches are configured: by name, or by what a path ends in.
Inside(f, depth) ==
    {p \in Places : Len(p) = depth /\ <<Head(p)>> \in ToSet(Directories[f])}
Territory(f) ==
    ToSet(Named[f]) \cup
    CASE f = "systemd_service" -> {p \in Inside(f, 2) : KindOf[p[2]] = "service"}
      [] f = "systemd_timer" -> {p \in Inside(f, 2) : KindOf[p[2]] = "timer"}
      [] f = "systemd_dropin" ->
             {p \in Inside(f, 3) : KindOf[p[2]] = "dropins" /\ KindOf[p[3]] = "conf"}
      [] Tabular(f) -> {p \in Inside(f, 2) : KindOf[p[2]] # "backup"}
      [] f = "compose" -> {p \in Inside(f, 3) : KindOf[p[3]] \in {"compose", "env"}}
      [] OTHER -> Inside(f, 2)

\* A script is looked into only when it talks to Postgres.
LookedInto(f, p) == Parsed(f, IF p \in ToSet(Named[f]) THEN "shared" ELSE "entry", host[p].text)

Known == {f \in Families : Verdict(report[f].scan) # "UNKNOWN"}

\* A family that reports no consumer was looked through: whatever was there all
\* along could be read, and launches nothing this census can see, in any file.
AbsentMeansLooked ==
    report # None =>
        \A f \in Known : report[f].scan.found = 0 =>
            \A p \in Territory(f) : Steady(p) =>
                /\ Fails(p) = "no"
                /\ LookedInto(f, p) => Consumers(host[p].text) = 0
                /\ Unit(f) \/ Tabular(f) => ~host[p].text.variable
                /\ Unit(f) => \A e \in ToSet(host[p].text.refers) :
                       Steady(e) => Fails(e) = "no" /\ Consumers(host[e].text) = 0

\* A count that is reported as a total is one: it misses no consumer that was
\* there all along, and it is exact on a host that did not change.
KnownIsTotal ==
    report # None =>
        \A f \in Known :
            LET here == {p \in Territory(f) : Steady(p) /\ Fails(p) = "no" /\ LookedInto(f, p)}
                at(p) == Consumers(host[p].text)
                refers(p) == host[p].text.refers
                from(p) == IF ~Unit(f) THEN 0
                           ELSE Total([i \in DOMAIN refers(p) |->
                                          IF Steady(refers(p)[i]) THEN at(refers(p)[i]) ELSE 0])
                total == Total([p \in here |-> at(p) + from(p)])
            IN  /\ total <= report[f].scan.found
                /\ touched = {} => total = report[f].scan.found

\* No family of a host claims a total while a process on it may connect in a way
\* no walk can see, nor one that nobody looked through.
DegradedIsUnknown ==
    report # None =>
        /\ (\E p \in ToSet(Degrading) : Steady(p)) => Known = {}
        /\ skipped \cap Known = {}

\* The envelope counts the same consumers twice, by family and by custody,
\* whatever was degraded, refused or cut short on the way.
CustodyAddsUp ==
    envelope # None =>
        envelope.attributed + envelope.unattributed =
            Total([f \in Families |-> envelope.coverage[f].found])

\* The interlock is discharged by the very document the envelope was projected
\* from, when it names both artifacts, and by no other.
DischargedByItsObservation ==
    answer # None =>
        (answer.verdict = "DISCHARGED" <=>
             answer.of = envelope.observation /\ answer.of.version = 2)

-----------------------------------------------------------------------------
(* What the code says of itself, and does not do. *)

\* attribution_enumerators.py, of a launch through a variable and the other gaps:
\* "Each of those is a coverage-degrading FACT that lands as a classified error
\* on the families it degrades [...] None of them is ever a silence."
NeverASilence ==
    report # None =>
        \A f \in Known : report[f].scan.found = 0 =>
            \A p \in Territory(f) : Steady(p) /\ Fails(p) = "no" => ~host[p].text.variable
=============================================================================
