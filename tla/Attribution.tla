----------------------------- MODULE Attribution -----------------------------
(***************************************************************************)
(* What a census of Postgres consumers may conclude: the verdict of one      *)
(* family of launches from what its walk did, the private observation, the  *)
(* public envelope projected from it, and whether the two together          *)
(* discharge the rotation interlock.                                        *)
(*                                                                         *)
(* A digest is the document it digests, or "" where there is none.          *)
(***************************************************************************)
EXTENDS Integers, Sequences, FiniteSets, Functions

CONSTANTS None  \* no document

DeclaredFamilies ==
    <<"systemd_service", "systemd_timer", "systemd_dropin", "cron", "anacron", "at",
      "docker", "compose", "ci_runner", "script", "agent">>

Families == {DeclaredFamilies[i] : i \in DOMAIN DeclaredFamilies}

\* Mutant: what was found is taken for a total, whatever went wrong on the way.
VerdictOfTheCount(scan) ==
    IF ~scan.attempted \/ ~scan.completed THEN "UNKNOWN"
    ELSE IF scan.found > 0 THEN "SCANNED"
    ELSE IF scan.errors # <<>> THEN "UNKNOWN" ELSE "ABSENT"

\* ABSENT has one way in: looked everywhere, without an error, and found nothing.
Verdict(scan) ==
    IF ~scan.attempted \/ scan.errors # <<>> \/ ~scan.completed THEN "UNKNOWN"
    ELSE IF scan.found > 0 THEN "SCANNED" ELSE "ABSENT"

Total(count) == FoldFunction(+, 0, count)

\* The private document: a scan per family, and the consumers by custody.  A v1
\* document has no field for either artifact.
Observation(report, collector, source) ==
    [version |-> 2, collector |-> collector, source |-> source,
     families |-> [f \in Families |-> report[f].scan],
     attributed |-> Total([f \in Families |-> report[f].attributed]),
     unattributed |-> Total([f \in Families |-> report[f].unattributed])]

\* Mutant: only the source's digest is asked for.
FileableUnidentified(collector, source) == source # ""

\* build_observation() refuses a digest that is not there.
Fileable(collector, source) == collector # "" /\ source # ""

\* The public document.  The artifact that provides the host is not in it.
Envelope(document, running, request) ==
    [observation |-> document,
     collector |-> IF document.version = 2 THEN document.collector ELSE running,
     request |-> request,
     coverage |-> [f \in Families |->
                     [verdict |-> Verdict(document.families[f]),
                      found |-> document.families[f].found]],
     attributed |-> document.attributed, unattributed |-> document.unattributed]

\* Every authority is named, or there is no envelope.
Requested(request) == \A field \in DOMAIN request : request[field] # ""

\* Mutant: any observation that names both artifacts will do.
InterlockOfAnyDocument(envelope, document) ==
    IF document = None THEN "UNKNOWN"
    ELSE IF document.collector # "" /\ document.source # "" THEN "DISCHARGED"
    ELSE "REFUSED"

\* UNKNOWN is not REFUSED: the document the envelope names was not looked at.
Interlock(envelope, document) ==
    IF document = None \/ document # envelope.observation THEN "UNKNOWN"
    ELSE IF document.collector # "" /\ document.source # "" THEN "DISCHARGED"
    ELSE "REFUSED"
=============================================================================
