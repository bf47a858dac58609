------------------------------ MODULE Rotation ------------------------------
(***************************************************************************)
(* scripts/rotation_proof.py, step by step against the three programs of   *)
(* SyslogHost, and after it the production host that gets what the         *)
(* inventory declares.                                                     *)
(*                                                                         *)
(* ci.yml renders the reference bundle and proves that one; the host is    *)
(* given the rendering of inventory/bundle.toml, which has passed the      *)
(* validator. Both are renderings by one commit's renderer, which may have *)
(* lost a line that it has to write (`renderer`): what the proof is for.   *)
(***************************************************************************)
EXTENDS SyslogHost

CONSTANTS Bundles,       \* the syslog sections a commit may hold
          Renderers,     \* sets of lines a renderer may have lost
          Machines,      \* CI machines: [reach, confined]
          Traffic        \* what applications log on the production host

CanaryBefore == "before"
CanaryAfter == "after"

VARIABLES reference, renderer, machine,   \* the bundle proved, the commit's renderer, the CI machine
          declared,      \* the inventory's bundle, once it is deployed
          pc,            \* where prove() is, or the phase after it
          control,       \* 0 the positive control, 1..4 the negative ones
          ended,         \* how the last prove() ended: None, "proved", "failed", "unfit"
          failed,        \* main()'s flag
          exit,          \* main()'s exit code, or None
          hindered,      \* history: a deadline ran out while the writer had work to do, or a
                         \* program that prove() runs failed
          sent,          \* history: what production has logged
          gone,          \* history: mail.log was removed since the last boot
          removed        \* history: mail.log was removed at some time

given == <<reference, renderer, machine>>
script == <<pc, control, ended, failed, exit, hindered>>
production == <<declared, sent, gone, removed>>
vars == <<hostVars, given, script, production>>

\* A name or a descriptor leads to at most three inodes, so four always leave a fresh one; a
\* bundle is a parsed document, so its files are finitely many.
RotationAssumption == /\ {CanaryBefore, CanaryAfter} \cup Traffic = Messages
                      /\ {CanaryBefore, CanaryAfter} \cap Traffic = {}
                      /\ IsFiniteSet(Inodes) /\ Cardinality(Inodes) >= 4
                      /\ \A bundle \in Bundles : IsFiniteSet(bundle.files)
                      /\ None \notin Inodes /\ None \notin {0, 1}
                      /\ None \notin {"proved", "failed", "unfit", "wrong-owner", "wrong-mode", "no-tmpfiles"}
ASSUME RotationAssumption

Sabotage == [k \in 0 .. 4 |->
               CASE k = 1 -> "no-tmpfiles" [] k = 2 -> "wrong-owner" [] k = 3 -> "wrong-mode"
                 [] OTHER -> None]

Artefacts == Rendered(reference, renderer)
Contract == Artefacts.tmpfiles.line           \* what _parse_tmpfiles() returns
Reachable == machine.reach /\ ~machine.confined

Init ==
  /\ reference \in {b \in Bundles : Renderable(b)} /\ declared = None
  /\ renderer \in Renderers /\ machine \in Machines
  /\ name = [n \in Names |-> None] /\ inode = [i \in Inodes |-> Blank] /\ archived = {}
  /\ conf = Artefacts
  /\ writer = "off" /\ fd = None /\ queue = <<>> /\ hup = FALSE /\ suspended = FALSE
  /\ lr = "idle" /\ written = {} /\ lost = {}
  /\ pc = "prove" /\ control = 0 /\ ended = None /\ failed = FALSE /\ exit = None /\ hindered = FALSE
  /\ sent = {} /\ gone = FALSE /\ removed = FALSE

(***************************************************************************)
(* prove(): the ends. A ProofFailure or a return inside the `try` stops    *)
(* the writer; an EnvironmentUnfit comes before the `try` and does not.    *)
(***************************************************************************)
StopWriter ==
  /\ writer' = "off" /\ fd' = None /\ queue' = <<>> /\ hup' = FALSE
  /\ UNCHANGED suspended

End(how) ==
  /\ ended' = how /\ pc' = "ended"
  /\ StopWriter
  /\ UNCHANGED <<disk, conf, lr, history, given, production, control, failed, exit>>

EndUnfit(is) ==
  /\ ended' = "unfit" /\ pc' = "ended" /\ writer' = is
  /\ UNCHANGED <<disk, conf, fd, queue, hup, suspended, lr, history, given, production,
                 control, failed, exit>>

Step(from, to) ==
  /\ pc = from /\ pc' = to
  /\ UNCHANGED <<given, production, control, ended, failed, exit, hindered>>

\* Mutant of WaitFor: a loop without a deadline.
WaitForEver(from, Seen, to) ==
  Step(from, to) /\ Seen /\ UNCHANGED hostVars

\* _expect_contains() and the loops beside it: until it is there, or the deadline runs out.
WaitFor(from, Seen, to) ==
  \/ Step(from, to) /\ Seen /\ UNCHANGED hostVars
  \/ /\ pc = from /\ ~Seen
     /\ hindered' = (hindered \/ writer # "on" \/ queue # <<>> \/ hup)
     /\ End("failed")

Require(from, Holding, to) ==
  \/ Step(from, to) /\ Holding /\ UNCHANGED hostVars
  \/ pc = from /\ ~Holding /\ End("failed") /\ UNCHANGED hindered

(***************************************************************************)
(* prove(), in its order.                                                  *)
(***************************************************************************)
\* Mutant of PreparedAs: the controls mutate nothing.
PreparedAsDeclared(sabotage) == Contract

PreparedAs(sabotage) ==
  CASE sabotage = "wrong-owner" -> [Contract EXCEPT !.owner = "root", !.group = "root"]
    [] sabotage = "wrong-mode" -> [Contract EXCEPT !.mode = "0440"]
    [] OTHER -> Contract

FreshTree(sabotage, at) ==
  /\ name' = [target |-> IF sabotage = "no-tmpfiles" THEN None ELSE at, rotated |-> None]
  /\ inode' = [i \in Inodes |->
                 IF i = at /\ sabotage # "no-tmpfiles"
                 THEN [own |-> PreparedAs(sabotage), holds |-> {}] ELSE Blank]
  /\ archived' = {} /\ written' = {} /\ lost' = {} /\ suspended' = FALSE /\ hindered' = FALSE

\* The fourth control removes the postrotate block from the stanza.
Prepare ==
  /\ pc = "prove"
  /\ \/ /\ Contract = None
        /\ End("failed") /\ UNCHANGED hindered
     \/ /\ Contract # None
        /\ FreshTree(Sabotage[control], CHOOSE i \in Inodes : TRUE)
        /\ conf' = IF control = 4 THEN [Artefacts EXCEPT !.stanza.reopen = FALSE] ELSE Artefacts
        /\ pc' = IF Sabotage[control] = None THEN "probe" ELSE "start"
        /\ UNCHANGED <<writer, fd, queue, hup, lr, given, production, control, ended, failed, exit>>

\* _assert_writer_can_open(), attempted as the contract's owner; `runuser` may fail by itself.
Probe ==
  /\ pc = "probe"
  /\ LET Opens == /\ machine.reach \/ Contract.owner = "root"
                  /\ MayAppend(inode[name["target"]].own, Contract.owner)
     IN  \/ Opens /\ Step("probe", "start") /\ UNCHANGED hostVars
         \/ EndUnfit("off") /\ hindered' = (hindered \/ Opens)

\* _start(): the daemon may exit at once, and is refused when it runs confined.
Start ==
  /\ pc = "start"
  /\ \/ EndUnfit("off") /\ hindered' = TRUE
     \/ machine.confined /\ EndUnfit("starting") /\ UNCHANGED hindered
     \/ /\ ~machine.confined
        /\ Step("start", "socket") /\ writer' = "starting"
        /\ UNCHANGED <<disk, conf, fd, queue, hup, suspended, lr, history>>

AwaitSocket == WaitFor("socket", writer = "on", "log before")

\* A program exits non-zero, for a reason of its own.
ProgramFails(from) == pc = from /\ End("failed") /\ hindered' = TRUE

Say(from, canary, to) ==
  /\ Step(from, to) /\ Receive(canary)
  /\ UNCHANGED <<disk, conf, writer, fd, hup, suspended, lr, history>>

\* _log(): `logger` delivers the message, or refuses it.
Log(from, canary, to) == Say(from, canary, to) \/ ProgramFails(from)

LogBefore == Log("log before", CanaryBefore, "see before")
SeeBefore == WaitFor("see before", CanaryBefore \in Holds("target"), "own before")

Owned == inode[name["target"]].own = Contract
OwnBefore == Require("own before", Owned, "rotate")

Rotate ==
  /\ Step("rotate", "rotating") /\ lr' = "due"
  /\ UNCHANGED <<disk, conf, daemon, history>>

\* logrotate came back, and two seconds are left to the writer to see its SIGHUP.
Return ==
  /\ pc = "rotating" /\ lr = "idle" /\ pc' = "moved"
  /\ hindered' = (hindered \/ hup)
  /\ UNCHANGED <<hostVars, given, production, control, ended, failed, exit>>

\* Had it come back with an error, nobody would look at how far it got: the next tree is fresh.
Rotated == Return \/ (lr = "idle" /\ ProgramFails("rotating"))

Moved == Require("moved", Exists("rotated"), "see moved")
SeeMoved == WaitFor("see moved", CanaryBefore \in Holds("rotated"), "recreated")
Recreated == WaitFor("recreated", Exists("target"), "own after")
OwnAfter == Require("own after", Owned, "log after")
LogAfter == Log("log after", CanaryAfter, "see after")
SeeAfter == WaitFor("see after", CanaryAfter \in Holds("target"), "absent")

\* Mutant of ExpectAbsent: the checker looks at the wrong file.
ExpectAbsentFromTarget == Require("absent", CanaryAfter \notin Holds("target"), "quiet")

ExpectAbsent == Require("absent", CanaryAfter \notin Holds("rotated"), "quiet")

ExpectQuiet ==
  /\ pc = "quiet"
  /\ End(IF suspended THEN "failed" ELSE "proved")
  /\ UNCHANGED hindered

Prove ==
  \/ Prepare \/ Probe \/ Start \/ AwaitSocket \/ LogBefore \/ SeeBefore \/ OwnBefore \/ Rotate
  \/ Rotated \/ Moved \/ SeeMoved \/ Recreated \/ OwnAfter \/ LogAfter \/ SeeAfter
  \/ ExpectAbsent \/ ExpectQuiet

(***************************************************************************)
(* main(): the positive control, then the four negative ones. Only a       *)
(* ProofFailure counts as a refusal. A control whose search text is not in *)
(* the stanza is not run.                                                  *)
(***************************************************************************)
Vacuous(k) == k = 4 /\ ~Artefacts.stanza.reopen

\* Mutants of Leave: the verdict does not reach the exit status; the number of controls does.
LeaveClean(code) == exit' = 0 /\ pc' = "done" /\ UNCHANGED control
LeaveWithCount(code) == exit' = control /\ pc' = "done" /\ UNCHANGED control

Leave(code) == exit' = code /\ pc' = "done" /\ UNCHANGED control

GoOn(wrong) ==
  LET bad == failed \/ wrong IN
    \/ /\ control < 4 /\ ~Vacuous(control + 1)
       /\ control' = control + 1 /\ pc' = "prove" /\ failed' = bad
       /\ UNCHANGED exit
    \/ /\ control < 4 /\ Vacuous(control + 1)
       /\ failed' = TRUE /\ Leave(1)
    \/ /\ control = 4
       /\ failed' = bad /\ Leave(IF bad THEN 1 ELSE 0)

Main ==
  /\ pc = "ended"
  /\ \/ control = 0 /\ ended # "proved" /\ Leave(1) /\ UNCHANGED failed
     \/ control = 0 /\ ended = "proved" /\ GoOn(FALSE)
     \/ control > 0 /\ GoOn(ended # "failed")
  /\ ended' = None
  /\ UNCHANGED <<hostVars, given, production, hindered>>

(***************************************************************************)
(* The production host. A commit whose checks are green and whose bundle   *)
(* the validator accepts is what a promotion brings there. The host has no *)
(* mail.log, or has one that somebody else owns.                           *)
(***************************************************************************)
Deploy ==
  /\ pc = "done" /\ exit = 0 /\ pc' = "host"
  /\ \E bundle \in Bundles :
       /\ SyslogFindings(bundle) = {} /\ Renderable(bundle)
       /\ declared' = bundle
       /\ conf' = UnderGlobal(Rendered(bundle, renderer))
  /\ \E own \in {None, Root} :
       LET at == CHOOSE i \in Inodes : TRUE IN
         /\ name' = [target |-> IF own = None THEN None ELSE at, rotated |-> None]
         /\ inode' = [i \in Inodes |-> IF i = at THEN [own |-> own, holds |-> {}] ELSE Blank]
  /\ archived' = {} /\ written' = {} /\ lost' = {} /\ suspended' = FALSE
  /\ UNCHANGED <<writer, fd, queue, hup, lr, given, sent, gone, removed,
                 control, ended, failed, exit, hindered>>

\* systemd-tmpfiles creates the file, or gives the one that is there its ownership; then the
\* writer starts. What the writer or logrotate was doing is cut off, wherever it was.
Boot ==
  /\ pc = "host"
  /\ LET at == IF Exists("target") THEN name["target"] ELSE Fresh IN
       IF conf.tmpfiles.line = None
       THEN UNCHANGED <<name, inode>>
       ELSE /\ name' = [name EXCEPT !["target"] = at]
            /\ inode' = [inode EXCEPT ![at] = [own |-> conf.tmpfiles.line, holds |-> Holds("target")]]
  /\ writer' = "on" /\ fd' = None /\ queue' = <<>> /\ hup' = FALSE /\ suspended' = FALSE
  /\ lr' = "idle" /\ gone' = FALSE
  /\ UNCHANGED <<archived, conf, history, given, script, declared, sent, removed>>

Send(m) ==
  /\ pc = "host" /\ writer = "on" /\ m \notin sent
  /\ sent' = sent \cup {m} /\ Receive(m)
  /\ UNCHANGED <<disk, conf, writer, fd, hup, suspended, lr, history, given, script, declared, gone, removed>>

Timer ==
  /\ pc = "host" /\ lr = "idle" /\ lr' = "due"
  /\ UNCHANGED <<disk, conf, daemon, history, given, script, production>>

\* The writer's service is restarted; what it had in memory is not followed.
Restart ==
  /\ pc = "host" /\ writer = "on"
  /\ fd' = None /\ queue' = <<>> /\ hup' = FALSE
  /\ UNCHANGED <<disk, conf, writer, suspended, lr, history, given, script, production>>

Remove ==
  /\ pc = "host" /\ Exists("target")
  /\ name' = [name EXCEPT !["target"] = None]
  /\ gone' = TRUE /\ removed' = TRUE
  /\ UNCHANGED <<inode, archived, conf, daemon, lr, history, given, script, declared, sent>>

Production == Deploy \/ Boot \/ (\E m \in Traffic : Send(m)) \/ Timer \/ Restart \/ Remove

Programs ==
  /\ Deliver(pc = "host" \/ Reachable) \/ Reopen \/ SocketUp \/ Logrotate
  /\ UNCHANGED <<given, script, production>>

Next == Prove \/ Main \/ Programs \/ Production

Spec == Init /\ [][Next]_vars

\* The script is one process and logrotate is a command it waits for. Nothing is asked of the
\* writer: that it never answers is what the deadlines are for.
FairSpec == Spec /\ WF_vars(Prove \/ Main) /\ WF_vars(Logrotate /\ UNCHANGED <<given, script, production>>)

-----------------------------------------------------------------------------
RotationTypeOK ==
  /\ name \in [Names -> Inodes \cup {None}] /\ fd \in Inodes \cup {None}
  /\ \A i \in Inodes : inode[i].holds \subseteq Messages
  /\ archived \cup written \cup lost \cup sent \subseteq Messages
  /\ queue \in Seq(Messages) /\ Cardinality(Used \ {None}) < Cardinality(Inodes)
  /\ writer \in {"off", "starting", "on"}
  /\ lr \in {"idle", "due", "renamed", "created", "signalled"}
  /\ control \in 0 .. 4 /\ ended \in {None, "proved", "failed", "unfit"} /\ exit \in {None, 0, 1}

\* prove() returns for no broken contract, whatever is broken about it and however its steps fall
\* among the writer's: not in a negative control, and not for a renderer that lost a line. (With a
\* directory the writer's group may write to, and the group as the file's, the writer can make the
\* very file the contract declares: then main() itself reports that the first control passed.)
ProvedMeansSound ==
  ended = "proved" =>
    \/ control = 0 /\ Sound(Artefacts) /\ Reachable
    \/ control = 1 /\ Artefacts.tmpfiles.wide /\ Contract.group = Writer

\* A sound contract on a machine that can host the proof is refused only when a deadline ran out
\* on a writer that still had something to do, or when a program that prove() runs (runuser,
\* rsyslogd, logger, logrotate) failed by itself: any other red job is about the contract.
SoundIsRefusedOnlyHindered ==
  control = 0 /\ ended \in {"failed", "unfit"} /\ Sound(Artefacts) /\ Reachable => hindered

\* What the writer wrote can be read afterwards, in mail.log or in a rotation: it never goes on
\* writing into an inode that a second rotation has unlinked, though the SIGHUP of the first may
\* reach it after any number of timers (`notifempty`, `delaycompress`). Somebody who removes the
\* file is the one exception. As everything that is claimed of the production host, it is claimed
\* of a host that is given the bundle that was proved: CI proves the reference bundle.
EveryWrittenMessageIsKept ==
  pc = "host" /\ declared = reference /\ ~removed => written \subseteq Kept

\* On a host that was given what was proved, the writer discards a message only while somebody's
\* removal of the file since the last boot, or the moment between a rename and a creation, leaves
\* it without one. 10,161 suspensions in thirty days are what this is about.
DiscardsOnlyWithoutFile ==
  [][pc = "host" /\ writer = "on" /\ declared = reference /\ lost' # lost =>
       ~Exists("target") /\ (gone \/ lr = "renamed")]_vars

\* main() answers, whatever the writer does.
MainEnds == <>(exit # None)
=============================================================================
