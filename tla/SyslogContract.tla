--------------------------- MODULE SyslogContract ---------------------------
(***************************************************************************)
(* What inventory/bundle.toml declares of syslog, what the validator asks  *)
(* of it and the three files the renderer makes of it: rsyslog's routing,  *)
(* the tmpfiles lines and the logrotate stanza.                            *)
(*                                                                         *)
(* A bundle is [directory, files, compress]. The directory has an owner    *)
(* and may be writable for its group, which is the writer's (`wide`). A    *)
(* file has a path, inside the directory or not, and an ownership: owner,  *)
(* group, and a mode that is one of the values the checks tell apart.      *)
(***************************************************************************)
EXTENDS Naturals, FiniteSets

CONSTANT None

Mail == "mail.log"                  \* the file of the mail facility

Writer == "syslog"                  \* the user rsyslogd drops to, and its group

Modes == {"0640", "0440", "0644"}

OwnerMayWrite(mode) == mode # "0440"

Ownership(file) == [owner |-> file.owner, group |-> file.group, mode |-> file.mode]

\* The syslog part of _bundle_findings().
SyslogFindings(bundle) ==
  LET Paths(path) == {f \in bundle.files : f.path = path}
      Found(name, Wrong(_)) == {[rule |-> name, file |-> f] : f \in {g \in bundle.files : Wrong(g)}}
  IN  UNION {Found("SYSLOG-OUTSIDE-CONTRACT", LAMBDA f : ~f.inside),
             Found("SYSLOG-OWNER-WRITE", LAMBDA f : ~OwnerMayWrite(f.mode)),
             Found("SYSLOG-WORLD-READABLE", LAMBDA f : f.mode = "0644"),
             Found("SYSLOG-PATH-DUPLICATE", LAMBDA f : Cardinality(Paths(f.path)) > 1)}

\* _logrotate() raises ValueError: one stanza has one `create`.
Renderable(bundle) == Cardinality({Ownership(f) : f \in bundle.files}) = 1

(***************************************************************************)
(* The rendered files, as far as mail.log goes. `lost` names a line that   *)
(* the renderer of the commit under test has stopped writing; with none    *)
(* lost it is the renderer as it stands. "arguments" are what `create`     *)
(* states beside its name.                                                 *)
(***************************************************************************)
Tmpfiles(bundle, lost) ==
  [wide |-> bundle.directory.wide,
   line |-> IF "line" \in lost \/ ~\E f \in bundle.files : f.path = Mail /\ f.inside THEN None
            ELSE LET f == CHOOSE g \in bundle.files : g.path = Mail IN Ownership(f)]

\* Mutant of Stanza: an empty file is rotated too.
StanzaWithoutNotifempty(bundle, lost) ==
  [create        |-> TRUE,
   own           |-> CHOOSE o \in {Ownership(f) : f \in bundle.files} : TRUE,
   reopen        |-> "reopen" \notin lost,
   notifempty    |-> FALSE,
   compress      |-> bundle.compress,
   delaycompress |-> bundle.compress]

\* The line `create <mode> <owner> <group>`: that it is there, and the ownership it states.
Stanza(bundle, lost) ==
  [create        |-> "create" \notin lost,
   own           |-> IF {"create", "arguments"} \cap lost # {} THEN None
                     ELSE CHOOSE o \in {Ownership(f) : f \in bundle.files} : TRUE,
   reopen        |-> "reopen" \notin lost,
   notifempty    |-> TRUE,
   compress      |-> bundle.compress,
   delaycompress |-> bundle.compress /\ "delaycompress" \notin lost]

\* $FileOwner, $FileGroup and $FileCreateMode right before the action they govern: what the
\* writer asks for when it creates the file itself. It cannot give the file away.
CreatedByWriter(bundle) ==
  LET f == CHOOSE g \in bundle.files : g.path = Mail
  IN  [owner |-> Writer, group |-> Writer, mode |-> f.mode]

Rendered(bundle, lost) ==
  [tmpfiles |-> Tmpfiles(bundle, lost),
   stanza   |-> Stanza(bundle, lost),
   rsyslog  |-> CreatedByWriter(bundle)]

\* On a host the stanza follows the global logrotate.conf, which supplies a bare `create`.
UnderGlobal(artefacts) == [artefacts EXCEPT !.stanza.create = TRUE]

\* The contract the renderer's docstrings describe: something other than the writer creates the
\* file, as the writer's own and writable, the stanza itself recreates it, the writer is told to
\* reopen it, and the file it may still hold is not compressed under it.
Sound(artefacts) ==
  /\ artefacts.tmpfiles.line # None
  /\ artefacts.tmpfiles.line.owner = Writer
  /\ OwnerMayWrite(artefacts.tmpfiles.line.mode)
  /\ artefacts.stanza.create /\ artefacts.stanza.reopen
  /\ artefacts.stanza.compress => artefacts.stanza.delaycompress
=============================================================================
