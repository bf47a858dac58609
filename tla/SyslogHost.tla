----------------------------- MODULE SyslogHost -----------------------------
(***************************************************************************)
(* One log file on a host, and the three programs that share it: the       *)
(* writer (rsyslogd, privilege-dropped), logrotate and systemd-tmpfiles.   *)
(* The programs are external; they do here what the rendered files ask of  *)
(* them and what the comments of render.py and rotation_proof.py say of    *)
(* them. The same actions serve the isolated tree of the rotation proof    *)
(* and the production host.                                                *)
(*                                                                         *)
(* A name leads to an inode, an inode has an ownership and holds messages, *)
(* and the writer holds a descriptor of an inode, whatever its name.       *)
(***************************************************************************)
EXTENDS Naturals, FiniteSets, Sequences, SyslogContract

CONSTANTS Inodes,        \* enough of them: a name or a descriptor leads to at most three
          Messages

VARIABLES name,          \* [target, rotated] -> Inodes or None
          inode,         \* Inodes -> [own, holds]
          archived,      \* what older rotations hold
          conf,          \* the rendered files in force
          writer,        \* "off", "starting", "on"
          fd,            \* the inode the writer holds, or None
          queue,         \* messages it received and has not written yet
          hup,           \* a SIGHUP it has not seen yet
          suspended,     \* it reported a suspended action
          lr,            \* how far logrotate is
          written,       \* history: what the writer wrote somewhere
          lost           \* history: what it discarded

disk == <<name, inode, archived>>
daemon == <<writer, fd, queue, hup, suspended>>
history == <<written, lost>>
hostVars == <<disk, conf, daemon, lr, history>>

Names == {"target", "rotated"}
Blank == [own |-> None, holds |-> {}]
Root == [owner |-> "root", group |-> "root", mode |-> "0640"]

Used == {name[n] : n \in Names} \cup {fd}
Fresh == CHOOSE i \in Inodes : i \notin Used
Exists(n) == name[n] # None
Holds(n) == IF Exists(n) THEN inode[name[n]].holds ELSE {}

MayAppend(own, who) == who = "root" \/ (own.owner = who /\ OwnerMayWrite(own.mode))

\* What is still there to be read: in a file that has a name, or in an older rotation.
Kept == Holds("target") \cup Holds("rotated") \cup archived

(***************************************************************************)
(* The writer. It opens its file when it has something to write and holds  *)
(* the descriptor until a SIGHUP. `reach` is whether it may traverse and   *)
(* open what is there.                                                     *)
(***************************************************************************)
Receive(m) == queue' = Append(queue, m)

Openable(reach) ==
  fd = None /\ reach /\ Exists("target") /\ MayAppend(inode[name["target"]].own, Writer)

Creatable(reach) ==
  fd = None /\ reach /\ ~Exists("target") /\ conf.tmpfiles.wide

WriteTo(i, m) ==
  /\ fd' = i
  /\ inode' = [inode EXCEPT ![i].holds = @ \cup {m}]
  /\ written' = written \cup {m}
  /\ UNCHANGED <<name, suspended, lost>>

CreateAndWrite(m) ==
  /\ fd' = Fresh
  /\ name' = [name EXCEPT !["target"] = Fresh]
  /\ inode' = [inode EXCEPT ![Fresh] = [own |-> conf.rsyslog, holds |-> {m}]]
  /\ written' = written \cup {m}
  /\ UNCHANGED <<suspended, lost>>

Discard(m) ==
  /\ suspended' = TRUE
  /\ lost' = lost \cup {m}
  /\ UNCHANGED <<name, inode, fd, written>>

Deliver(reach) ==
  /\ writer = "on" /\ queue # <<>>
  /\ LET m == Head(queue)
     IN  \/ fd # None /\ WriteTo(fd, m)
         \/ Openable(reach) /\ WriteTo(name["target"], m)
         \/ Creatable(reach) /\ CreateAndWrite(m)
         \/ fd = None /\ ~Openable(reach) /\ ~Creatable(reach) /\ Discard(m)
  /\ queue' = Tail(queue)
  /\ UNCHANGED <<archived, conf, writer, hup, lr>>

Reopen ==
  /\ writer = "on" /\ hup
  /\ hup' = FALSE /\ fd' = None
  /\ UNCHANGED <<disk, conf, writer, queue, suspended, lr, history>>

SocketUp ==
  /\ writer = "starting" /\ writer' = "on"
  /\ UNCHANGED <<disk, conf, fd, queue, hup, suspended, lr, history>>

(***************************************************************************)
(* logrotate, one rename, creation or command at a time. A file that is    *)
(* missing (`missingok`) or empty (`notifempty`) ends the stanza there.    *)
(***************************************************************************)
Skip ==
  /\ lr = "due"
  /\ ~Exists("target") \/ (conf.stanza.notifempty /\ Holds("target") = {})
  /\ lr' = "idle"
  /\ UNCHANGED <<disk, conf, daemon, history>>

\* The last rotation goes to the archive, compressed or not, and mail.log becomes the last one.
Rename ==
  /\ lr = "due" /\ Exists("target")
  /\ ~conf.stanza.notifempty \/ Holds("target") # {}
  /\ archived' = archived \cup Holds("rotated")
  /\ name' = [name EXCEPT !["rotated"] = name["target"], !["target"] = None]
  /\ lr' = "renamed"
  /\ UNCHANGED <<inode, conf, daemon, history>>

\* A bare `create` takes ownership and mode of the file it replaces; without any `create`
\* nothing is made in its place.
Recreate ==
  LET own == IF conf.stanza.own = None THEN inode[name["rotated"]].own ELSE conf.stanza.own
      at == IF Exists("target") THEN name["target"] ELSE Fresh
  IN  /\ name' = [name EXCEPT !["target"] = at]
      /\ inode' = [inode EXCEPT ![at] = [own |-> own, holds |-> Holds("target")]]

Create ==
  /\ lr = "renamed"
  /\ \/ conf.stanza.create /\ Recreate
     \/ ~conf.stanza.create /\ UNCHANGED <<name, inode>>
  /\ lr' = "created"
  /\ UNCHANGED <<archived, conf, daemon, history>>

PostRotate ==
  /\ lr = "created"
  /\ hup' = (hup \/ (conf.stanza.reopen /\ writer # "off"))
  /\ lr' = IF conf.stanza.compress /\ ~conf.stanza.delaycompress THEN "signalled" ELSE "idle"
  /\ UNCHANGED <<disk, conf, writer, fd, queue, suspended, history>>

\* Without `delaycompress` the newest rotation is compressed at once: copied, and unlinked.
Compress ==
  /\ lr = "signalled"
  /\ archived' = archived \cup Holds("rotated")
  /\ name' = [name EXCEPT !["rotated"] = None]
  /\ lr' = "idle"
  /\ UNCHANGED <<inode, conf, daemon, history>>

Logrotate == Skip \/ Rename \/ Create \/ PostRotate \/ Compress
=============================================================================
