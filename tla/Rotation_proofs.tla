--------------------------- MODULE Rotation_proofs ---------------------------
(***************************************************************************)
(* The verdict of the rotation proof and what it means for the production  *)
(* host, for every set of bundles, renderers, machines, inodes and         *)
(* messages.                                                               *)
(*                                                                         *)
(* prove() is a sequence, so the argument is one too: what each of its     *)
(* steps has established is a conjunct that holds from there on, whatever  *)
(* the writer and logrotate do meanwhile. The last of them together say    *)
(* that the artefacts are sound. The host invariant starts from there.     *)
(***************************************************************************)
EXTENDS Rotation, TLAPS, FiniteSetTheorems, FunctionTheorems

Pcs == {"prove", "probe", "start", "socket", "log before", "see before", "own before", "rotate",
        "rotating", "moved", "see moved", "recreated", "own after", "log after", "see after",
        "absent", "quiet", "ended", "done", "host"}

\* Nothing has been started, or all of it is stopped.
Still == {"prove", "probe", "start", "ended", "done"}

BeforeRotation == {"probe", "start", "socket", "log before", "see before", "own before", "rotate"}
AfterRotation == {"moved", "see moved", "recreated", "own after", "log after", "see after",
                  "absent", "quiet"}
Running == BeforeRotation \cup {"rotating"} \cup AfterRotation

Target == inode[name["target"]]
Last == inode[name["rotated"]]

Typed ==
  /\ pc \in Pcs /\ control \in 0 .. 4 /\ ended \in {None, "proved", "failed", "unfit"}
  /\ exit \in {None, 0, 1}
  /\ name \in [Names -> Inodes \cup {None}] /\ fd \in Inodes \cup {None}
  /\ DOMAIN inode = Inodes
  /\ \A i \in Inodes : /\ inode[i] = [own |-> inode[i].own, holds |-> inode[i].holds]
                       /\ inode[i].holds \subseteq Messages
  /\ archived \subseteq Messages /\ written \subseteq Messages
  /\ lost \subseteq Messages /\ sent \subseteq Messages
  /\ queue \in Seq(Messages) /\ hup \in BOOLEAN /\ suspended \in BOOLEAN
  /\ hindered \in BOOLEAN
  /\ writer \in {"off", "starting", "on"}
  /\ lr \in {"idle", "due", "renamed", "created", "signalled"}
  /\ reference \in Bundles /\ Renderable(reference)
  /\ name["target"] # None => name["target"] # name["rotated"]

\* What is asked of logrotate and of the writer is asked inside one prove().
Phased ==
  /\ ended # None => pc = "ended"
  /\ pc \notin {"rotating", "host"} => lr = "idle"
  /\ pc \in Still => fd = None /\ queue = <<>> /\ hup = FALSE
  /\ pc \in Still /\ Reachable => writer = "off"
  /\ pc \in Running =>
       /\ Contract # None
       /\ conf = IF control = 4 THEN [Artefacts EXCEPT !.stanza.reopen = FALSE] ELSE Artefacts

\* Up to the rotation the writer's descriptor, if it has one, is of mail.log.
Opened ==
  pc \in BeforeRotation =>
    /\ name["rotated"] = None /\ hup = FALSE
    /\ fd # None => fd = name["target"]
    /\ \A i \in Inodes : inode[i].holds # {} => i = fd
    /\ control # 1 => name["target"] # None /\ Target.own = PreparedAs(Sabotage[control])
    /\ control = 1 /\ name["target"] # None => conf.tmpfiles.wide /\ Target.own = conf.rsyslog
    /\ control # 1 /\ fd # None =>
         Reachable /\ MayAppend(PreparedAs(Sabotage[control]), Writer)

\* From "own before" the writer has written; from "rotate" its file is the contract's.
Answered ==
  /\ pc \in {"own before", "rotate", "rotating"} \cup AfterRotation /\ control # 1 =>
       Reachable /\ MayAppend(PreparedAs(Sabotage[control]), Writer)
  /\ pc \in {"own before", "rotate"} => fd # None
  /\ pc \in {"rotate", "rotating"} \cup AfterRotation /\ control = 1 =>
       Artefacts.tmpfiles.wide /\ Contract.group = Writer

\* A writer that is not told to reopen holds on to what it opened, and mail.log is another file.
Unreopened ==
  pc \in {"rotating"} \cup AfterRotation /\ ~conf.stanza.reopen =>
    /\ hup = FALSE /\ fd # None
    /\ \A i \in Inodes : inode[i].holds # {} => i = fd
    /\ name["rotated"] # None \/ lr \in {"renamed", "created", "signalled"} =>
         name["target"] # fd

\* A rotation that is compressed at once leaves no last rotation.
Compressed ==
  conf.stanza.compress /\ ~conf.stanza.delaycompress =>
    (pc \in {"rotating", "moved"} /\ lr \in {"idle", "due"} => name["rotated"] = None)

Turned ==
  /\ pc \in AfterRotation \ {"moved"} =>
       /\ name["rotated"] # None
       /\ conf.stanza.compress => conf.stanza.delaycompress
  /\ pc \in {"absent", "quiet"} => conf.stanza.reopen

\* After the first message nothing is left to write until the second, so a file that logrotate
\* does not make anew is not there when it is looked for.
Remade ==
  /\ pc \in {"probe", "start", "socket", "log before"} =>
       queue = <<>> /\ \A i \in Inodes : inode[i].holds = {}
  /\ pc = "see before" => \/ queue = <<CanaryBefore>> /\ \A i \in Inodes : inode[i].holds = {}
                          \/ queue = <<>>
  /\ pc \in {"own before", "rotate", "rotating", "moved", "see moved", "recreated"} => queue = <<>>
  /\ pc \in {"rotating", "moved", "see moved", "recreated"} /\ ~conf.stanza.create =>
       name["rotated"] = None \/ name["target"] = None
  /\ pc \in {"own after", "log after", "see after", "absent", "quiet"} => conf.stanza.create

\* What the verdicts so far mean.
Verdict ==
  /\ ProvedMeansSound
  /\ control > 0 \/ exit = 0 \/ pc = "host" => Sound(Artefacts) /\ Reachable

Proving == /\ Typed /\ Phased /\ Opened /\ Answered /\ Unreopened /\ Compressed
           /\ Remade /\ Turned /\ Verdict

-----------------------------------------------------------------------------
\* The positive control of a sound contract, on a machine that can host it, before any
\* deadline ran out on a writer that had something to do and any program failed.
Fit == control = 0 /\ Sound(Artefacts) /\ Reachable /\ ~hindered

\* The writer answers everything it is asked, and what it wrote it wrote before the rotation.
Answering ==
  Fit /\ pc \in Running =>
    /\ suspended = FALSE
    /\ pc = "socket" => writer \in {"starting", "on"}
    /\ pc \notin {"probe", "start", "socket"} => writer = "on"
    /\ pc \in {"socket", "log before"} => fd = None /\ queue = <<>>
    /\ pc \in {"probe", "start", "socket", "log before"} => \A i \in Inodes : inode[i].holds = {}
    /\ pc = "see before" => \/ queue = <<CanaryBefore>> /\ \A i \in Inodes : inode[i].holds = {}
                            \/ queue = <<>> /\ CanaryBefore \in Target.holds
    /\ pc \in {"own before", "rotate"} => queue = <<>> /\ CanaryBefore \in Target.holds
    /\ pc \notin {"see after", "absent", "quiet"} =>
         \A i \in Inodes : CanaryAfter \notin inode[i].holds

\* logrotate moves the file, makes it anew as the contract's and tells the writer, in this order.
Rotating ==
  Fit /\ pc = "rotating" =>
    /\ queue = <<>> /\ lr # "signalled"
    /\ hup => lr = "idle"
    /\ lr = "due" => /\ name["target"] # None /\ CanaryBefore \in Target.holds
                     /\ Target.own = Contract
    /\ lr # "due" => /\ name["rotated"] # None /\ CanaryBefore \in Last.holds
                     /\ Last.own = Contract
    /\ lr \in {"created", "idle"} => name["target"] # None /\ Target.own = Contract
    /\ lr = "idle" => hup \/ fd = None

\* The second message goes to the new file.
Settled ==
  Fit /\ pc \in AfterRotation =>
    /\ hup = FALSE /\ name["target"] # None /\ name["rotated"] # None
    /\ Target.own = Contract
    /\ CanaryBefore \in Last.holds /\ CanaryAfter \notin Last.holds
    /\ pc # "see after" => queue = <<>>
    /\ pc \notin {"see after", "absent", "quiet"} => fd = None
    /\ fd # None => fd = name["target"]
    /\ pc = "see after" => \/ /\ queue = <<CanaryAfter>>
                              /\ \A i \in Inodes : CanaryAfter \notin inode[i].holds
                           \/ queue = <<>> /\ CanaryAfter \in Target.holds

Smooth == Answering /\ Rotating /\ Settled

RefusalInv == Smooth /\ SoundIsRefusedOnlyHindered

-----------------------------------------------------------------------------
(* The production host. *)

Host ==
  pc = "host" =>
    /\ conf = UnderGlobal(Rendered(declared, renderer))
    /\ writer \in {"off", "on"}
    /\ writer = "off" => fd = None /\ queue = <<>>

Proved == pc = "host" /\ declared = reference

\* Whatever file is there, once the writer runs, is one it may append to.
Appendable ==
  /\ Proved => lr # "signalled"
  /\ Proved /\ writer = "on" =>
       /\ name["target"] # None => MayAppend(Target.own, Writer)
       /\ name["target"] = None => gone \/ lr = "renamed"
  /\ Proved /\ lr = "renamed" =>
       name["rotated"] # None /\ (writer = "on" => MayAppend(Last.own, Writer))

\* While the writer still writes into the last rotation, mail.log stays empty: `notifempty`
\* keeps logrotate from rotating a second time.
Followed ==
  /\ EveryWrittenMessageIsKept
  /\ Proved /\ ~removed /\ fd # None =>
       /\ fd \in {name["target"], name["rotated"]}
       /\ fd = name["rotated"] /\ name["target"] # None => Target.holds = {}

HostInv == Host /\ Appendable /\ Followed

-----------------------------------------------------------------------------
(* Inodes. *)

LEMMA ThreeAtMost ==
  ASSUME NEW a, NEW b, NEW c, NEW S, S \subseteq {a, b, c}
  PROVE  IsFiniteSet(S) /\ Cardinality(S) \in Nat /\ Cardinality(S) <= 3
  <1>1. IsFiniteSet({a}) /\ Cardinality({a}) = 1
    BY FS_Singleton
  <1>2. /\ IsFiniteSet({a} \cup {b})
        /\ Cardinality({a} \cup {b}) = 1 \/ Cardinality({a} \cup {b}) = 2
    BY <1>1, FS_AddElement
  <1>3. /\ IsFiniteSet(({a} \cup {b}) \cup {c})
        /\ Cardinality(({a} \cup {b}) \cup {c}) \in {1, 2, 3}
    BY <1>2, FS_AddElement
  <1>4. ({a} \cup {b}) \cup {c} = {a, b, c}
    OBVIOUS
  <1>5. /\ IsFiniteSet(S) /\ Cardinality(S) <= Cardinality({a, b, c})
    BY <1>3, <1>4, FS_Subset
  <1>6. Cardinality(S) \in Nat
    BY <1>5, FS_CardinalityType
  <1> QED  BY <1>3, <1>4, <1>5, <1>6

LEMMA UsedThree == Used = {name["target"], name["rotated"], fd}
  BY DEF Used, Names

\* There is always an inode that nothing leads to.
LEMMA FreshIsFresh ==
  /\ Fresh \in Inodes /\ Fresh # name["target"] /\ Fresh # name["rotated"] /\ Fresh # fd
  /\ Cardinality(Used \ {None}) < Cardinality(Inodes)
  <1>1. Cardinality(Used \ {None}) \in Nat /\ Cardinality(Used \ {None}) <= 3
    BY UsedThree, ThreeAtMost
  <1>2. Cardinality(Inodes) \in Nat /\ Cardinality(Inodes) >= 4
    BY RotationAssumption, FS_CardinalityType DEF RotationAssumption
  <1>3. \E i \in Inodes : i \notin Used
    <2>1. SUFFICES ASSUME Inodes \subseteq Used
                   PROVE  FALSE
      OBVIOUS
    <2>2. Cardinality(Inodes) <= 3
      BY <2>1, UsedThree, ThreeAtMost
    <2> QED  BY <1>2, <2>2
  <1>4. Fresh \in Inodes /\ Fresh \notin Used
    BY <1>3 DEF Fresh
  <1> QED  BY <1>1, <1>2, <1>4, UsedThree

LEMMA SomeInode == (CHOOSE i \in Inodes : TRUE) \in Inodes
  <1>1. Inodes # {}
    BY RotationAssumption, FS_EmptySet DEF RotationAssumption
  <1> QED  BY <1>1

LEMMA TypedIsTypeOK == Typed => RotationTypeOK
  BY FreshIsFresh DEF Typed, RotationTypeOK

-----------------------------------------------------------------------------
(* What one commit decides. *)

LEMMA GivenStays ==
  ASSUME Next
  PROVE  /\ reference' = reference /\ renderer' = renderer /\ machine' = machine
         /\ Artefacts' = Artefacts /\ Contract' = Contract /\ Reachable' = Reachable
         /\ Sound(Artefacts)' = Sound(Artefacts)
  <1>1. UNCHANGED given
    BY DEF Next, Prove, Main, Programs, Production, Prepare, Probe, Start, AwaitSocket, LogBefore,
           SeeBefore, OwnBefore, Rotate, Rotated, Return, Moved, SeeMoved, Recreated, OwnAfter,
           LogAfter, SeeAfter, ExpectAbsent, ExpectQuiet, WaitFor, Require, Step, End, EndUnfit, Log,
           Say, ProgramFails,
           Deploy, Boot, Send, Timer, Restart, Remove, GoOn, given
  <1>2. reference' = reference /\ renderer' = renderer /\ machine' = machine
    BY <1>1 DEF given
  <1>3. Artefacts' = Artefacts
    BY <1>2 DEF Artefacts, Rendered, Tmpfiles, Stanza, CreatedByWriter
  <1> QED  BY <1>2, <1>3 DEF Contract, Reachable, Sound

\* A bundle that can be rendered has one ownership, and `create` names it.
LEMMA OneOwnership ==
  ASSUME NEW bundle \in Bundles, Renderable(bundle), NEW f \in bundle.files
  PROVE  (CHOOSE o \in {Ownership(g) : g \in bundle.files} : TRUE) = Ownership(f)
  <1> DEFINE S == {Ownership(g) : g \in bundle.files}
  <1>1. IsFiniteSet(bundle.files)
    BY RotationAssumption DEF RotationAssumption
  <1>2. IsFiniteSet(S)
    <2> DEFINE h == [g \in bundle.files |-> Ownership(g)]
    <2>1. h \in [bundle.files -> S] /\ \A o \in S : \E g \in bundle.files : h[g] = o
      OBVIOUS
    <2>2. h \in Surjection(bundle.files, S)
      BY <2>1 DEF Surjection
    <2> QED  BY <1>1, <2>2, FS_Surjection
  <1>3. \E x : S = {x}
    BY <1>2, FS_Singleton DEF Renderable
  <1>4. Ownership(f) \in S
    OBVIOUS
  <1>5. (CHOOSE o \in S : TRUE) \in S
    BY <1>4
  <1> QED  BY <1>3, <1>4, <1>5

\* The three rendered files speak of one and the same ownership.
LEMMA ContractIs ==
  ASSUME reference \in Bundles, Renderable(reference), Contract # None
  PROVE  /\ Contract = [owner |-> Contract.owner, group |-> Contract.group, mode |-> Contract.mode]
         /\ Artefacts.rsyslog = [owner |-> Writer, group |-> Writer, mode |-> Contract.mode]
         /\ Artefacts.stanza.own \in {None, Contract} /\ Artefacts.stanza.create \in BOOLEAN
         /\ Artefacts.stanza.notifempty
  <1> DEFINE m == CHOOSE g \in reference.files : g.path = Mail
  <1>1. Contract = IF "line" \in renderer \/ ~\E f \in reference.files : f.path = Mail /\ f.inside
                   THEN None ELSE Ownership(m)
    BY DEF Contract, Artefacts, Rendered, Tmpfiles
  <1>2. /\ \E f \in reference.files : f.path = Mail /\ f.inside
        /\ Contract = Ownership(m)
    BY <1>1
  <1>3. m \in reference.files
    BY <1>2
  <1>4. Artefacts.rsyslog = [owner |-> Writer, group |-> Writer, mode |-> m.mode]
    BY DEF Artefacts, Rendered, CreatedByWriter
  <1>5. (CHOOSE o \in {Ownership(g) : g \in reference.files} : TRUE) = Ownership(m)
    BY <1>3, OneOwnership
  <1>6. Artefacts.stanza = Stanza(reference, renderer)
    BY DEF Artefacts, Rendered
  <1>7. /\ Artefacts.stanza.own \in {None, Ownership(m)} /\ Artefacts.stanza.create \in BOOLEAN
        /\ Artefacts.stanza.notifempty
    BY <1>5, <1>6 DEF Stanza
  <1> HIDE DEF m
  <1> QED  BY <1>2, <1>4, <1>7 DEF Ownership

\* The controls' file, and what the writer may do with it.
LEMMA PreparedIs ==
  ASSUME Contract = [owner |-> Contract.owner, group |-> Contract.group, mode |-> Contract.mode]
  PROVE  /\ control \in {0, 4} => PreparedAs(Sabotage[control]) = Contract
         /\ control \in {2, 3} => ~MayAppend(PreparedAs(Sabotage[control]), Writer)
  <1>1. /\ Sabotage[0] = None /\ Sabotage[4] = None
        /\ Sabotage[2] = "wrong-owner" /\ Sabotage[3] = "wrong-mode"
    BY DEF Sabotage
  <1>2. None # "wrong-owner" /\ None # "wrong-mode"
    BY RotationAssumption DEF RotationAssumption
  <1>3. control \in {0, 4} => PreparedAs(Sabotage[control]) = Contract
    BY <1>1, <1>2 DEF PreparedAs
  <1>4. control = 2 => ~MayAppend(PreparedAs(Sabotage[control]), Writer)
    <2>1. PreparedAs("wrong-owner").owner = "root"
      BY DEF PreparedAs
    <2> QED  BY <2>1, <1>1 DEF MayAppend, Writer
  <1>5. control = 3 => ~MayAppend(PreparedAs(Sabotage[control]), Writer)
    <2>1. PreparedAs("wrong-mode").mode = "0440"
      BY DEF PreparedAs
    <2> QED  BY <2>1, <1>1 DEF MayAppend, Writer, OwnerMayWrite
  <1> QED  BY <1>3, <1>4, <1>5

\* The stanza a negative control runs with differs from the renderer's in one line.
LEMMA StanzaIs ==
  ASSUME pc \in Running, Phased, control \in 0 .. 4
  PROVE  /\ conf.tmpfiles = Artefacts.tmpfiles /\ conf.rsyslog = Artefacts.rsyslog
         /\ conf.stanza.create = Artefacts.stanza.create /\ conf.stanza.own = Artefacts.stanza.own
         /\ conf.stanza.notifempty = Artefacts.stanza.notifempty
         /\ conf.stanza.compress = Artefacts.stanza.compress
         /\ conf.stanza.delaycompress = Artefacts.stanza.delaycompress
         /\ control # 4 => conf = Artefacts
         /\ control = 4 => ~conf.stanza.reopen
  <1>1. conf = IF control = 4 THEN [Artefacts EXCEPT !.stanza.reopen = FALSE] ELSE Artefacts
    BY DEF Phased
  <1>2. control # 4 => conf = Artefacts
    BY <1>1
  <1>3. CASE control = 4
    <2>1. Artefacts = [tmpfiles |-> Artefacts.tmpfiles, stanza |-> Artefacts.stanza,
                       rsyslog |-> Artefacts.rsyslog]
      BY DEF Artefacts, Rendered
    <2>2. Artefacts.stanza = [create |-> Artefacts.stanza.create, own |-> Artefacts.stanza.own,
                              reopen |-> Artefacts.stanza.reopen,
                              notifempty |-> Artefacts.stanza.notifempty,
                              compress |-> Artefacts.stanza.compress,
                              delaycompress |-> Artefacts.stanza.delaycompress]
      BY DEF Artefacts, Rendered, Stanza
    <2>3. conf = [Artefacts EXCEPT !.stanza.reopen = FALSE]
      BY <1>1, <1>3
    <2>4. /\ conf.tmpfiles = Artefacts.tmpfiles /\ conf.rsyslog = Artefacts.rsyslog
          /\ conf.stanza = [Artefacts.stanza EXCEPT !.reopen = FALSE]
      BY <2>1, <2>3
    <2>5. /\ conf.stanza.create = Artefacts.stanza.create /\ conf.stanza.own = Artefacts.stanza.own
          /\ conf.stanza.notifempty = Artefacts.stanza.notifempty
          /\ conf.stanza.compress = Artefacts.stanza.compress
          /\ conf.stanza.delaycompress = Artefacts.stanza.delaycompress
          /\ ~conf.stanza.reopen
      BY <2>2, <2>4
    <2> QED  BY <2>4, <2>5, <1>3
  <1> QED  BY <1>2, <1>3

-----------------------------------------------------------------------------
(* Every step keeps the types. *)

\* A delivery is one of four things.
LEMMA Delivers ==
  ASSUME NEW reach, Deliver(reach)
  PROVE  /\ writer = "on" /\ queue # <<>> /\ queue' = Tail(queue)
         /\ UNCHANGED <<archived, conf, writer, hup, lr>>
         /\ \/ fd # None /\ WriteTo(fd, Head(queue))
            \/ fd = None /\ Openable(reach) /\ WriteTo(name["target"], Head(queue))
            \/ fd = None /\ Creatable(reach) /\ CreateAndWrite(Head(queue))
            \/ fd = None /\ ~Openable(reach) /\ ~Creatable(reach) /\ Discard(Head(queue))
  BY DEF Deliver, Openable, Creatable

\* Where a message goes.
LEMMA Writes ==
  ASSUME Typed, NEW i \in Inodes, NEW m, WriteTo(i, m)
  PROVE  /\ DOMAIN inode' = Inodes
         /\ inode'[i] = [own |-> inode[i].own, holds |-> inode[i].holds \cup {m}]
         /\ \A j \in Inodes : j # i => inode'[j] = inode[j]
         /\ fd' = i /\ written' = written \cup {m}
         /\ UNCHANGED <<name, suspended, lost>>
  <1>1. inode' = [inode EXCEPT ![i].holds = @ \cup {m}] /\ DOMAIN inode = Inodes
    BY DEF WriteTo, Typed
  <1>2. inode[i] = [own |-> inode[i].own, holds |-> inode[i].holds]
    BY DEF Typed
  <1>3. inode'[i] = [inode[i] EXCEPT !.holds = @ \cup {m}]
    BY <1>1
  <1>4. inode'[i] = [own |-> inode[i].own, holds |-> inode[i].holds \cup {m}]
    <2> DEFINE o == inode[i].own
               h == inode[i].holds
    <2>1. inode[i] = [own |-> o, holds |-> h]
      BY <1>2
    <2> HIDE DEF o, h
    <2>2. [[own |-> o, holds |-> h] EXCEPT !.holds = @ \cup {m}] = [own |-> o, holds |-> h \cup {m}]
      OBVIOUS
    <2> QED  BY <1>3, <2>1, <2>2 DEF o, h
  <1> QED  BY <1>1, <1>4 DEF WriteTo

LEMMA TypedWrites ==
  ASSUME Typed, NEW i \in Inodes, NEW m \in Messages, WriteTo(i, m)
  PROVE  \A j \in Inodes : /\ inode'[j] = [own |-> inode'[j].own, holds |-> inode'[j].holds]
                           /\ inode'[j].holds \subseteq Messages
  <1> TAKE j \in Inodes
  <1>1. CASE j = i
    <2>1. inode'[i] = [own |-> inode[i].own, holds |-> inode[i].holds \cup {m}]
      BY Writes
    <2>2. inode[i].holds \subseteq Messages
      BY DEF Typed
    <2> QED  BY <1>1, <2>1, <2>2
  <1>2. CASE j # i
    BY ZenonT(40), <1>2, Writes DEF Typed
  <1> QED  BY <1>1, <1>2

LEMMA TypedQueue ==
  ASSUME Typed, queue # <<>>
  PROVE  Head(queue) \in Messages /\ Tail(queue) \in Seq(Messages)
  BY DEF Typed

LEMMA TypedDeliver ==
  ASSUME Typed, NEW reach, Deliver(reach), UNCHANGED <<given, script, production>>
  PROVE  Typed'
  <1>1. PICK m \in Messages : m = Head(queue)
    BY TypedQueue, Delivers
  <1>2. /\ queue' \in Seq(Messages)
        /\ UNCHANGED <<archived, writer, hup, lr, given, script, production>>
    BY TypedQueue, Delivers
  <1> USE DEF given, script, production
  <1>3. CASE fd # None /\ WriteTo(fd, m)
    <2>1. fd \in Inodes
      BY <1>3 DEF Typed
    <2>2. \A j \in Inodes : /\ inode'[j] = [own |-> inode'[j].own, holds |-> inode'[j].holds]
                            /\ inode'[j].holds \subseteq Messages
      BY <1>3, <2>1, TypedWrites
    <2>3. /\ DOMAIN inode' = Inodes /\ fd' \in Inodes
          /\ written' = written \cup {m} /\ UNCHANGED <<name, suspended, lost>>
      BY <1>3, <2>1, Writes
    <2> QED  BY <1>2, <2>2, <2>3 DEF Typed
  <1>4. CASE fd = None /\ Openable(reach) /\ WriteTo(name["target"], m)
    <2>1. name["target"] \in Inodes
      BY <1>4 DEF Openable, Exists, Typed, Names
    <2>2. \A j \in Inodes : /\ inode'[j] = [own |-> inode'[j].own, holds |-> inode'[j].holds]
                            /\ inode'[j].holds \subseteq Messages
      BY <1>4, <2>1, TypedWrites
    <2>3. /\ DOMAIN inode' = Inodes /\ fd' \in Inodes
          /\ written' = written \cup {m} /\ UNCHANGED <<name, suspended, lost>>
      BY <1>4, <2>1, Writes
    <2> QED  BY <1>2, <2>2, <2>3 DEF Typed
  <1>5. CASE fd = None /\ Creatable(reach) /\ CreateAndWrite(m)
    BY ZenonT(40), <1>1, <1>2, <1>5, FreshIsFresh DEF Typed, CreateAndWrite, Names
  <1>6. CASE fd = None /\ Discard(m)
    BY <1>1, <1>2, <1>6 DEF Typed, Discard
  <1> QED  BY <1>1, <1>3, <1>4, <1>5, <1>6, Delivers

LEMMA TypedLogrotate ==
  ASSUME Typed, Logrotate, UNCHANGED <<given, script, production>>
  PROVE  Typed'
  <1> USE DEF given, script, production, disk, daemon, history
  <1>1. CASE Skip
    BY <1>1 DEF Skip, Typed
  <1>2. CASE Rename
    BY <1>2 DEF Rename, Typed, Names, Exists, Holds
  <1>3. CASE Create
    <2> DEFINE at == IF Exists("target") THEN name["target"] ELSE Fresh
               own == IF conf.stanza.own = None THEN inode[name["rotated"]].own
                      ELSE conf.stanza.own
    <2>1. \/ /\ name' = [name EXCEPT !["target"] = at]
             /\ inode' = [inode EXCEPT ![at] = [own |-> own, holds |-> Holds("target")]]
          \/ UNCHANGED <<name, inode>>
      BY <1>3 DEF Create, Recreate
    <2>2. at \in Inodes /\ at # name["rotated"] /\ Holds("target") \subseteq Messages
      BY FreshIsFresh DEF Typed, Exists, Holds, Names
    <2> HIDE DEF at, own
    <2>3. /\ UNCHANGED <<archived, writer, fd, queue, hup, suspended, written, lost>>
          /\ lr' = "created"
      BY <1>3 DEF Create
    <2>4. CASE UNCHANGED <<name, inode>>
      BY <2>3, <2>4 DEF Typed
    <2>5. CASE /\ name' = [name EXCEPT !["target"] = at]
               /\ inode' = [inode EXCEPT ![at] = [own |-> own, holds |-> Holds("target")]]
      BY <2>2, <2>3, <2>5 DEF Typed, Names
    <2> QED  BY <2>1, <2>4, <2>5
  <1>4. CASE PostRotate
    BY <1>4 DEF PostRotate, Typed
  <1>5. CASE Compress
    BY <1>5 DEF Compress, Typed, Names, Exists, Holds
  <1> QED  BY <1>1, <1>2, <1>3, <1>4, <1>5 DEF Logrotate

LEMMA EmptyQueue == <<>> \in Seq(Messages)
  OBVIOUS

\* What a step of prove() that touches no file leaves alone.
LEMMA TypedEnds ==
  ASSUME Typed, NEW how \in {"proved", "failed", "unfit"}, End(how), hindered' \in BOOLEAN
  PROVE  Typed'
  BY EmptyQueue DEF Typed, End, StopWriter, disk, history, given, production, Pcs

LEMMA TypedUnfit ==
  ASSUME Typed, NEW is \in {"off", "starting"}, EndUnfit(is), hindered' \in BOOLEAN
  PROVE  Typed'
  BY DEF Typed, EndUnfit, disk, history, given, production, Pcs

LEMMA TypedWaits ==
  ASSUME Typed, NEW from, NEW to \in Pcs, NEW Seen,
         WaitFor(from, Seen, to) \/ Require(from, Seen, to)
  PROVE  Typed'
  <1>1. CASE Step(from, to) /\ UNCHANGED hostVars
    BY <1>1 DEF Typed, Step, given, production, hostVars, disk, daemon, history
  <1>2. CASE hindered' \in BOOLEAN /\ End("failed")
    BY <1>2, TypedEnds
  <1>3. hindered \in BOOLEAN
    BY DEF Typed
  <1>4. hindered' = (hindered \/ writer # "on" \/ queue # <<>> \/ hup) => hindered' \in BOOLEAN
    OBVIOUS
  <1> QED  BY <1>1, <1>2, <1>3, <1>4 DEF WaitFor, Require

LEMMA TypedProve ==
  ASSUME Typed, Prove
  PROVE  Typed'
  <1> USE DEF given, script, production, hostVars, disk, daemon, history
  <1>1. CASE Prepare
    <2>1. CASE Contract = None /\ End("failed") /\ UNCHANGED hindered
      BY <2>1, TypedEnds DEF Typed
    <2>2. CASE FreshTree(Sabotage[control], CHOOSE i \in Inodes : TRUE) /\ pc' \in {"probe", "start"}
               /\ UNCHANGED <<writer, fd, queue, hup, lr, given, production, control, ended, failed, exit>>
      <3> DEFINE at == CHOOSE i \in Inodes : TRUE
      <3>1. at \in Inodes
        BY SomeInode
      <3> HIDE DEF at
      <3>2. /\ name' = [target |-> IF Sabotage[control] = "no-tmpfiles" THEN None ELSE at, rotated |-> None]
            /\ inode' = [i \in Inodes |->
                           IF i = at /\ Sabotage[control] # "no-tmpfiles"
                           THEN [own |-> PreparedAs(Sabotage[control]), holds |-> {}] ELSE Blank]
            /\ archived' = {} /\ written' = {} /\ lost' = {} /\ suspended' = FALSE /\ hindered' = FALSE
        BY <2>2 DEF FreshTree, at
      <3>3. /\ name' \in [Names -> Inodes \cup {None}]
            /\ name'["target"] # None => name'["target"] # name'["rotated"]
        BY <3>1, <3>2 DEF Names
      <3>4. /\ DOMAIN inode' = Inodes
            /\ \A i \in Inodes : /\ inode'[i] = [own |-> inode'[i].own, holds |-> inode'[i].holds]
                                 /\ inode'[i].holds \subseteq Messages
        BY <3>2 DEF Blank
      <3>5. /\ archived' = {} /\ written' = {} /\ lost' = {} /\ suspended' = FALSE /\ hindered' = FALSE
            /\ pc' \in {"probe", "start"}
            /\ UNCHANGED <<writer, fd, queue, hup, lr, given, production, control, ended, failed, exit>>
        BY <2>2, <3>2
      <3> QED  BY ONLY ZenonT(40), Typed, <3>3, <3>4, <3>5 DEF Typed, Pcs, given, production
    <2> QED  BY <1>1, <2>1, <2>2 DEF Prepare
  <1>2. CASE Probe
    <2>1. CASE Step("probe", "start") /\ UNCHANGED hostVars
      BY <2>1 DEF Typed, Step, Pcs
    <2>2. CASE EndUnfit("off") /\ hindered' \in BOOLEAN
      BY <2>2, TypedUnfit
    <2>3. \A opens : (hindered \/ opens) \in BOOLEAN
      OBVIOUS
    <2> QED  BY <1>2, <2>1, <2>2, <2>3 DEF Probe
  <1>3. CASE Start
    <2>1. CASE EndUnfit("off") /\ hindered' = TRUE
      BY <2>1, TypedUnfit
    <2>2. CASE EndUnfit("starting") /\ UNCHANGED hindered
      BY <2>2, TypedUnfit DEF Typed
    <2>3. CASE Step("start", "socket") /\ writer' = "starting"
               /\ UNCHANGED <<disk, conf, fd, queue, hup, suspended, lr, history>>
      BY <2>3 DEF Typed, Step, Pcs
    <2> QED  BY <1>3, <2>1, <2>2, <2>3 DEF Start
  <1>0. \A from : ProgramFails(from) => Typed'
    BY TypedEnds DEF ProgramFails
  <1>4. \A from : \A to \in Pcs : \A m \in Messages : Log(from, m, to) => Typed'
    <2>1. \A from : \A to \in Pcs : \A m \in Messages : Say(from, m, to) => Typed'
      BY DEF Typed, Say, Step, Receive
    <2> QED  BY <1>0, <2>1 DEF Log
  <1>5. CASE LogBefore \/ LogAfter
    <2>1. {CanaryBefore, CanaryAfter} \subseteq Messages
      BY RotationAssumption DEF RotationAssumption
    <2> QED  BY <1>4, <1>5, <2>1 DEF LogBefore, LogAfter, Pcs
  <1>6. CASE Rotate
    BY <1>6 DEF Rotate, Step, Typed, Pcs
  <1>7. CASE Rotated
    <2>1. CASE Return
      BY <2>1 DEF Return, Typed, Pcs
    <2> QED  BY <1>0, <1>7, <2>1 DEF Rotated
  <1>8. CASE ExpectQuiet
    BY <1>8, TypedEnds DEF ExpectQuiet, Typed
  <1>9. CASE AwaitSocket
    BY <1>9, TypedWaits DEF AwaitSocket, Pcs
  <1>10. CASE SeeBefore
    BY <1>10, TypedWaits DEF SeeBefore, Pcs
  <1>11. CASE OwnBefore
    BY <1>11, TypedWaits DEF OwnBefore, Owned, Pcs
  <1>12. CASE Moved
    BY <1>12, TypedWaits DEF Moved, Exists, Pcs
  <1>13. CASE SeeMoved
    BY <1>13, TypedWaits DEF SeeMoved, Pcs
  <1>14. CASE Recreated
    BY <1>14, TypedWaits DEF Recreated, Exists, Pcs
  <1>15. CASE OwnAfter
    BY <1>15, TypedWaits DEF OwnAfter, Owned, Pcs
  <1>16. CASE SeeAfter
    BY <1>16, TypedWaits DEF SeeAfter, Pcs
  <1>17. CASE ExpectAbsent
    BY <1>17, TypedWaits DEF ExpectAbsent, Pcs
  <1> QED  BY <1>1, <1>2, <1>3, <1>5, <1>6, <1>7, <1>8, <1>9, <1>10, <1>11, <1>12, <1>13, <1>14,
              <1>15, <1>16, <1>17 DEF Prove

LEMMA TypedMain ==
  ASSUME Typed, Main
  PROVE  Typed'
  <1>1. UNCHANGED <<hostVars, given, production, hindered>> /\ ended' = None
    BY DEF Main
  <1>2. pc' \in Pcs /\ control' \in 0 .. 4 /\ exit' \in {None, 0, 1}
    <2>1. ASSUME NEW wrong, GoOn(wrong)
          PROVE  pc' \in Pcs /\ control' \in 0 .. 4 /\ exit' \in {None, 0, 1}
      <3>1. CASE control < 4 /\ control' = control + 1 /\ pc' = "prove" /\ UNCHANGED exit
        <4>1. control \in 0 .. 4 /\ exit \in {None, 0, 1}
          BY DEF Typed
        <4>2. control + 1 \in 0 .. 4
          BY <3>1, <4>1
        <4> QED  BY <3>1, <4>1, <4>2 DEF Pcs
      <3>2. CASE \E code \in {0, 1} : Leave(code)
        BY <3>2 DEF Typed, Pcs, Leave
      <3>3. (IF failed \/ wrong THEN 1 ELSE 0) \in {0, 1}
        OBVIOUS
      <3> QED  BY <2>1, <3>1, <3>2, <3>3 DEF GoOn
    <2>2. Leave(1) => pc' \in Pcs /\ control' \in 0 .. 4 /\ exit' \in {None, 0, 1}
      BY DEF Leave, Typed, Pcs
    <2> QED  BY <2>1, <2>2 DEF Main
  <1> QED  BY <1>1, <1>2 DEF Typed, given, production, hostVars, disk, daemon, history

LEMMA TypedProduction ==
  ASSUME Typed, Production
  PROVE  Typed'
  <1> USE DEF given, script, production, hostVars, disk, daemon, history
  <1>1. CASE Deploy
    <2> DEFINE at == CHOOSE i \in Inodes : TRUE
    <2>1. at \in Inodes
      BY SomeInode
    <2>2. PICK own \in {None, Root} :
            /\ name' = [target |-> IF own = None THEN None ELSE at, rotated |-> None]
            /\ inode' = [i \in Inodes |-> IF i = at THEN [own |-> own, holds |-> {}] ELSE Blank]
      BY <1>1 DEF Deploy
    <2> HIDE DEF at
    <2>3. /\ name' \in [Names -> Inodes \cup {None}]
          /\ name'["target"] # None => name'["target"] # name'["rotated"]
      BY <2>1, <2>2 DEF Names
    <2>4. /\ DOMAIN inode' = Inodes
          /\ \A i \in Inodes : /\ inode'[i] = [own |-> inode'[i].own, holds |-> inode'[i].holds]
                               /\ inode'[i].holds \subseteq Messages
      BY <2>2 DEF Blank
    <2>5. /\ pc' = "host" /\ archived' = {} /\ written' = {} /\ lost' = {} /\ suspended' = FALSE
          /\ UNCHANGED <<writer, fd, queue, hup, lr, given, sent, gone, removed,
                         control, ended, failed, exit, hindered>>
      BY <1>1 DEF Deploy
    <2> QED  BY ONLY ZenonT(40), Typed, <2>3, <2>4, <2>5 DEF Typed, Pcs, given
  <1>2. CASE Boot
    <2> DEFINE at == IF Exists("target") THEN name["target"] ELSE Fresh
    <2>1. at \in Inodes /\ at # name["rotated"] /\ Holds("target") \subseteq Messages
      BY FreshIsFresh DEF Typed, Exists, Holds, Names
    <2>2. \/ UNCHANGED <<name, inode>>
          \/ /\ name' = [name EXCEPT !["target"] = at]
             /\ inode' = [inode EXCEPT ![at] = [own |-> conf.tmpfiles.line, holds |-> Holds("target")]]
      BY <1>2 DEF Boot
    <2>3. /\ writer' = "on" /\ fd' = None /\ queue' = <<>> /\ hup' = FALSE /\ suspended' = FALSE
          /\ lr' = "idle" /\ UNCHANGED <<archived, conf, history, given, script, declared, sent, removed>>
      BY <1>2 DEF Boot
    <2> HIDE DEF at
    <2>4. /\ name' \in [Names -> Inodes \cup {None}]
          /\ name'["target"] # None => name'["target"] # name'["rotated"]
      BY <2>1, <2>2 DEF Typed, Names
    <2>5. /\ DOMAIN inode' = Inodes
          /\ \A i \in Inodes : /\ inode'[i] = [own |-> inode'[i].own, holds |-> inode'[i].holds]
                               /\ inode'[i].holds \subseteq Messages
      BY <2>1, <2>2 DEF Typed
    <2> QED  BY <2>3, <2>4, <2>5, EmptyQueue DEF Typed
  <1>3. CASE \E m \in Traffic : Send(m)
    <2>1. Traffic \subseteq Messages
      BY RotationAssumption DEF RotationAssumption
    <2> QED  BY <1>3, <2>1 DEF Send, Receive, Typed
  <1>4. CASE Timer
    BY <1>4 DEF Timer, Typed
  <1>5. CASE Restart
    BY <1>5, EmptyQueue DEF Restart, Typed
  <1>6. CASE Remove
    BY <1>6 DEF Remove, Typed, Names
  <1> QED  BY <1>1, <1>2, <1>3, <1>4, <1>5, <1>6 DEF Production

LEMMA TypedNext ==
  ASSUME Typed, [Next]_vars
  PROVE  Typed'
  <1>1. CASE UNCHANGED vars
    BY <1>1 DEF Typed, vars, given, script, production, hostVars, disk, daemon, history
  <1>2. CASE Programs
    <2>1. CASE Reopen \/ SocketUp
      <3>1. UNCHANGED <<given, script, production>>
        BY <1>2 DEF Programs
      <3>2. CASE Reopen
        BY <3>1, <3>2 DEF Reopen, Typed, given, script, production, disk, history
      <3>3. CASE SocketUp
        BY <3>1, <3>3 DEF SocketUp, Typed, given, script, production, disk, history
      <3> QED  BY <2>1, <3>2, <3>3
    <2> QED  BY <1>2, <2>1, TypedDeliver, TypedLogrotate DEF Programs
  <1> QED  BY <1>1, <1>2, TypedProve, TypedMain, TypedProduction DEF Next

-----------------------------------------------------------------------------
(* The kinds of steps prove() takes. *)

\* It looks, sees what it wants to see and goes on.
Passes ==
  /\ UNCHANGED <<hostVars, given, production, control, ended, failed, exit, hindered>>
  /\ \/ pc = "probe" /\ pc' = "start"
     \/ pc = "socket" /\ writer = "on" /\ pc' = "log before"
     \/ pc = "see before" /\ CanaryBefore \in Holds("target") /\ pc' = "own before"
     \/ pc = "own before" /\ Owned /\ pc' = "rotate"
     \/ pc = "moved" /\ Exists("rotated") /\ pc' = "see moved"
     \/ pc = "see moved" /\ CanaryBefore \in Holds("rotated") /\ pc' = "recreated"
     \/ pc = "recreated" /\ Exists("target") /\ pc' = "own after"
     \/ pc = "own after" /\ Owned /\ pc' = "log after"
     \/ pc = "see after" /\ CanaryAfter \in Holds("target") /\ pc' = "absent"
     \/ pc = "absent" /\ CanaryAfter \notin Holds("rotated") /\ pc' = "quiet"

\* It refuses: what it waited for is not there, what it requires does not hold, or a program failed.
Refuses ==
  /\ End("failed")
  /\ \/ pc = "prove" /\ Contract = None /\ UNCHANGED hindered
     \/ /\ \/ pc = "socket" /\ writer # "on"
           \/ pc = "see before" /\ CanaryBefore \notin Holds("target")
           \/ pc = "see moved" /\ CanaryBefore \notin Holds("rotated")
           \/ pc = "recreated" /\ ~Exists("target")
           \/ pc = "see after" /\ CanaryAfter \notin Holds("target")
        /\ hindered' = (hindered \/ writer # "on" \/ queue # <<>> \/ hup)
     \/ /\ \/ pc = "own before" /\ ~Owned
           \/ pc = "moved" /\ ~Exists("rotated")
           \/ pc = "own after" /\ ~Owned
           \/ pc = "absent" /\ CanaryAfter \in Holds("rotated")
        /\ UNCHANGED hindered
     \/ /\ pc \in {"log before", "log after"} \/ (pc = "rotating" /\ lr = "idle")
        /\ hindered' = TRUE

\* The machine cannot host the proof.
Unfit ==
  \/ EndUnfit("off") /\ pc = "start" /\ hindered' = TRUE
  \/ EndUnfit("off") /\ pc = "probe"
     /\ hindered' = \/ hindered
                    \/ /\ machine.reach \/ Contract.owner = "root"
                       /\ MayAppend(inode[name["target"]].own, Contract.owner)
  \/ EndUnfit("starting") /\ pc = "start" /\ machine.confined /\ UNCHANGED hindered

Prepared ==
  /\ pc = "prove" /\ Contract # None
  /\ FreshTree(Sabotage[control], CHOOSE i \in Inodes : TRUE)
  /\ conf' = IF control = 4 THEN [Artefacts EXCEPT !.stanza.reopen = FALSE] ELSE Artefacts
  /\ pc' \in {"probe", "start"}
  /\ UNCHANGED <<writer, fd, queue, hup, lr, given, production, control, ended, failed, exit>>

Started ==
  /\ Step("start", "socket") /\ writer' = "starting"
  /\ UNCHANGED <<disk, conf, fd, queue, hup, suspended, lr, history>>

\* logger delivers its message.
SaidBefore == Say("log before", CanaryBefore, "see before")
SaidAfter == Say("log after", CanaryAfter, "see after")

LEMMA ProveSteps ==
  ASSUME Prove
  PROVE  Prepared \/ Started \/ SaidBefore \/ SaidAfter \/ Rotate \/ Return \/ Passes \/ Refuses
         \/ Unfit \/ ExpectQuiet
  <1>1. CASE Prepare
    BY <1>1 DEF Prepare, Prepared, Refuses
  <1>2. CASE Probe
    BY <1>2 DEF Probe, Unfit, Passes, Step
  <1>3. CASE Start
    BY <1>3 DEF Start, Unfit, Started
  <1>4. CASE AwaitSocket
    BY <1>4 DEF AwaitSocket, WaitFor, Passes, Step, Refuses
  <1>5. CASE SeeBefore
    BY <1>5 DEF SeeBefore, WaitFor, Passes, Step, Refuses
  <1>6. CASE OwnBefore
    BY <1>6 DEF OwnBefore, Require, Passes, Step, Refuses
  <1>7. CASE Moved
    BY <1>7 DEF Moved, Require, Passes, Step, Refuses
  <1>8. CASE SeeMoved
    BY <1>8 DEF SeeMoved, WaitFor, Passes, Step, Refuses
  <1>9. CASE Recreated
    BY <1>9 DEF Recreated, WaitFor, Passes, Step, Refuses
  <1>10. CASE OwnAfter
    BY <1>10 DEF OwnAfter, Require, Passes, Step, Refuses
  <1>11. CASE SeeAfter
    BY <1>11 DEF SeeAfter, WaitFor, Passes, Step, Refuses
  <1>12. CASE ExpectAbsent
    BY <1>12 DEF ExpectAbsent, Require, Passes, Step, Refuses
  <1>13. CASE LogBefore
    BY <1>13 DEF LogBefore, Log, SaidBefore, ProgramFails, Refuses
  <1>14. CASE LogAfter
    BY <1>14 DEF LogAfter, Log, SaidAfter, ProgramFails, Refuses
  <1>15. CASE Rotated
    BY <1>15 DEF Rotated, ProgramFails, Refuses
  <1> QED  BY <1>1, <1>2, <1>3, <1>4, <1>5, <1>6, <1>7, <1>8, <1>9, <1>10, <1>11, <1>12, <1>13,
              <1>14, <1>15 DEF Prove

-----------------------------------------------------------------------------
(* The phases. *)

LEMMA PhasedNext ==
  ASSUME Typed, Phased, [Next]_vars
  PROVE  Phased'
  <1> USE DEF given, script, production, hostVars, disk, daemon, history
  <1>1. CASE UNCHANGED vars
    BY <1>1 DEF Phased, vars, Artefacts, Contract, Reachable, Rendered
  <1> SUFFICES ASSUME Next PROVE Phased'
    BY <1>1
  <1>g. Artefacts' = Artefacts /\ Contract' = Contract /\ Reachable' = Reachable
    BY GivenStays
  <1> DEFINE Cut(k) == IF k = 4 THEN [Artefacts EXCEPT !.stanza.reopen = FALSE] ELSE Artefacts
  <1>2. ASSUME /\ ended' # None => pc' = "ended"
               /\ pc' \notin {"rotating", "host"} => lr' = "idle"
               /\ pc' \in Still => fd' = None /\ queue' = <<>> /\ hup' = FALSE
               /\ pc' \in Still /\ Reachable => writer' = "off"
               /\ pc' \in Running => Contract # None /\ conf' = Cut(control')
        PROVE  Phased'
    BY <1>2, <1>g DEF Phased
  <1>3. /\ ended # None => pc = "ended"
        /\ pc \notin {"rotating", "host"} => lr = "idle"
        /\ pc \in Still => fd = None /\ queue = <<>> /\ hup = FALSE
        /\ pc \in Still /\ Reachable => writer = "off"
        /\ pc \in Running => Contract # None /\ conf = Cut(control)
    BY DEF Phased
  <1> HIDE DEF Cut
  <1>4. CASE Prepared
    <2>1. conf' = Cut(control)
      BY <1>4 DEF Prepared, Cut
    <2> QED  BY <1>2, <1>3, <1>4, <2>1 DEF Prepared, Still, Running, BeforeRotation, AfterRotation
  <1>5. CASE Started
    BY <1>2, <1>3, <1>5 DEF Started, Step, Still, Running, BeforeRotation, AfterRotation
  <1>6. CASE SaidBefore \/ SaidAfter
    BY <1>2, <1>3, <1>6 DEF SaidBefore, SaidAfter, Say, Step, Still, Running, BeforeRotation, AfterRotation
  <1>7. CASE Rotate
    BY <1>2, <1>3, <1>7 DEF Rotate, Step, Still, Running, BeforeRotation, AfterRotation
  <1>8. CASE Return
    BY <1>2, <1>3, <1>8 DEF Return, Still, Running, BeforeRotation, AfterRotation
  <1>9. CASE Passes
    BY <1>2, <1>3, <1>9 DEF Passes, Still, Running, BeforeRotation, AfterRotation
  <1>10. CASE \E how : End(how) /\ (pc \notin {"rotating", "host"} \/ lr = "idle")
    BY <1>2, <1>3, <1>10 DEF End, StopWriter, Still, Running, BeforeRotation, AfterRotation
  <1>11. CASE Refuses \/ ExpectQuiet
    BY <1>10, <1>11 DEF Refuses, ExpectQuiet
  <1>12. CASE Unfit
    <2>1. machine.confined => ~Reachable
      BY DEF Reachable
    <2> QED  BY <1>2, <1>3, <1>12, <2>1 DEF Unfit, EndUnfit, Still, Running, BeforeRotation, AfterRotation
  <1>13. CASE Main
    <2>1. /\ pc = "ended" /\ pc' \in {"prove", "done"} /\ ended' = None
          /\ UNCHANGED <<hostVars, given, production, hindered>>
      BY <1>13 DEF Main, GoOn, Leave
    <2> QED  BY <1>2, <1>3, <2>1 DEF Still, Running, BeforeRotation, AfterRotation
  <1>14. CASE Programs
    <2>1. UNCHANGED <<conf, given, script, production>>
      BY <1>14, Delivers DEF Programs, Reopen, SocketUp, Logrotate, Skip, Rename, Create, PostRotate, Compress
    <2>2. CASE Deliver(pc = "host" \/ Reachable)
      BY <1>2, <1>3, <2>1, <2>2, Delivers DEF Still
    <2>3. CASE Reopen \/ SocketUp
      BY <1>2, <1>3, <2>1, <2>3 DEF Reopen, SocketUp, Still
    <2>4. CASE Logrotate
      <3>1. lr # "idle"
        BY <2>4 DEF Logrotate, Skip, Rename, Create, PostRotate, Compress
      <3>2. pc \in {"rotating", "host"}
        BY <1>3, <3>1
      <3> QED  BY <1>2, <1>3, <2>1, <3>2 DEF Still
    <2> QED  BY <1>14, <2>2, <2>3, <2>4 DEF Programs
  <1>15. CASE Production
    <2>1. pc' = "host" /\ UNCHANGED ended /\ (pc = "host" \/ pc = "done")
      BY <1>15 DEF Production, Deploy, Boot, Send, Timer, Restart, Remove
    <2> QED  BY <1>2, <1>3, <2>1 DEF Still, Running, BeforeRotation, AfterRotation
  <1> QED  BY <1>4, <1>5, <1>6, <1>7, <1>8, <1>9, <1>11, <1>12, <1>13, <1>14, <1>15, ProveSteps DEF Next

-----------------------------------------------------------------------------
(* Up to the rotation. *)

\* The programs keep to the files, and before the rotation logrotate and SIGHUP keep still.
LEMMA ProgramsLeave ==
  ASSUME Programs
  PROVE  UNCHANGED <<conf, given, script, production>>
  BY Delivers DEF Programs, Reopen, SocketUp, Logrotate, Skip, Rename, Create, PostRotate, Compress

LEMMA LogrotateActs ==
  ASSUME Logrotate
  PROVE  lr # "idle" /\ UNCHANGED <<writer, fd, queue, suspended, written, lost>>
  BY DEF Logrotate, Skip, Rename, Create, PostRotate, Compress, disk, daemon, history

LEMMA OpenedPrepared ==
  ASSUME Typed, Phased, Prepared, Contract' = Contract
  PROVE  Opened'
  <1> DEFINE at == CHOOSE i \in Inodes : TRUE
  <1>1. at \in Inodes
    BY SomeInode
  <1> HIDE DEF at
  <1>2. /\ name' = [target |-> IF Sabotage[control] = "no-tmpfiles" THEN None ELSE at, rotated |-> None]
        /\ inode' = [i \in Inodes |->
                       IF i = at /\ Sabotage[control] # "no-tmpfiles"
                       THEN [own |-> PreparedAs(Sabotage[control]), holds |-> {}] ELSE Blank]
        /\ UNCHANGED <<fd, hup, control>> /\ pc = "prove"
    BY DEF Prepared, FreshTree, at
  <1>3. fd = None /\ hup = FALSE
    BY <1>2 DEF Phased, Still
  <1>4. \A i \in Inodes : inode'[i].holds = {}
    BY <1>2 DEF Blank
  <1>5. /\ Sabotage[1] = "no-tmpfiles"
        /\ control \in 0 .. 4 /\ control # 1 => Sabotage[control] # "no-tmpfiles"
    BY RotationAssumption DEF RotationAssumption, Sabotage
  <1>6. control \in 0 .. 4
    BY DEF Typed
  <1>7. PreparedAs(Sabotage[control])' = PreparedAs(Sabotage[control])
    BY <1>2 DEF PreparedAs
  <1>8. None \notin Inodes
    BY RotationAssumption DEF RotationAssumption
  <1>9. CASE control = 1
    BY <1>2, <1>3, <1>4, <1>5, <1>9 DEF Opened
  <1>10. CASE control # 1
    <2>1. name'["target"] = at /\ name'["rotated"] = None
      BY <1>2, <1>5, <1>6, <1>10
    <2>2. inode'[at].own = PreparedAs(Sabotage[control])
      BY <1>1, <1>2, <1>5, <1>6, <1>10
    <2> QED  BY <1>1, <1>2, <1>3, <1>4, <1>7, <1>8, <1>10, <2>1, <2>2 DEF Opened, Target
  <1> QED  BY <1>9, <1>10

LEMMA OpenedDeliver ==
  ASSUME Typed, Phased, Opened, pc \in BeforeRotation, NEW reach, Deliver(reach), reach => Reachable,
         Contract' = Contract, Reachable' = Reachable, UNCHANGED <<given, script, production>>
  PROVE  Opened'
  <1> DEFINE prep == PreparedAs(Sabotage[control])
  <1>1. UNCHANGED <<pc, control, conf, hup>> /\ prep' = prep
    BY Delivers DEF script, PreparedAs
  <1>2. /\ name["rotated"] = None /\ hup = FALSE
        /\ fd # None => fd = name["target"]
        /\ \A i \in Inodes : inode[i].holds # {} => i = fd
        /\ control # 1 => name["target"] # None /\ Target.own = prep
        /\ control = 1 /\ name["target"] # None => conf.tmpfiles.wide /\ Target.own = conf.rsyslog
        /\ control # 1 /\ fd # None => Reachable /\ MayAppend(prep, Writer)
    BY DEF Opened
  <1> HIDE DEF prep
  <1>3. SUFFICES
          /\ name'["rotated"] = None
          /\ fd' # None => fd' = name'["target"]
          /\ \A i \in Inodes : inode'[i].holds # {} => i = fd'
          /\ control # 1 => name'["target"] # None /\ inode'[name'["target"]].own = prep
          /\ control = 1 /\ name'["target"] # None =>
               conf.tmpfiles.wide /\ inode'[name'["target"]].own = conf.rsyslog
          /\ control # 1 /\ fd' # None => Reachable /\ MayAppend(prep, Writer)
    BY <1>1, <1>2 DEF Opened, Target, prep
  <1>4. ASSUME NEW i \in Inodes, NEW m, WriteTo(i, m), i = name["target"], fd = None \/ fd = i
        PROVE  /\ name'["rotated"] = None /\ fd' = name'["target"] /\ name' = name
               /\ \A j \in Inodes : inode'[j].holds # {} => j = fd'
               /\ inode'[name'["target"]].own = Target.own
    <2>1. /\ fd' = i /\ name' = name
          /\ inode'[i] = [own |-> inode[i].own, holds |-> inode[i].holds \cup {m}]
          /\ \A j \in Inodes : j # i => inode'[j] = inode[j]
      BY <1>4, Writes
    <2>2. inode'[i].own = inode[i].own
      BY <2>1
    <2>3. None \notin Inodes
      BY RotationAssumption DEF RotationAssumption
    <2>4. \A j \in Inodes : j # i => inode[j].holds = {}
      BY <1>2, <1>4, <2>3
    <2> QED  BY <1>2, <1>4, <2>1, <2>2, <2>4 DEF Target
  <1>5. None \notin Inodes /\ fd \in Inodes \cup {None} /\ name["target"] \in Inodes \cup {None}
    BY RotationAssumption DEF RotationAssumption, Typed, Names
  <1>6. CASE fd # None /\ WriteTo(fd, Head(queue))
    BY <1>2, <1>4, <1>5, <1>6
  <1>7. CASE fd = None /\ Openable(reach) /\ WriteTo(name["target"], Head(queue))
    BY <1>2, <1>4, <1>5, <1>7 DEF Openable, Exists, Target
  <1>8. CASE fd = None /\ Creatable(reach) /\ CreateAndWrite(Head(queue))
    <2>1. control = 1 /\ conf.tmpfiles.wide
      BY <1>2, <1>8 DEF Creatable, Exists
    <2>2. /\ fd' = Fresh /\ name' = [name EXCEPT !["target"] = Fresh]
          /\ inode' = [inode EXCEPT ![Fresh] = [own |-> conf.rsyslog, holds |-> {Head(queue)}]]
      BY <1>8 DEF CreateAndWrite
    <2>3. name \in [Names -> Inodes \cup {None}] /\ DOMAIN inode = Inodes
      BY DEF Typed
    <2>4. name'["target"] = Fresh /\ name'["rotated"] = None
      BY <1>2, <2>2, <2>3 DEF Names
    <2>5. \A j \in Inodes : inode[j].holds = {}
      BY <1>2, <1>5, <1>8
    <2>6. \A j \in Inodes : inode'[j].holds # {} => j = Fresh
      BY <2>2, <2>3, <2>5
    <2>7. inode'[Fresh].own = conf.rsyslog
      BY <2>2, <2>3, FreshIsFresh
    <2> QED  BY <2>1, <2>2, <2>4, <2>6, <2>7
  <1>9. CASE fd = None /\ Discard(Head(queue))
    BY <1>2, <1>9 DEF Discard, Target
  <1> QED  BY <1>6, <1>7, <1>8, <1>9, Delivers

LEMMA OpenedNext ==
  ASSUME Typed, Phased, Opened, [Next]_vars
  PROVE  Opened'
  <1> USE DEF given, script, production, hostVars, disk, daemon, history
  <1>1. CASE UNCHANGED vars
    BY <1>1 DEF Opened, vars, Target, PreparedAs, Contract, Artefacts, Rendered, Reachable
  <1> SUFFICES ASSUME Next PROVE Opened'
    BY <1>1
  <1>2. Contract' = Contract /\ Reachable' = Reachable
    BY GivenStays
  <1>3. ASSUME UNCHANGED <<disk, conf, fd, hup, control>>, pc \in BeforeRotation
        PROVE  Opened'
    <2>1. PreparedAs(Sabotage[control])' = PreparedAs(Sabotage[control])
      BY <1>2, <1>3 DEF PreparedAs
    <2> QED  BY <1>2, <1>3, <2>1 DEF Opened, Target
  <1>4. ASSUME pc' \notin BeforeRotation PROVE Opened'
    BY <1>4 DEF Opened
  <1>5. CASE Prepared
    BY <1>2, <1>5, OpenedPrepared
  <1>6. CASE Started
    BY <1>3, <1>6 DEF Started, Step, BeforeRotation
  <1>7. CASE SaidBefore \/ SaidAfter
    BY <1>3, <1>4, <1>7 DEF SaidBefore, SaidAfter, Say, Step, BeforeRotation
  <1>8. CASE Rotate \/ Return
    BY <1>4, <1>8 DEF Rotate, Return, Step, BeforeRotation
  <1>9. CASE Passes
    BY <1>3, <1>4, <1>9 DEF Passes, BeforeRotation
  <1>10. CASE Refuses \/ Unfit \/ ExpectQuiet \/ Main \/ Production
    BY <1>4, <1>10 DEF Refuses, End, Unfit, EndUnfit, ExpectQuiet, Main, GoOn, Leave, Production,
                       Deploy, Boot, Send, Timer, Restart, Remove, BeforeRotation
  <1>11. CASE Programs
    <2>1. pc' = pc /\ UNCHANGED <<given, script, production>>
      BY <1>11, ProgramsLeave
    <2>2. SUFFICES ASSUME pc \in BeforeRotation PROVE Opened'
      BY <1>4, <2>1
    <2>3. lr = "idle" /\ hup = FALSE /\ pc # "host"
      BY <2>2 DEF Phased, Opened, BeforeRotation
    <2>4. CASE Deliver(pc = "host" \/ Reachable)
      BY <1>2, <2>1, <2>2, <2>3, <2>4, OpenedDeliver
    <2>5. CASE SocketUp
      BY <1>3, <2>1, <2>2, <2>5 DEF SocketUp
    <2> QED  BY <1>11, <2>3, <2>4, <2>5, LogrotateActs DEF Programs, Reopen
  <1> QED  BY <1>5, <1>6, <1>7, <1>8, <1>9, <1>10, <1>11, ProveSteps DEF Next

-----------------------------------------------------------------------------
(* What the answers before the rotation establish. *)

LEMMA AnsweredPasses ==
  ASSUME Typed, Phased, Opened, Answered, Passes, Contract' = Contract, Reachable' = Reachable,
         Artefacts' = Artefacts
  PROVE  Answered'
  <1> DEFINE prep == PreparedAs(Sabotage[control])
  <1>1. UNCHANGED <<hostVars, control>> /\ prep' = prep
    BY DEF Passes, PreparedAs
  <1> HIDE DEF prep
  <1>2. fd' = fd
    BY <1>1 DEF hostVars, daemon
  <1>3. None \notin Inodes /\ name["target"] \in Inodes \cup {None}
    BY RotationAssumption DEF RotationAssumption, Typed, Names
  <1>4. CASE pc = "see before" /\ CanaryBefore \in Holds("target") /\ pc' = "own before"
    <2>1. name["target"] # None /\ inode[name["target"]].holds # {}
      BY <1>4 DEF Holds, Exists
    <2>2. fd = name["target"] /\ (control # 1 => Reachable /\ MayAppend(prep, Writer))
      BY <1>3, <1>4, <2>1 DEF Opened, BeforeRotation, prep
    <2> QED  BY <1>1, <1>2, <1>4, <2>1, <2>2 DEF Answered, AfterRotation, prep
  <1>5. CASE pc = "own before" /\ Owned /\ pc' = "rotate"
    <2>1. /\ fd # None /\ (control # 1 => Reachable /\ MayAppend(prep, Writer))
      BY <1>5 DEF Answered, prep
    <2>2. /\ name["target"] # None
          /\ control = 1 => conf.tmpfiles.wide /\ Target.own = conf.rsyslog
      BY <1>5, <2>1 DEF Opened, BeforeRotation
    <2>3. conf.tmpfiles = Artefacts.tmpfiles /\ conf.rsyslog = Artefacts.rsyslog
      BY <1>5, StanzaIs DEF Typed, Running, BeforeRotation
    <2>4. Contract # None
      BY <1>5 DEF Phased, Running, BeforeRotation
    <2>5. Artefacts.rsyslog = [owner |-> Writer, group |-> Writer, mode |-> Contract.mode]
      BY <2>4, ContractIs DEF Typed
    <2>6. control = 1 => Artefacts.tmpfiles.wide /\ Contract.group = Writer
      <3>1. Target.own = Contract
        BY <1>5 DEF Owned, Target
      <3> QED  BY <2>2, <2>3, <2>5, <3>1
    <2> QED  BY <1>1, <1>2, <1>5, <2>1, <2>6 DEF Answered, AfterRotation, prep
  <1>6. CASE pc \in AfterRotation /\ pc' \in AfterRotation
    BY <1>1, <1>2, <1>6 DEF Answered, AfterRotation, prep
  <1>7. CASE pc' \in {"start", "log before"}
    BY <1>7 DEF Answered, AfterRotation
  <1> QED  BY <1>4, <1>5, <1>6, <1>7 DEF Passes, AfterRotation

LEMMA AnsweredNext ==
  ASSUME Typed, Phased, Opened, Answered, [Next]_vars
  PROVE  Answered'
  <1> USE DEF given, script, production, hostVars, disk, daemon, history
  <1>1. CASE UNCHANGED vars
    BY <1>1 DEF Answered, vars, PreparedAs, Contract, Artefacts, Rendered, Reachable
  <1> SUFFICES ASSUME Next PROVE Answered'
    BY <1>1
  <1>2. Contract' = Contract /\ Reachable' = Reachable /\ Artefacts' = Artefacts
    BY GivenStays
  <1> DEFINE Late == {"own before", "rotate", "rotating"} \cup AfterRotation
  <1>3. ASSUME pc' \notin Late PROVE Answered'
    BY <1>3 DEF Answered
  <1>4. ASSUME pc \in Late, control' = control,
               \/ pc' = pc
               \/ pc = "rotate" /\ pc' = "rotating"
               \/ pc \in {"rotating"} \cup AfterRotation /\ pc' \in AfterRotation,
               pc' \in {"own before", "rotate"} => fd' # None
        PROVE  Answered'
    <2>1. PreparedAs(Sabotage[control])' = PreparedAs(Sabotage[control])
      BY <1>2, <1>4 DEF PreparedAs
    <2> QED  BY <1>2, <1>4, <2>1 DEF Answered, AfterRotation
  <1>5. CASE Prepared \/ Started \/ SaidBefore \/ Refuses \/ Unfit \/ ExpectQuiet \/ Main \/ Production
    BY <1>3, <1>5 DEF Prepared, Started, SaidBefore, Say, Step, Refuses, End, Unfit, EndUnfit, ExpectQuiet, Main,
                      GoOn, Leave, Production, Deploy, Boot, Send, Timer, Restart, Remove, AfterRotation
  <1>6. CASE SaidAfter
    BY <1>4, <1>6 DEF SaidAfter, Say, Step, AfterRotation
  <1>7. CASE Rotate \/ Return
    <2>1. /\ control' = control
          /\ \/ pc = "rotate" /\ pc' = "rotating"
             \/ pc = "rotating" /\ pc' = "moved"
      <3>1. CASE Rotate
        BY <3>1 DEF Rotate, Step
      <3>2. CASE Return
        BY <3>2 DEF Return
      <3> QED  BY <1>7, <3>1, <3>2
    <2> QED  BY <1>4, <2>1 DEF AfterRotation
  <1>8. CASE Passes
    BY <1>2, <1>8, AnsweredPasses
  <1>9. CASE Programs
    <2>1. pc' = pc /\ control' = control
      BY <1>9, ProgramsLeave
    <2>2. ASSUME pc \in {"own before", "rotate"}
          PROVE  fd' # None
      <3>1. fd # None /\ hup = FALSE
        BY <2>2 DEF Answered, Opened, BeforeRotation
      <3>2. None \notin Inodes /\ fd \in Inodes
        BY <3>1, RotationAssumption DEF RotationAssumption, Typed
      <3> QED  BY <1>9, <3>1, <3>2, LogrotateActs, Delivers DEF Programs, Reopen, SocketUp, WriteTo
    <2>3. CASE pc \notin Late
      BY <1>3, <2>1, <2>3
    <2> HIDE DEF Late
    <2>4. CASE pc \in Late
      BY <1>4, <2>1, <2>2, <2>4
    <2> QED  BY <2>3, <2>4
  <1> QED  BY <1>5, <1>6, <1>7, <1>8, <1>9, ProveSteps DEF Next

-----------------------------------------------------------------------------
(* The rotation. *)

LEMMA UnreopenedLogrotate ==
  ASSUME Typed, Unreopened, Logrotate, UNCHANGED <<given, script, production>>
  PROVE  Unreopened'
  <1>1. pc' = pc /\ conf' = conf /\ fd' = fd
    BY LogrotateActs DEF script, Logrotate, Skip, Rename, Create, PostRotate, Compress
  <1>2. SUFFICES ASSUME pc \in {"rotating"} \cup AfterRotation, ~conf.stanza.reopen
                 PROVE  /\ hup' = FALSE /\ fd # None
                        /\ \A i \in Inodes : inode'[i].holds # {} => i = fd
                        /\ name'["rotated"] # None \/ lr' \in {"renamed", "created", "signalled"} =>
                             name'["target"] # fd
    BY <1>1 DEF Unreopened
  <1>3. /\ hup = FALSE /\ fd # None
        /\ \A i \in Inodes : inode[i].holds # {} => i = fd
        /\ name["rotated"] # None \/ lr \in {"renamed", "created", "signalled"} =>
             name["target"] # fd
    BY <1>2 DEF Unreopened
  <1>4. name \in [Names -> Inodes \cup {None}] /\ DOMAIN inode = Inodes
    BY DEF Typed
  <1> USE DEF disk, daemon, history, Names
  <1>5. CASE Skip
    BY <1>3, <1>5 DEF Skip
  <1>6. CASE Rename
    BY <1>3, <1>4, <1>6 DEF Rename
  <1>7. CASE Create
    <2> DEFINE at == IF Exists("target") THEN name["target"] ELSE Fresh
               own == IF conf.stanza.own = None THEN inode[name["rotated"]].own
                      ELSE conf.stanza.own
    <2>1. lr = "renamed" /\ UNCHANGED <<hup, fd>>
      BY <1>7 DEF Create
    <2>2. CASE UNCHANGED <<name, inode>>
      BY <1>3, <2>1, <2>2
    <2>3. CASE /\ name' = [name EXCEPT !["target"] = at]
               /\ inode' = [inode EXCEPT ![at] = [own |-> own, holds |-> Holds("target")]]
      <3>1. at # fd
        BY <1>3, <2>1, FreshIsFresh DEF Exists
      <3>2. at \in Inodes /\ (Holds("target") # {} => at = name["target"] /\ inode[at].holds # {})
        BY <1>4, FreshIsFresh DEF Exists, Holds
      <3> HIDE DEF at, own
      <3> QED  BY <1>3, <1>4, <2>1, <2>3, <3>1, <3>2
    <2> QED  BY <1>7, <2>2, <2>3 DEF Create, Recreate
  <1>8. CASE PostRotate
    BY <1>2, <1>3, <1>8 DEF PostRotate
  <1>9. CASE Compress
    BY <1>3, <1>4, <1>9 DEF Compress
  <1> QED  BY <1>5, <1>6, <1>7, <1>8, <1>9 DEF Logrotate

LEMMA UnreopenedNext ==
  ASSUME Typed, Phased, Opened, Answered, Unreopened, [Next]_vars
  PROVE  Unreopened'
  <1> USE DEF given, script, production, hostVars, disk, daemon, history
  <1>1. CASE UNCHANGED vars
    BY <1>1 DEF Unreopened, vars
  <1> DEFINE Turning == {"rotating"} \cup AfterRotation
  <1>2. ASSUME pc' \notin Turning PROVE Unreopened'
    BY <1>2 DEF Unreopened
  <1>3. ASSUME pc \in Turning, UNCHANGED <<disk, conf, hup, fd, lr>> PROVE Unreopened'
    BY <1>3 DEF Unreopened
  <1>4. CASE Prepared \/ Started \/ SaidBefore \/ Refuses \/ Unfit \/ ExpectQuiet \/ Main \/ Production
    BY <1>2, <1>4 DEF Prepared, Started, SaidBefore, Say, Step, Refuses, End, Unfit, EndUnfit, ExpectQuiet, Main,
                      GoOn, Leave, Production, Deploy, Boot, Send, Timer, Restart, Remove, AfterRotation
  <1>5. CASE SaidAfter
    BY <1>3, <1>5 DEF SaidAfter, Say, Step, AfterRotation
  <1>6. CASE Return
    BY <1>3, <1>6 DEF Return, Step, AfterRotation
  <1>7. CASE Rotate
    <2>1. pc = "rotate" /\ lr' = "due" /\ UNCHANGED <<disk, conf, hup, fd>>
      BY <1>7 DEF Rotate, Step
    <2>2. /\ name["rotated"] = None /\ hup = FALSE /\ fd # None
          /\ \A i \in Inodes : inode[i].holds # {} => i = fd
      BY <2>1 DEF Opened, Answered, BeforeRotation
    <2> QED  BY <2>1, <2>2 DEF Unreopened
  <1>8. CASE Passes
    BY <1>2, <1>3, <1>8 DEF Passes, AfterRotation
  <1>9. CASE Programs
    <2>1. pc' = pc /\ conf' = conf /\ UNCHANGED <<given, script, production>>
      BY <1>9, ProgramsLeave
    <2>2. CASE Logrotate
      BY <2>1, <2>2, UnreopenedLogrotate
    <2>3. SUFFICES ASSUME pc \in Turning, ~conf.stanza.reopen, ~Logrotate PROVE Unreopened'
      BY <2>1, <2>2 DEF Unreopened
    <2>4. /\ hup = FALSE /\ fd # None
          /\ \A i \in Inodes : inode[i].holds # {} => i = fd
          /\ name["rotated"] # None \/ lr \in {"renamed", "created", "signalled"} =>
               name["target"] # fd
      BY <2>3 DEF Unreopened
    <2>5. fd \in Inodes
      BY <2>4 DEF Typed
    <2>6. CASE WriteTo(fd, Head(queue)) /\ UNCHANGED <<hup, lr>>
      <3>1. /\ fd' = fd /\ name' = name
            /\ \A j \in Inodes : j # fd => inode'[j] = inode[j]
        BY <2>5, <2>6, Writes
      <3> QED  BY <2>1, <2>4, <2>6, <3>1 DEF Unreopened
    <2>7. CASE SocketUp
      BY <1>3, <2>1, <2>3, <2>7 DEF SocketUp
    <2> QED  BY <1>9, <2>3, <2>4, <2>6, <2>7, Delivers DEF Programs, Reopen
  <1> QED  BY <1>1, <1>4, <1>5, <1>6, <1>7, <1>8, <1>9, ProveSteps DEF Next

\* Only logrotate touches the last rotation.
LEMMA LastStays ==
  ASSUME Typed, NEW reach, Deliver(reach)
  PROVE  name'["rotated"] = name["rotated"]
  <1>1. name \in [Names -> Inodes \cup {None}]
    BY DEF Typed
  <1> QED  BY <1>1, Delivers DEF WriteTo, CreateAndWrite, Discard, Names

LEMMA CompressedNext ==
  ASSUME Typed, Phased, Opened, Compressed, [Next]_vars
  PROVE  Compressed'
  <1> USE DEF given, script, production, hostVars, disk, daemon, history
  <1>1. CASE UNCHANGED vars
    BY <1>1 DEF Compressed, vars
  <1>2. ASSUME pc' \notin {"rotating", "moved"} PROVE Compressed'
    BY <1>2 DEF Compressed
  <1>3. CASE Prepared \/ Started \/ SaidBefore \/ SaidAfter \/ Refuses \/ Unfit \/ ExpectQuiet
             \/ Main \/ Production \/ Passes
    BY <1>2, <1>3 DEF Prepared, Started, SaidBefore, SaidAfter, Say, Step, Refuses, End, Unfit, EndUnfit,
                      ExpectQuiet, Main, GoOn, Leave, Production, Deploy, Boot, Send, Timer, Restart,
                      Remove, Passes
  <1>4. CASE Rotate
    <2>1. pc = "rotate" /\ UNCHANGED <<name, conf>>
      BY <1>4 DEF Rotate, Step
    <2> QED  BY <2>1 DEF Compressed, Opened, BeforeRotation
  <1>5. CASE Return
    BY <1>5 DEF Return, Compressed
  <1>6. CASE Programs
    <2>1. pc' = pc /\ conf' = conf
      BY <1>6, ProgramsLeave
    <2>2. CASE Deliver(pc = "host" \/ Reachable)
      BY <2>1, <2>2, LastStays, Delivers DEF Compressed
    <2>3. CASE Reopen \/ SocketUp
      BY <2>1, <2>3 DEF Reopen, SocketUp, Compressed
    <2>4. CASE Skip \/ Rename \/ Create
      BY <2>1, <2>4 DEF Skip, Rename, Create, Compressed
    <2>5. CASE PostRotate
      BY <2>1, <2>5 DEF PostRotate, Compressed
    <2>6. CASE Compress
      <3>1. name'["rotated"] = None
        BY <2>6 DEF Compress, Typed, Names
      <3> QED  BY <2>1, <3>1 DEF Compressed
    <2> QED  BY <1>6, <2>2, <2>3, <2>4, <2>5, <2>6 DEF Programs, Logrotate
  <1> QED  BY <1>1, <1>3, <1>4, <1>5, <1>6, ProveSteps DEF Next

LEMMA RemadeNext ==
  ASSUME Typed, Phased, Opened, Turned, Remade, [Next]_vars
  PROVE  Remade'
  <1> USE DEF given, script, production, hostVars, disk, daemon, history
  <1>1. CASE UNCHANGED vars
    BY <1>1 DEF Remade, vars
  <1> SUFFICES ASSUME Next PROVE Remade'
    BY <1>1
  <1> DEFINE Early == {"probe", "start", "socket", "log before"}
             Idle == {"own before", "rotate", "rotating", "moved", "see moved", "recreated"}
             Moving == {"rotating", "moved", "see moved", "recreated"}
             Late == {"own after", "log after", "see after", "absent", "quiet"}
  <1>2. CASE Refuses \/ Unfit \/ ExpectQuiet \/ Main \/ Production
    <2>1. pc' \in {"ended", "prove", "done", "host"}
      BY <1>2 DEF Refuses, End, Unfit, EndUnfit, ExpectQuiet, Main, GoOn, Leave, Production, Deploy,
                  Boot, Send, Timer, Restart, Remove
    <2> QED  BY <2>1 DEF Remade
  <1>3. CASE Prepared
    <2>1. pc = "prove" /\ pc' \in {"probe", "start"} /\ queue' = queue
      BY <1>3 DEF Prepared
    <2>2. queue = <<>>
      BY <2>1 DEF Phased, Still
    <2>3. \A i \in Inodes : inode'[i].holds = {}
      BY <1>3 DEF Prepared, FreshTree, Blank
    <2> QED  BY <2>1, <2>2, <2>3 DEF Remade
  <1>4. CASE Started
    BY <1>4 DEF Started, Step, Remade
  <1>5. CASE SaidBefore
    <2>1. /\ pc = "log before" /\ pc' = "see before" /\ inode' = inode
          /\ queue' = Append(queue, CanaryBefore)
      BY <1>5 DEF SaidBefore, Say, Step, Receive
    <2>2. queue = <<>> /\ \A i \in Inodes : inode[i].holds = {}
      BY <2>1 DEF Remade
    <2>3. Append(<<>>, CanaryBefore) = <<CanaryBefore>>
      OBVIOUS
    <2> QED  BY <2>1, <2>2, <2>3 DEF Remade
  <1>6. CASE SaidAfter
    BY <1>6 DEF SaidAfter, Say, Step, Remade
  <1>7. CASE Rotate
    <2>1. /\ pc = "rotate" /\ pc' = "rotating" /\ UNCHANGED <<name, queue>>
      BY <1>7 DEF Rotate, Step
    <2>2. name["rotated"] = None /\ queue = <<>>
      BY <2>1 DEF Opened, BeforeRotation, Remade
    <2> QED  BY <2>1, <2>2 DEF Remade
  <1>8. CASE Return
    BY <1>8 DEF Return, Remade
  <1>9. CASE Passes
    <2>1. UNCHANGED <<name, inode, conf, queue>>
      BY <1>9 DEF Passes
    <2>2. CASE pc = "see before" /\ CanaryBefore \in Holds("target") /\ pc' = "own before"
      <3>1. name["target"] \in Inodes /\ inode[name["target"]].holds # {}
        BY <2>2 DEF Holds, Exists, Typed, Names
      <3>2. queue = <<>>
        BY <2>2, <3>1 DEF Remade
      <3> QED  BY <2>1, <2>2, <3>2 DEF Remade
    <2>3. CASE pc = "recreated" /\ Exists("target") /\ pc' = "own after"
      <3>1. name["rotated"] # None
        BY <2>3 DEF Turned, AfterRotation
      <3>2. conf.stanza.create
        BY <2>3, <3>1 DEF Remade, Exists
      <3> QED  BY <2>1, <2>3, <3>2 DEF Remade
    <2>4. CASE \/ pc \in Early /\ pc' \in {"start", "log before"}
               \/ pc = "own before" /\ pc' = "rotate"
               \/ pc \in Moving /\ pc' \in {"see moved", "recreated"}
               \/ pc \in Late /\ pc' \in Late
      BY <2>1, <2>4 DEF Remade
    <2> QED  BY <1>9, <2>2, <2>3, <2>4 DEF Passes
  <1>10. CASE Programs
    <2>1. pc' = pc /\ conf' = conf
      BY <1>10, ProgramsLeave
    <2>2. CASE Deliver(pc = "host" \/ Reachable)
      <3>1. queue # <<>> /\ queue' = Tail(queue)
        BY <2>2, Delivers
      <3>2. CASE pc = "see before"
        <4>1. queue = <<CanaryBefore>>
          BY <3>1, <3>2 DEF Remade
        <4>2. Tail(<<CanaryBefore>>) = <<>>
          OBVIOUS
        <4> QED  BY <2>1, <3>1, <3>2, <4>1, <4>2 DEF Remade
      <3>3. CASE pc # "see before"
        <4>1. pc \notin Early \cup Idle
          BY <3>1 DEF Remade
        <4> QED  BY <2>1, <3>3, <4>1 DEF Remade
      <3> QED  BY <3>2, <3>3
    <2>3. CASE Reopen \/ SocketUp
      BY <2>1, <2>3 DEF Reopen, SocketUp, Remade
    <2>4. CASE Logrotate
      <3>1. pc \in {"rotating", "host"} /\ queue' = queue
        BY <2>4, LogrotateActs DEF Phased
      <3>2. SUFFICES ASSUME pc = "rotating", ~conf.stanza.create, name'["rotated"] # None
                     PROVE  name'["target"] = None
        BY <2>1, <3>1 DEF Remade
      <3>3. name["rotated"] # None => name["target"] = None
        BY <3>2 DEF Remade
      <3>4. name \in [Names -> Inodes \cup {None}]
        BY DEF Typed
      <3> QED  BY <2>4, <3>2, <3>3, <3>4
               DEF Logrotate, Skip, Rename, Create, PostRotate, Compress, Names
    <2> QED  BY <1>10, <2>2, <2>3, <2>4 DEF Programs
  <1> QED  BY <1>2, <1>3, <1>4, <1>5, <1>6, <1>7, <1>8, <1>9, <1>10, ProveSteps DEF Next

LEMMA TurnedNext ==
  ASSUME Typed, Phased, Unreopened, Compressed, Turned, [Next]_vars
  PROVE  Turned'
  <1> USE DEF given, script, production, hostVars, disk, daemon, history
  <1>1. CASE UNCHANGED vars
    BY <1>1 DEF Turned, vars
  <1> DEFINE Later == AfterRotation \ {"moved"}
  <1>2. ASSUME pc' \notin Later PROVE Turned'
    BY <1>2 DEF Turned, AfterRotation
  <1>3. ASSUME pc \in Later, name'["rotated"] = name["rotated"], conf' = conf,
               pc' \in {"absent", "quiet"} => conf.stanza.reopen
        PROVE  Turned'
    BY <1>3 DEF Turned, AfterRotation
  <1>4. CASE Prepared \/ Started \/ SaidBefore \/ Refuses \/ Unfit \/ ExpectQuiet
             \/ Main \/ Production \/ Rotate \/ Return
    BY <1>2, <1>4 DEF Prepared, Started, SaidBefore, Say, Step, Refuses, End, Unfit, EndUnfit,
                      ExpectQuiet, Main, GoOn, Leave, Production, Deploy, Boot, Send, Timer, Restart,
                      Remove, Rotate, Return, AfterRotation
  <1>5. CASE SaidAfter
    BY <1>3, <1>5 DEF SaidAfter, Say, Step, AfterRotation
  <1>6. CASE Passes
    <2>1. UNCHANGED <<name, conf>>
      BY <1>6 DEF Passes
    <2>2. CASE pc = "moved" /\ Exists("rotated") /\ pc' = "see moved"
      <3>1. lr = "idle"
        BY <2>2 DEF Phased
      <3> QED  BY <2>1, <2>2, <3>1 DEF Compressed, Turned, Exists
    <2>3. CASE pc = "see after" /\ CanaryAfter \in Holds("target") /\ pc' = "absent"
      <3>1. name["target"] # None /\ inode[name["target"]].holds # {}
        BY <2>3 DEF Holds, Exists
      <3>2. name["rotated"] # None
        BY <2>3 DEF Turned, AfterRotation
      <3>3. name["target"] \in Inodes
        BY <3>1 DEF Typed, Names
      <3>4. conf.stanza.reopen
        BY <2>3, <3>1, <3>2, <3>3 DEF Unreopened, AfterRotation
      <3> QED  BY <1>3, <2>1, <2>3, <3>4 DEF AfterRotation
    <2>4. CASE \/ pc = "absent" /\ pc' = "quiet"
               \/ pc \in {"see moved", "recreated", "own after"} /\ pc' \in {"recreated", "own after", "log after"}
      BY <1>3, <2>1, <2>4 DEF AfterRotation, Turned
    <2>5. CASE pc' \in {"start", "log before", "own before", "rotate"}
      BY <1>2, <2>5 DEF AfterRotation
    <2> QED  BY <1>6, <2>2, <2>3, <2>4, <2>5 DEF Passes
  <1>7. CASE Programs
    <2>1. pc' = pc /\ conf' = conf
      BY <1>7, ProgramsLeave
    <2>2. CASE pc \notin Later
      BY <1>2, <2>1, <2>2
    <2>3. CASE pc \in Later
      <3>1. lr = "idle"
        BY <2>3 DEF Phased, AfterRotation
      <3>2. name'["rotated"] = name["rotated"]
        BY <1>7, <3>1, LogrotateActs, LastStays DEF Programs, Reopen, SocketUp
      <3>3. pc' \in {"absent", "quiet"} => conf.stanza.reopen
        BY <2>1 DEF Turned
      <3> QED  BY <1>3, <2>1, <2>3, <3>2, <3>3
    <2> QED  BY <2>2, <2>3
  <1> QED  BY <1>1, <1>4, <1>5, <1>6, <1>7, ProveSteps DEF Next

-----------------------------------------------------------------------------
(* The verdict. *)

LEMMA QuietIsSound ==
  ASSUME Typed, Phased, Answered, Remade, Turned, pc = "quiet"
  PROVE  \/ control = 0 /\ Sound(Artefacts) /\ Reachable
         \/ control = 1 /\ Artefacts.tmpfiles.wide /\ Contract.group = Writer
  <1>1. Contract # None /\ control \in 0 .. 4
    BY DEF Phased, Running, AfterRotation, Typed
  <1>2. Contract = [owner |-> Contract.owner, group |-> Contract.group, mode |-> Contract.mode]
    BY <1>1, ContractIs DEF Typed
  <1>3. /\ control # 4 => conf = Artefacts
        /\ control = 4 => ~conf.stanza.reopen
    BY <1>1, StanzaIs DEF Running, AfterRotation
  <1>4. /\ conf.stanza.create /\ conf.stanza.reopen
        /\ conf.stanza.compress => conf.stanza.delaycompress
    BY DEF Remade, Turned, AfterRotation
  <1>5. control # 1 => Reachable /\ MayAppend(PreparedAs(Sabotage[control]), Writer)
    BY DEF Answered, AfterRotation
  <1>6. control = 1 => Artefacts.tmpfiles.wide /\ Contract.group = Writer
    BY DEF Answered, AfterRotation
  <1>7. control \in {0, 1}
    BY <1>1, <1>2, <1>3, <1>4, <1>5, PreparedIs
  <1>8. CASE control = 0
    <2>1. Reachable /\ MayAppend(Contract, Writer) /\ conf = Artefacts
      BY <1>2, <1>3, <1>5, <1>8, PreparedIs
    <2>2. Contract.owner = Writer /\ OwnerMayWrite(Contract.mode)
      BY <2>1 DEF MayAppend, Writer
    <2>3. Sound(Artefacts)
      BY <1>1, <1>4, <2>1, <2>2 DEF Sound, Contract
    <2> QED  BY <1>8, <2>1, <2>3
  <1> QED  BY <1>6, <1>7, <1>8

LEMMA VerdictNext ==
  ASSUME Typed, Phased, Answered, Remade, Turned, Verdict, [Next]_vars
  PROVE  Verdict'
  <1> USE DEF given, script, production, hostVars, disk, daemon, history
  <1>1. CASE UNCHANGED vars
    BY <1>1 DEF Verdict, vars, ProvedMeansSound, Artefacts, Contract, Reachable, Rendered, Sound
  <1> SUFFICES ASSUME Next PROVE Verdict'
    BY <1>1
  <1>2. /\ Artefacts' = Artefacts /\ Contract' = Contract /\ Reachable' = Reachable
        /\ Sound(Artefacts)' = Sound(Artefacts)
    BY GivenStays
  <1> DEFINE Meaning == \/ control = 0 /\ Sound(Artefacts) /\ Reachable
                        \/ control = 1 /\ Artefacts.tmpfiles.wide /\ Contract.group = Writer
  <1>3. None # "proved" /\ None # "failed" /\ None # "unfit" /\ None # 0
    BY RotationAssumption DEF RotationAssumption
  <1>4. control' = control => (Meaning' <=> Meaning)
    BY <1>2
  <1>5. ProvedMeansSound <=> (ended = "proved" => Meaning)
    BY DEF ProvedMeansSound
  <1>6. ProvedMeansSound' <=> (ended' = "proved" => Meaning')
    BY DEF ProvedMeansSound
  <1> HIDE DEF Meaning
  <1>7. ASSUME ended' \in {ended, None, "failed", "unfit"}, control' = control, exit' = exit,
               pc' = "host" => pc = "host"
        PROVE  Verdict'
    BY <1>2, <1>3, <1>4, <1>5, <1>6, <1>7 DEF Verdict
  <1>8. CASE Prepared \/ Started \/ SaidBefore \/ SaidAfter \/ Rotate \/ Return \/ Refuses \/ Unfit \/ Passes
    BY <1>7, <1>8 DEF Prepared, Started, SaidBefore, SaidAfter, Say, Step, Rotate, Return, Refuses, End,
                      Unfit, EndUnfit, Passes
  <1>9. CASE ExpectQuiet
    <2>1. pc = "quiet" /\ pc' = "ended" /\ UNCHANGED <<control, exit>> /\ ended' \in {"failed", "proved"}
      BY <1>9 DEF ExpectQuiet, End
    <2>2. Meaning
      BY <2>1, QuietIsSound DEF Meaning
    <2> QED  BY <1>2, <1>4, <1>6, <2>1, <2>2 DEF Verdict
  <1>10. CASE Main
    <2>1. /\ pc = "ended" /\ ended' = None /\ pc' \in {"prove", "done"}
          /\ \/ control = 0 /\ ended # "proved" /\ control' = control /\ exit' = 1
             \/ control = 0 /\ ended = "proved"
             \/ control > 0
      BY <1>10 DEF Main, GoOn, Leave
    <2>2. control \in 0 .. 4
      BY DEF Typed
    <2>3. control > 0 \/ ended = "proved" => Sound(Artefacts) /\ Reachable
      BY <1>5, <2>1, <2>2 DEF Verdict, Meaning
    <2>4. ProvedMeansSound'
      BY <1>3, <1>6, <2>1
    <2>5. control' > 0 \/ exit' = 0 \/ pc' = "host" => Sound(Artefacts) /\ Reachable
      BY <2>1, <2>2, <2>3
    <2> QED  BY <1>2, <2>4, <2>5 DEF Verdict
  <1>11. CASE Programs
    BY <1>7, <1>11, ProgramsLeave
  <1>12. CASE Deploy
    <2>1. exit = 0 /\ UNCHANGED <<control, ended, exit>>
      BY <1>12 DEF Deploy
    <2> QED  BY <1>2, <1>4, <1>5, <1>6, <2>1 DEF Verdict
  <1>13. CASE Boot \/ (\E m \in Traffic : Send(m)) \/ Timer \/ Restart \/ Remove
    BY <1>7, <1>13 DEF Boot, Send, Timer, Restart, Remove
  <1> QED  BY <1>8, <1>9, <1>10, <1>11, <1>12, <1>13, ProveSteps DEF Next, Production

-----------------------------------------------------------------------------
LEMMA ProvingInit == Init => Proving
  <1> SUFFICES ASSUME Init PROVE Proving
    OBVIOUS
  <1>1. /\ pc = "prove" /\ control = 0 /\ ended = None /\ exit = None /\ fd = None /\ queue = <<>>
        /\ hup = FALSE /\ lr = "idle" /\ writer = "off"
    BY DEF Init
  <1>2. None # "proved" /\ None # 0
    BY RotationAssumption DEF RotationAssumption
  <1>3. Typed
    <2>1. /\ name \in [Names -> Inodes \cup {None}] /\ name["target"] = None
          /\ DOMAIN inode = Inodes
      BY DEF Init, Names
    <2>2. \A i \in Inodes : /\ inode[i] = [own |-> inode[i].own, holds |-> inode[i].holds]
                            /\ inode[i].holds \subseteq Messages
      BY DEF Init, Blank
    <2>3. /\ archived = {} /\ written = {} /\ lost = {} /\ sent = {}
          /\ suspended = FALSE /\ hindered = FALSE
          /\ reference \in Bundles /\ Renderable(reference)
      BY DEF Init
    <2>4. control \in 0 .. 4
      BY <1>1
    <2> QED  BY <1>1, <2>1, <2>2, <2>3, <2>4, EmptyQueue DEF Typed, Pcs
  <1>4. Phased /\ Opened /\ Answered /\ Unreopened /\ Compressed /\ Remade /\ Turned
    BY <1>1 DEF Phased, Opened, Answered, Unreopened, Compressed, Remade, Turned, Still, Running,
                BeforeRotation, AfterRotation
  <1>5. Verdict
    BY <1>1, <1>2 DEF Verdict, ProvedMeansSound
  <1> QED  BY <1>3, <1>4, <1>5 DEF Proving

LEMMA ProvingNext == Proving /\ [Next]_vars => Proving'
  BY TypedNext, PhasedNext, OpenedNext, AnsweredNext, UnreopenedNext, CompressedNext, RemadeNext,
     TurnedNext, VerdictNext DEF Proving

\* Every variable has its type, and an inode that nothing leads to is always left.
THEOREM RotationTypes == Spec => []RotationTypeOK
  <1>1. Proving => RotationTypeOK
    BY TypedIsTypeOK DEF Proving
  <1> QED  BY <1>1, ProvingInit, ProvingNext, PTL DEF Spec

\* prove() accepts a contract only when its artefacts are sound and the machine can host it,
\* or, in the control without a file, when the writer could make the declared file itself.
THEOREM AcceptedMeansSound == Spec => []ProvedMeansSound
  <1>1. Proving => ProvedMeansSound
    BY DEF Proving, Verdict
  <1> QED  BY <1>1, ProvingInit, ProvingNext, PTL DEF Spec

-----------------------------------------------------------------------------
(* The production host. *)

LEMMA HostNext ==
  ASSUME Typed, Phased, Verdict, Host, [Next]_vars
  PROVE  Host'
  <1> USE DEF given, script, production, hostVars, disk, daemon, history
  <1>1. CASE UNCHANGED vars
    BY <1>1 DEF Host, vars
  <1> SUFFICES ASSUME Next PROVE Host'
    BY <1>1
  <1>2. renderer' = renderer
    BY GivenStays
  <1>3. CASE Deploy
    <2>1. writer = "off" /\ fd = None /\ queue = <<>>
      BY <1>3 DEF Deploy, Verdict, Phased, Still
    <2>2. conf' = UnderGlobal(Rendered(declared', renderer)) /\ UNCHANGED <<writer, fd, queue>>
      BY <1>3 DEF Deploy
    <2> QED  BY <1>2, <2>1, <2>2 DEF Host
  <1>4. CASE Boot \/ (\E m \in Traffic : Send(m)) \/ Timer \/ Restart \/ Remove
    BY <1>2, <1>4 DEF Host, Boot, Send, Timer, Restart, Remove
  <1>5. CASE Programs
    <2>1. UNCHANGED <<conf, given, script, production>>
      BY <1>5, ProgramsLeave
    <2>2. SUFFICES ASSUME pc = "host"
                   PROVE  writer' \in {"off", "on"} /\ (writer' = "off" => fd' = None /\ queue' = <<>>)
      BY <1>2, <2>1 DEF Host
    <2> QED  BY <1>5, <2>2, Delivers, LogrotateActs DEF Host, Programs, Reopen, SocketUp
  <1>6. CASE pc' # "host"
    BY <1>6 DEF Host
  <1>7. Prove \/ Main => pc' # "host"
    BY ProveSteps DEF Prepared, Started, SaidBefore, SaidAfter, Say, Step, Rotate, Return, Passes, Refuses, End, Unfit,
                      EndUnfit, ExpectQuiet, Main, GoOn, Leave
  <1> QED  BY <1>3, <1>4, <1>5, <1>6, <1>7 DEF Next, Production

\* What the verdict says of a host that is given what was proved.
LEMMA ProvedHost ==
  ASSUME Typed, Verdict, Host, Proved
  PROVE  /\ conf.tmpfiles.line # None /\ MayAppend(conf.tmpfiles.line, Writer)
         /\ MayAppend(conf.rsyslog, Writer)
         /\ conf.stanza.create /\ (conf.stanza.own # None => MayAppend(conf.stanza.own, Writer))
         /\ conf.stanza.notifempty /\ (conf.stanza.compress => conf.stanza.delaycompress)
  <1>1. Sound(Artefacts) /\ conf = UnderGlobal(Artefacts)
    BY DEF Host, Proved, Artefacts, Verdict
  <1>2. Contract # None /\ Contract.owner = Writer /\ OwnerMayWrite(Contract.mode)
    BY <1>1 DEF Sound, Contract
  <1>3. /\ Artefacts.rsyslog = [owner |-> Writer, group |-> Writer, mode |-> Contract.mode]
        /\ Artefacts.stanza.own \in {None, Contract} /\ Artefacts.stanza.create \in BOOLEAN
        /\ Artefacts.stanza.notifempty
    BY <1>2, ContractIs DEF Typed
  <1>4. MayAppend(Contract, Writer) /\ MayAppend(Artefacts.rsyslog, Writer)
    BY <1>2, <1>3 DEF MayAppend
  <1>5. conf = Artefacts
    <2>1. Artefacts = [tmpfiles |-> Artefacts.tmpfiles, stanza |-> Artefacts.stanza,
                       rsyslog |-> Artefacts.rsyslog]
      BY DEF Artefacts, Rendered
    <2>2. Artefacts.stanza = [create |-> Artefacts.stanza.create, own |-> Artefacts.stanza.own,
                              reopen |-> Artefacts.stanza.reopen,
                              notifempty |-> Artefacts.stanza.notifempty,
                              compress |-> Artefacts.stanza.compress,
                              delaycompress |-> Artefacts.stanza.delaycompress]
      BY DEF Artefacts, Rendered, Stanza
    <2>3. Artefacts.stanza.create = TRUE
      BY <1>1, <1>3 DEF Sound
    <2>4. [Artefacts.stanza EXCEPT !.create = TRUE] = Artefacts.stanza
      BY <2>2, <2>3
    <2>5. [Artefacts EXCEPT !.stanza.create = TRUE] = Artefacts
      BY <2>1, <2>4
    <2> QED  BY <1>1, <2>5 DEF UnderGlobal
  <1> QED  BY <1>1, <1>2, <1>3, <1>4, <1>5 DEF Contract, Sound

\* On the host, a step changes the verdict's bundle only by deploying one.
LEMMA ProvedStays ==
  ASSUME Next, pc' = "host", ~Deploy
  PROVE  pc = "host" /\ declared' = declared /\ (Proved' <=> Proved)
  <1> USE DEF given, script, production
  <1>1. Programs => pc' = pc /\ declared' = declared
    BY ProgramsLeave
  <1>2. Prove \/ Main => pc' # "host"
    BY ProveSteps DEF Prepared, Started, SaidBefore, SaidAfter, Say, Step, Rotate, Return, Passes, Refuses, End, Unfit,
                      EndUnfit, ExpectQuiet, Main, GoOn, Leave
  <1>3. pc = "host" /\ declared' = declared
    BY <1>1, <1>2 DEF Next, Production, Boot, Send, Timer, Restart, Remove
  <1> QED  BY <1>3, GivenStays DEF Proved

LEMMA CreatesAppendable ==
  ASSUME Typed, Verdict, Host, Proved, Appendable, Create
  PROVE  /\ name'["target"] # None /\ lr' = "created" /\ UNCHANGED writer
         /\ writer = "on" => MayAppend(inode'[name'["target"]].own, Writer)
  <1> DEFINE at == IF Exists("target") THEN name["target"] ELSE Fresh
             own == IF conf.stanza.own = None THEN Last.own ELSE conf.stanza.own
  <1>1. /\ name' = [name EXCEPT !["target"] = at]
        /\ inode' = [inode EXCEPT ![at] = [own |-> own, holds |-> Holds("target")]]
        /\ lr = "renamed" /\ lr' = "created" /\ UNCHANGED writer
    BY ProvedHost DEF Create, Recreate, Last, daemon
  <1>2. at \in Inodes
    BY FreshIsFresh DEF Typed, Exists, Names
  <1>3. writer = "on" => MayAppend(own, Writer)
    BY <1>1, ProvedHost DEF Appendable
  <1>4. None \notin Inodes /\ name \in [Names -> Inodes \cup {None}] /\ DOMAIN inode = Inodes
    BY RotationAssumption DEF RotationAssumption, Typed
  <1> HIDE DEF at, own
  <1>5. name'["target"] = at /\ inode'[at].own = own
    BY <1>1, <1>2, <1>4 DEF Names
  <1> QED  BY <1>1, <1>2, <1>3, <1>4, <1>5

LEMMA DeliveredAppendable ==
  ASSUME Typed, Verdict, Host, Proved, Appendable, writer = "on", NEW reach, Deliver(reach)
  PROVE  /\ name'["target"] # None => MayAppend(inode'[name'["target"]].own, Writer)
         /\ name'["target"] = None => name["target"] = None
         /\ lr = "renamed" => /\ name'["rotated"] # None
                              /\ MayAppend(inode'[name'["rotated"]].own, Writer)
  <1>1. /\ name["target"] # None => MayAppend(Target.own, Writer)
        /\ lr = "renamed" => name["rotated"] # None /\ MayAppend(Last.own, Writer)
    BY DEF Appendable
  <1>2. /\ None \notin Inodes /\ name \in [Names -> Inodes \cup {None}] /\ DOMAIN inode = Inodes
        /\ name["target"] \in Inodes \cup {None} /\ name["rotated"] \in Inodes \cup {None}
        /\ fd \in Inodes \cup {None}
    BY RotationAssumption DEF RotationAssumption, Typed, Names
  <1>3. ASSUME NEW i \in Inodes, NEW m, WriteTo(i, m)
        PROVE  name' = name /\ \A j \in Inodes : inode'[j].own = inode[j].own
    <2>1. /\ name' = name
          /\ inode'[i] = [own |-> inode[i].own, holds |-> inode[i].holds \cup {m}]
          /\ \A j \in Inodes : j # i => inode'[j] = inode[j]
      BY <1>3, Writes
    <2>2. inode'[i].own = inode[i].own
      BY <2>1
    <2> QED  BY <2>1, <2>2
  <1>4. CASE fd # None /\ WriteTo(fd, Head(queue))
    BY <1>1, <1>2, <1>3, <1>4 DEF Target, Last
  <1>5. CASE fd = None /\ Openable(reach) /\ WriteTo(name["target"], Head(queue))
    BY <1>1, <1>2, <1>3, <1>5 DEF Target, Last, Openable, Exists
  <1>6. CASE fd = None /\ CreateAndWrite(Head(queue))
    <2>1. /\ name' = [name EXCEPT !["target"] = Fresh]
          /\ inode' = [inode EXCEPT ![Fresh] = [own |-> conf.rsyslog, holds |-> {Head(queue)}]]
      BY <1>6 DEF CreateAndWrite
    <2>2. /\ name'["target"] = Fresh /\ name'["rotated"] = name["rotated"]
          /\ inode'[Fresh].own = conf.rsyslog
          /\ name["rotated"] \in Inodes => inode'[name["rotated"]] = Last
      BY <1>2, <2>1, FreshIsFresh DEF Names, Last
    <2>3. MayAppend(conf.rsyslog, Writer)
      BY ProvedHost
    <2> QED  BY <1>1, <1>2, <2>2, <2>3, FreshIsFresh
  <1>7. CASE Discard(Head(queue))
    BY <1>1, <1>7 DEF Discard, Target, Last
  <1> QED  BY <1>4, <1>5, <1>6, <1>7, Delivers

LEMMA AppendableNext ==
  ASSUME Typed, Phased, Verdict, Host, Appendable, [Next]_vars
  PROVE  Appendable'
  <1> USE DEF given, script, production, hostVars, disk, daemon, history
  <1>1. CASE UNCHANGED vars
    BY <1>1 DEF Appendable, Proved, Target, Last, vars
  <1> SUFFICES ASSUME Next, Proved' PROVE Appendable'
    BY <1>1 DEF Appendable
  <1>2. CASE Deploy
    <2>1. writer = "off" /\ lr = "idle" /\ UNCHANGED <<writer, lr>>
      BY <1>2 DEF Deploy, Verdict, Phased, Still
    <2> QED  BY <2>1 DEF Appendable
  <1> SUFFICES ASSUME ~Deploy PROVE Appendable'
    BY <1>2
  <1>3. Proved /\ pc = "host"
    BY ProvedStays DEF Proved
  <1>4. /\ lr # "signalled"
        /\ writer = "on" => /\ name["target"] # None => MayAppend(Target.own, Writer)
                            /\ name["target"] = None => gone \/ lr = "renamed"
        /\ lr = "renamed" => name["rotated"] # None /\ (writer = "on" => MayAppend(Last.own, Writer))
    BY <1>3 DEF Appendable
  <1>5. name \in [Names -> Inodes \cup {None}] /\ DOMAIN inode = Inodes
    BY DEF Typed
  <1>6. CASE Boot
    <2> DEFINE at == IF Exists("target") THEN name["target"] ELSE Fresh
    <2>1. conf.tmpfiles.line # None /\ MayAppend(conf.tmpfiles.line, Writer)
      BY <1>3, ProvedHost
    <2>2. /\ name' = [name EXCEPT !["target"] = at]
          /\ inode' = [inode EXCEPT ![at] = [own |-> conf.tmpfiles.line, holds |-> Holds("target")]]
          /\ lr' = "idle"
      BY <1>6, <2>1 DEF Boot
    <2>3. at \in Inodes /\ None \notin Inodes
      BY FreshIsFresh, RotationAssumption DEF RotationAssumption, Typed, Exists, Names
    <2> HIDE DEF at
    <2>4. name'["target"] = at /\ inode'[at].own = conf.tmpfiles.line
      BY <1>5, <2>2, <2>3 DEF Names
    <2> QED  BY <2>1, <2>2, <2>3, <2>4 DEF Appendable, Target
  <1>7. CASE Remove
    <2>1. /\ name'["target"] = None /\ name'["rotated"] = name["rotated"] /\ gone' = TRUE
          /\ UNCHANGED <<inode, lr, writer>>
      BY <1>5, <1>7 DEF Remove, Names
    <2> QED  BY <1>4, <2>1 DEF Appendable, Last
  <1>8. CASE (\E m \in Traffic : Send(m)) \/ Restart
    BY <1>4, <1>8 DEF Send, Restart, Appendable, Target, Last
  <1>9. CASE Timer
    BY <1>4, <1>9 DEF Timer, Appendable, Target, Last
  <1>10. CASE Programs
    <2>1. UNCHANGED <<conf, given, script, production>>
      BY <1>10, ProgramsLeave
    <2>2. gone' = gone
      BY <2>1
    <2>3. CASE Deliver(pc = "host" \/ Reachable)
      <3>1. writer = "on" /\ UNCHANGED <<writer, lr>>
        BY <2>3, Delivers
      <3>2. /\ name'["target"] # None => MayAppend(inode'[name'["target"]].own, Writer)
            /\ name'["target"] = None => name["target"] = None
            /\ lr = "renamed" => /\ name'["rotated"] # None
                                 /\ MayAppend(inode'[name'["rotated"]].own, Writer)
        BY <1>3, <2>3, <3>1, DeliveredAppendable
      <3> QED  BY <1>4, <2>2, <3>1, <3>2 DEF Appendable, Target, Last
    <2>4. CASE Reopen \/ SocketUp
      BY <1>3, <1>4, <2>2, <2>4 DEF Reopen, SocketUp, Appendable, Target, Last, Host
    <2>5. CASE Skip
      BY <1>4, <2>2, <2>5 DEF Skip, Appendable, Target, Last
    <2>6. CASE Rename
      <3>1. /\ name["target"] # None /\ name'["target"] = None /\ name'["rotated"] = name["target"]
            /\ lr' = "renamed" /\ UNCHANGED <<inode, writer>>
        BY <1>5, <2>6 DEF Rename, Exists, Names
      <3> QED  BY <1>4, <3>1 DEF Appendable, Target, Last
    <2>7. CASE Create
      BY <1>3, <2>7, CreatesAppendable DEF Appendable, Target
    <2>8. CASE PostRotate
      <3>1. conf.stanza.compress => conf.stanza.delaycompress
        BY <1>3, ProvedHost
      <3>2. lr = "created" /\ lr' = "idle" /\ UNCHANGED <<name, inode, writer>>
        BY <2>8, <3>1 DEF PostRotate
      <3> QED  BY <1>4, <2>2, <3>2 DEF Appendable, Target
    <2>9. CASE Compress
      BY <1>4, <2>9 DEF Compress
    <2> QED  BY <1>10, <2>3, <2>4, <2>5, <2>6, <2>7, <2>8, <2>9 DEF Programs, Logrotate
  <1>11. Prove \/ Main => pc' # "host"
    BY ProveSteps DEF Prepared, Started, SaidBefore, SaidAfter, Say, Step, Rotate, Return, Passes, Refuses, End, Unfit,
                      EndUnfit, ExpectQuiet, Main, GoOn, Leave
  <1> QED  BY <1>6, <1>7, <1>8, <1>9, <1>10, <1>11 DEF Next, Production, Proved

LEMMA FollowedDeliver ==
  ASSUME Typed, Followed, Proved, ~removed, NEW reach, Deliver(reach)
  PROVE  /\ written' \subseteq Kept'
         /\ fd' # None => /\ fd' \in {name'["target"], name'["rotated"]}
                          /\ fd' = name'["rotated"] /\ name'["target"] # None =>
                               inode'[name'["target"]].holds = {}
  <1>1. /\ written \subseteq Kept
        /\ fd # None => /\ fd \in {name["target"], name["rotated"]}
                        /\ fd = name["rotated"] /\ name["target"] # None => Target.holds = {}
    BY DEF Followed, EveryWrittenMessageIsKept, Proved
  <1>2. /\ None \notin Inodes /\ name \in [Names -> Inodes \cup {None}] /\ DOMAIN inode = Inodes
        /\ name["target"] \in Inodes \cup {None} /\ name["rotated"] \in Inodes \cup {None}
        /\ fd \in Inodes \cup {None} /\ (name["target"] # None => name["target"] # name["rotated"])
    BY RotationAssumption DEF RotationAssumption, Typed, Names
  <1>3. archived' = archived
    BY Delivers
  <1>4. ASSUME NEW i \in Inodes, NEW m, WriteTo(i, m), i \in {name["target"], name["rotated"]},
               i = name["rotated"] /\ name["target"] # None => Target.holds = {}
        PROVE  /\ written' \subseteq Kept' /\ fd' = i /\ name' = name
               /\ i = name["rotated"] /\ name["target"] # None => inode'[name["target"]].holds = {}
    <2>1. /\ name' = name /\ fd' = i /\ written' = written \cup {m}
          /\ inode'[i] = [own |-> inode[i].own, holds |-> inode[i].holds \cup {m}]
          /\ \A j \in Inodes : j # i => inode'[j] = inode[j]
      BY <1>4, Writes
    <2>2. inode'[i].holds = inode[i].holds \cup {m}
      BY <2>1
    <2>3. Kept \cup {m} \subseteq Kept'
      BY <1>2, <1>3, <1>4, <2>1, <2>2 DEF Kept, Holds, Exists
    <2>4. i = name["rotated"] /\ name["target"] # None => inode'[name["target"]] = Target
      BY <1>2, <2>1 DEF Target
    <2> QED  BY <1>1, <1>4, <2>1, <2>3, <2>4
  <1>5. CASE fd # None /\ WriteTo(fd, Head(queue))
    BY <1>1, <1>2, <1>4, <1>5
  <1>6. CASE fd = None /\ Openable(reach) /\ WriteTo(name["target"], Head(queue))
    BY <1>1, <1>2, <1>4, <1>6 DEF Openable, Exists
  <1>7. CASE fd = None /\ Creatable(reach) /\ CreateAndWrite(Head(queue))
    <2>1. /\ name' = [name EXCEPT !["target"] = Fresh] /\ fd' = Fresh
          /\ inode' = [inode EXCEPT ![Fresh] = [own |-> conf.rsyslog, holds |-> {Head(queue)}]]
          /\ written' = written \cup {Head(queue)} /\ name["target"] = None
      BY <1>7 DEF CreateAndWrite, Creatable, Exists
    <2>2. /\ name'["target"] = Fresh /\ name'["rotated"] = name["rotated"]
          /\ inode'[Fresh].holds = {Head(queue)}
          /\ \A j \in Inodes : j # Fresh => inode'[j] = inode[j]
      BY <1>2, <2>1, FreshIsFresh DEF Names
    <2>3. Kept \cup {Head(queue)} \subseteq Kept'
      BY <1>2, <1>3, <2>1, <2>2, FreshIsFresh DEF Kept, Holds, Exists
    <2> QED  BY <1>1, <2>1, <2>2, <2>3, FreshIsFresh
  <1>8. CASE fd = None /\ Discard(Head(queue))
    <2>1. UNCHANGED <<name, inode, fd, written>>
      BY <1>8 DEF Discard
    <2>2. Kept' = Kept
      BY <1>3, <2>1 DEF Kept, Holds, Exists
    <2> QED  BY <1>1, <1>8, <2>1, <2>2
  <1> QED  BY <1>5, <1>6, <1>7, <1>8, Delivers

\* A step that gives mail.log a file, an old one or a fresh one, keeps what is kept.
LEMMA KeptByTarget ==
  ASSUME Typed, NEW at, at = IF Exists("target") THEN name["target"] ELSE Fresh, NEW own,
         name' = [name EXCEPT !["target"] = at],
         inode' = [inode EXCEPT ![at] = [own |-> own, holds |-> Holds("target")]],
         archived' = archived
  PROVE  /\ Kept' = Kept
         /\ name'["target"] = at /\ name'["rotated"] = name["rotated"] /\ at \in Inodes
         /\ inode'[at].holds = Holds("target")
  <1>1. /\ None \notin Inodes /\ name \in [Names -> Inodes \cup {None}] /\ DOMAIN inode = Inodes
        /\ name["target"] \in Inodes \cup {None} /\ name["rotated"] \in Inodes \cup {None}
        /\ (name["target"] # None => name["target"] # name["rotated"])
    BY RotationAssumption DEF RotationAssumption, Typed, Names
  <1>2. at \in Inodes /\ at # name["rotated"]
    BY <1>1, FreshIsFresh DEF Exists
  <1>3. /\ name'["target"] = at /\ name'["rotated"] = name["rotated"]
        /\ inode'[at].holds = Holds("target")
        /\ \A j \in Inodes : j # at => inode'[j] = inode[j]
    BY <1>1, <1>2 DEF Names
  <1>4. Holds("target")' = Holds("target")
    BY <1>1, <1>2, <1>3 DEF Holds, Exists
  <1>5. Holds("rotated")' = Holds("rotated")
    BY <1>1, <1>2, <1>3 DEF Holds, Exists
  <1> QED  BY <1>2, <1>3, <1>4, <1>5 DEF Kept

LEMMA FollowedLogrotate ==
  ASSUME Typed, Verdict, Host, Appendable, Followed, Proved, ~removed, Logrotate
  PROVE  /\ written' \subseteq Kept'
         /\ fd' # None => /\ fd' \in {name'["target"], name'["rotated"]}
                          /\ fd' = name'["rotated"] /\ name'["target"] # None =>
                               inode'[name'["target"]].holds = {}
  <1> USE DEF disk, daemon, history
  <1>1. /\ written \subseteq Kept
        /\ fd # None => /\ fd \in {name["target"], name["rotated"]}
                        /\ fd = name["rotated"] /\ name["target"] # None => Target.holds = {}
    BY DEF Followed, EveryWrittenMessageIsKept, Proved
  <1>2. /\ None \notin Inodes /\ name \in [Names -> Inodes \cup {None}] /\ DOMAIN inode = Inodes
        /\ name["target"] \in Inodes \cup {None} /\ name["rotated"] \in Inodes \cup {None}
        /\ fd \in Inodes \cup {None}
    BY RotationAssumption DEF RotationAssumption, Typed, Names
  <1>3. fd' = fd /\ written' = written
    BY LogrotateActs
  <1>4. CASE Skip \/ PostRotate
    <2>1. UNCHANGED <<name, inode, archived>>
      BY <1>4 DEF Skip, PostRotate
    <2>2. Kept' = Kept
      BY <2>1 DEF Kept, Holds, Exists
    <2> QED  BY <1>1, <1>3, <2>1, <2>2 DEF Target
  <1>5. CASE Rename
    <2>1. /\ name["target"] # None /\ Holds("target") # {}
          /\ archived' = archived \cup Holds("rotated")
          /\ name'["target"] = None /\ name'["rotated"] = name["target"] /\ inode' = inode
      BY <1>2, <1>5, ProvedHost DEF Rename, Exists, Names
    <2>2. Target.holds # {}
      BY <2>1 DEF Holds, Exists, Target
    <2>3. fd # None => fd = name["target"]
      BY <1>1, <2>1, <2>2
    <2>4. Kept' = Kept
      BY <2>1 DEF Kept, Holds, Exists
    <2> QED  BY <1>1, <1>3, <2>1, <2>3, <2>4
  <1>6. CASE Create
    <2> DEFINE at == IF Exists("target") THEN name["target"] ELSE Fresh
               own == IF conf.stanza.own = None THEN inode[name["rotated"]].own
                      ELSE conf.stanza.own
    <2>1. /\ name' = [name EXCEPT !["target"] = at]
          /\ inode' = [inode EXCEPT ![at] = [own |-> own, holds |-> Holds("target")]]
          /\ archived' = archived
      BY <1>6, ProvedHost DEF Create, Recreate
    <2>2. /\ Kept' = Kept /\ name'["target"] = at /\ name'["rotated"] = name["rotated"]
          /\ inode'[at].holds = Holds("target")
      <3> HIDE DEF own
      <3> QED  BY <2>1, KeptByTarget
    <2>3. /\ name["target"] # None => at = name["target"] /\ Holds("target") = Target.holds
          /\ name["target"] = None => Holds("target") = {}
      BY DEF Exists, Holds, Target
    <2> HIDE DEF at, own
    <2> QED  BY <1>1, <1>3, <2>2, <2>3
  <1>7. CASE Compress
    BY <1>7 DEF Compress, Appendable
  <1> QED  BY <1>4, <1>5, <1>6, <1>7 DEF Logrotate

LEMMA FollowedNext ==
  ASSUME Typed, Phased, Verdict, Host, Appendable, Followed, [Next]_vars
  PROVE  Followed'
  <1> USE DEF given, script, production, hostVars, disk, daemon, history
  <1>1. CASE UNCHANGED vars
    BY <1>1 DEF Followed, EveryWrittenMessageIsKept, Proved, Target, Kept, Holds, Exists, vars
  <1>2. ASSUME Proved' /\ ~removed' =>
                 /\ written' \subseteq Kept'
                 /\ fd' # None => /\ fd' \in {name'["target"], name'["rotated"]}
                                  /\ fd' = name'["rotated"] /\ name'["target"] # None =>
                                       inode'[name'["target"]].holds = {}
        PROVE  Followed'
    BY <1>2 DEF Followed, EveryWrittenMessageIsKept, Proved, Target
  <1> SUFFICES ASSUME Next, Proved', ~removed' PROVE Followed'
    BY <1>1, <1>2
  <1>3. CASE Deploy
    BY <1>2, <1>3 DEF Deploy, Verdict, Phased, Still
  <1> SUFFICES ASSUME ~Deploy PROVE Followed'
    BY <1>3
  <1>4. Proved /\ pc = "host"
    BY ProvedStays DEF Proved
  <1>5. CASE Remove
    BY <1>5 DEF Remove
  <1> SUFFICES ASSUME ~Remove PROVE Followed'
    BY <1>5
  <1>6. Prove \/ Main => pc' # "host"
    BY ProveSteps DEF Prepared, Started, SaidBefore, SaidAfter, Say, Step, Rotate, Return, Passes, Refuses, End, Unfit,
                      EndUnfit, ExpectQuiet, Main, GoOn, Leave
  <1>7. Programs \/ Boot \/ (\E m \in Traffic : Send(m)) \/ Timer \/ Restart
    BY <1>6 DEF Next, Production, Proved
  <1>8. ~removed
    BY <1>7, ProgramsLeave DEF Boot, Send, Timer, Restart
  <1>9. /\ written \subseteq Kept
        /\ fd # None => /\ fd \in {name["target"], name["rotated"]}
                        /\ fd = name["rotated"] /\ name["target"] # None => Target.holds = {}
    BY <1>4, <1>8 DEF Followed, EveryWrittenMessageIsKept, Proved
  <1>10. CASE Boot
    <2> DEFINE at == IF Exists("target") THEN name["target"] ELSE Fresh
    <2>1. conf.tmpfiles.line # None
      BY <1>4, ProvedHost
    <2>2. /\ name' = [name EXCEPT !["target"] = at]
          /\ inode' = [inode EXCEPT ![at] = [own |-> conf.tmpfiles.line, holds |-> Holds("target")]]
          /\ fd' = None /\ UNCHANGED <<archived, written>>
      BY <1>10, <2>1 DEF Boot
    <2>3. Kept' = Kept
      BY <2>2, KeptByTarget
    <2> QED  BY <1>2, <1>9, <2>2, <2>3
  <1>11. CASE Deliver(pc = "host" \/ Reachable)
    BY <1>2, <1>4, <1>8, <1>11, FollowedDeliver
  <1>12. CASE Logrotate
    BY <1>2, <1>4, <1>8, <1>12, FollowedLogrotate
  <1>13. CASE Reopen \/ SocketUp \/ (\E m \in Traffic : Send(m)) \/ Timer \/ Restart
    <2>1. UNCHANGED <<name, inode, archived, written>> /\ fd' \in {fd, None}
      BY <1>13 DEF Reopen, SocketUp, Send, Timer, Restart
    <2>2. Kept' = Kept
      BY <2>1 DEF Kept, Holds, Exists
    <2> QED  BY <1>2, <1>9, <2>1, <2>2 DEF Target
  <1> QED  BY <1>7, <1>10, <1>11, <1>12, <1>13 DEF Programs

LEMMA HostInit == Init => HostInv
  BY DEF Init, HostInv, Host, Appendable, Followed, EveryWrittenMessageIsKept, Proved

LEMMA HostInvNext == Proving /\ HostInv /\ [Next]_vars => HostInv'
  BY HostNext, AppendableNext, FollowedNext DEF Proving, HostInv

\* On a host that got what was proved and whose file nobody removed, what the writer wrote is in
\* mail.log or in a rotation: it never writes on into an inode that a second rotation unlinked.
THEOREM WrittenIsKept == Spec => []EveryWrittenMessageIsKept
  <1>1. HostInv => EveryWrittenMessageIsKept
    BY DEF HostInv, Followed
  <1> QED  BY <1>1, ProvingInit, ProvingNext, HostInit, HostInvNext, PTL DEF Spec

LEMMA DiscardStep ==
  Proving /\ HostInv /\ [Next]_vars =>
    [pc = "host" /\ writer = "on" /\ declared = reference /\ lost' # lost =>
       ~Exists("target") /\ (gone \/ lr = "renamed")]_vars
  <1> SUFFICES ASSUME Proving, HostInv, Next, pc = "host", writer = "on", declared = reference,
                      lost' # lost
               PROVE  ~Exists("target") /\ (gone \/ lr = "renamed")
    OBVIOUS
  <1> USE DEF given, script, production, hostVars, disk, daemon, history
  <1>1. /\ name["target"] # None => MayAppend(Target.own, Writer)
        /\ name["target"] = None => gone \/ lr = "renamed"
    BY DEF HostInv, Appendable, Proved
  <1>2. ~Prove /\ ~Main /\ ~Deploy
    BY ProveSteps DEF Prepared, Started, SaidBefore, SaidAfter, Say, Step, Rotate, Return, Passes, Refuses, End, Unfit,
                      EndUnfit, ExpectQuiet, Main, Deploy, Running, BeforeRotation, AfterRotation
  <1>3. Programs
    BY <1>2 DEF Next, Production, Boot, Send, Timer, Restart, Remove
  <1>4. Deliver(pc = "host" \/ Reachable)
    BY <1>3, LogrotateActs DEF Programs, Reopen, SocketUp
  <1>5. fd = None /\ ~Openable(pc = "host" \/ Reachable)
    BY <1>4, Delivers DEF WriteTo, CreateAndWrite
  <1> QED  BY <1>1, <1>5 DEF Openable, Exists, Target

\* On such a host the writer discards a message only while it has no file: between a rename and a
\* creation, or because somebody removed it since the last boot.
THEOREM DiscardsWithoutFile == Spec => DiscardsOnlyWithoutFile
  <1> QED  BY ProvingInit, ProvingNext, HostInit, HostInvNext, DiscardStep, PTL DEF Spec, DiscardsOnlyWithoutFile

-----------------------------------------------------------------------------
(* The positive control of a sound contract. *)

\* While it runs, no step but its first makes it fit.
LEMMA FitStays ==
  ASSUME Typed, Next, Fit', pc' \in Running, ~Prepared
  PROVE  Fit /\ pc \in Running /\ control = 0
  <1> USE DEF given, script, production
  <1>1. Sound(Artefacts)' = Sound(Artefacts) /\ Reachable' = Reachable
    BY GivenStays
  <1>2. hindered' = FALSE /\ control' = 0 /\ Sound(Artefacts) /\ Reachable /\ hindered \in BOOLEAN
    BY <1>1 DEF Fit, Typed
  <1>3. SUFFICES control' = control /\ pc \in Running /\ (hindered => hindered')
    BY <1>2 DEF Fit
  <1>4. CASE Started \/ SaidBefore \/ SaidAfter \/ Rotate \/ Return \/ Passes
    BY <1>2, <1>4 DEF Started, SaidBefore, SaidAfter, Say, Step, Rotate, Return, Passes, Running,
                      BeforeRotation, AfterRotation
  <1>5. CASE Programs
    BY <1>5, ProgramsLeave
  <1>6. CASE Refuses \/ Unfit \/ ExpectQuiet \/ Production
    BY <1>6 DEF Refuses, End, Unfit, EndUnfit, ExpectQuiet, Production, Deploy, Boot, Send, Timer,
                Restart, Remove, Running, BeforeRotation, AfterRotation
  <1>7. CASE Main
    BY <1>7 DEF Main, GoOn, Leave, Running, BeforeRotation, AfterRotation
  <1> QED  BY <1>4, <1>5, <1>6, <1>7, ProveSteps DEF Next

LEMMA FitFacts ==
  ASSUME Typed, Phased, Fit, pc \in Running
  PROVE  /\ Reachable /\ MayAppend(Contract, Writer) /\ PreparedAs(Sabotage[control]) = Contract
         /\ Contract.owner = Writer /\ OwnerMayWrite(Contract.mode)
         /\ conf.stanza.own \in {None, Contract} /\ conf.stanza.create /\ conf.stanza.reopen
         /\ conf.stanza.compress => conf.stanza.delaycompress
  <1>1. /\ control = 0 /\ Reachable /\ Sound(Artefacts) /\ Contract # None /\ conf = Artefacts
    BY DEF Fit, Phased
  <1>2. /\ Contract = [owner |-> Contract.owner, group |-> Contract.group, mode |-> Contract.mode]
        /\ Artefacts.stanza.own \in {None, Contract}
    BY <1>1, ContractIs DEF Typed
  <1>3. Contract.owner = Writer /\ OwnerMayWrite(Contract.mode)
    BY <1>1 DEF Sound, Contract
  <1>4. MayAppend(Contract, Writer)
    BY <1>3 DEF MayAppend
  <1>5. PreparedAs(Sabotage[control]) = Contract
    BY <1>1, <1>2, PreparedIs
  <1> QED  BY <1>1, <1>2, <1>3, <1>4, <1>5 DEF Sound

\* It delivers only what the script logs, and always into mail.log.
LEMMA FitDelivers ==
  ASSUME Typed, Phased, Opened, Smooth, Fit, pc \in Running, NEW reach, Reachable => reach, Deliver(reach)
  PROVE  \E m \in {CanaryBefore, CanaryAfter} :
           /\ queue = <<m>> /\ queue' = <<>> /\ name["target"] \in Inodes
           /\ WriteTo(name["target"], m)
           /\ UNCHANGED <<archived, conf, writer, hup, lr>>
           /\ \/ pc = "see before" /\ m = CanaryBefore
              \/ pc = "see after" /\ m = CanaryAfter
  <1>1. queue # <<>> /\ queue' = Tail(queue) /\ UNCHANGED <<archived, conf, writer, hup, lr>>
    BY Delivers
  <1>2. pc \in {"see before", "see after"}
    BY <1>1 DEF Smooth, Answering, Rotating, Settled, Phased, Still, Running, BeforeRotation, AfterRotation
  <1>3. PICK m \in {CanaryBefore, CanaryAfter} :
          /\ queue = <<m>>
          /\ \/ pc = "see before" /\ m = CanaryBefore
             \/ pc = "see after" /\ m = CanaryAfter
    BY <1>1, <1>2 DEF Smooth, Answering, Settled, Running, BeforeRotation, AfterRotation
  <1>4. name["target"] # None /\ Target.own = Contract /\ (fd # None => fd = name["target"])
    <2>1. CASE pc = "see before"
      <3>1. control = 0
        BY DEF Fit
      <3>2. /\ name["target"] # None /\ Target.own = PreparedAs(Sabotage[control])
            /\ fd # None => fd = name["target"]
        <4>1. pc \in BeforeRotation
          BY <2>1 DEF BeforeRotation
        <4>2. control # 1 => name["target"] # None /\ Target.own = PreparedAs(Sabotage[control])
          BY <4>1 DEF Opened
        <4>3. fd # None => fd = name["target"]
          BY <4>1 DEF Opened
        <4> QED  BY <3>1, <4>2, <4>3
      <3> QED  BY <3>2, FitFacts
    <2>2. CASE pc = "see after"
      BY <2>2 DEF Smooth, Settled, AfterRotation
    <2> QED  BY <1>2, <2>1, <2>2
  <1>5. name["target"] \in Inodes
    BY <1>4 DEF Typed, Names
  <1>6. fd = None => Openable(reach)
    BY <1>4, FitFacts DEF Openable, Exists, Target
  <1>7. Head(queue) = m /\ Tail(queue) = <<>>
    <2>1. queue = <<m>>
      BY <1>3
    <2>2. Head(<<m>>) = m /\ Tail(<<m>>) = <<>>
      OBVIOUS
    <2> QED  BY <2>1, <2>2
  <1>8. WriteTo(name["target"], m)
    BY <1>4, <1>6, <1>7, Delivers DEF Creatable, Exists
  <1> QED  BY <1>1, <1>3, <1>5, <1>7, <1>8

LEMMA FitSteps ==
  ASSUME Next, pc' \in Running
  PROVE  Prepared \/ Started \/ SaidBefore \/ SaidAfter \/ Rotate \/ Return \/ Passes \/ Programs
  <1>1. {"prove", "ended", "done", "host"} \cap Running = {}
    BY DEF Running, BeforeRotation, AfterRotation
  <1>2. Refuses \/ Unfit \/ ExpectQuiet => pc' = "ended"
    BY DEF Refuses, End, Unfit, EndUnfit, ExpectQuiet
  <1>3. Main => pc' \in {"prove", "done"}
    BY DEF Main, GoOn, Leave
  <1>4. Production => pc' = "host"
    BY DEF Production, Deploy, Boot, Send, Timer, Restart, Remove, script
  <1> QED  BY <1>1, <1>2, <1>3, <1>4, ProveSteps DEF Next

LEMMA FreshTreeIsEmpty ==
  ASSUME Prepared
  PROVE  suspended' = FALSE /\ \A i \in Inodes : inode'[i].holds = {}
  BY DEF Prepared, FreshTree, Blank

LEMMA Canaries == CanaryBefore # CanaryAfter
  BY DEF CanaryBefore, CanaryAfter

\* logrotate moves messages, it writes none.
LEMMA LogrotateWritesNothing ==
  ASSUME Typed, Logrotate, NEW m, \A i \in Inodes : m \notin inode[i].holds
  PROVE  \A i \in Inodes : m \notin inode'[i].holds
  <1> USE DEF disk
  <1>1. CASE Create
    <2> DEFINE at == IF Exists("target") THEN name["target"] ELSE Fresh
               own == IF conf.stanza.own = None THEN inode[name["rotated"]].own
                      ELSE conf.stanza.own
    <2>1. \/ inode' = [inode EXCEPT ![at] = [own |-> own, holds |-> Holds("target")]]
          \/ inode' = inode
      BY <1>1 DEF Create, Recreate
    <2>2. at \in Inodes /\ m \notin Holds("target") /\ DOMAIN inode = Inodes
      BY FreshIsFresh DEF Typed, Exists, Holds, Names
    <2> HIDE DEF at, own
    <2> QED  BY <2>1, <2>2
  <1>2. CASE Skip \/ Rename \/ PostRotate \/ Compress
    BY <1>2 DEF Skip, Rename, PostRotate, Compress
  <1> QED  BY <1>1, <1>2 DEF Logrotate

LEMMA AnsweringNext ==
  ASSUME Typed, Phased, Opened, Smooth, [Next]_vars
  PROVE  Answering'
  <1> USE DEF given, script, production, hostVars, disk, daemon, history
  <1>1. CASE UNCHANGED vars
    BY <1>1 DEF Smooth, Answering, Fit, Target, Artefacts, Rendered, Reachable, Sound, vars
  <1> SUFFICES ASSUME Next, Fit', pc' \in Running
               PROVE  /\ suspended' = FALSE
                      /\ pc' = "socket" => writer' \in {"starting", "on"}
                      /\ pc' \notin {"probe", "start", "socket"} => writer' = "on"
                      /\ pc' \in {"socket", "log before"} => fd' = None /\ queue' = <<>>
                      /\ pc' \in {"probe", "start", "socket", "log before"} =>
                           \A i \in Inodes : inode'[i].holds = {}
                      /\ pc' = "see before" =>
                           \/ queue' = <<CanaryBefore>> /\ \A i \in Inodes : inode'[i].holds = {}
                           \/ queue' = <<>> /\ CanaryBefore \in Target'.holds
                      /\ pc' \in {"own before", "rotate"} =>
                           queue' = <<>> /\ CanaryBefore \in Target'.holds
                      /\ pc' \notin {"see after", "absent", "quiet"} =>
                           \A i \in Inodes : CanaryAfter \notin inode'[i].holds
    BY <1>1 DEF Answering
  <1>2. CASE Prepared
    BY <1>2, FreshTreeIsEmpty DEF Prepared
  <1> SUFFICES ASSUME ~Prepared PROVE Answering'
    BY <1>2 DEF Answering
  <1>3. /\ Fit /\ pc \in Running
        /\ suspended = FALSE
        /\ pc = "socket" => writer \in {"starting", "on"}
        /\ pc \notin {"probe", "start", "socket"} => writer = "on"
        /\ pc \in {"socket", "log before"} => fd = None /\ queue = <<>>
        /\ pc \in {"probe", "start", "socket", "log before"} => \A i \in Inodes : inode[i].holds = {}
        /\ pc = "see before" => \/ queue = <<CanaryBefore>> /\ \A i \in Inodes : inode[i].holds = {}
                                \/ queue = <<>> /\ CanaryBefore \in Target.holds
        /\ pc \in {"own before", "rotate"} => queue = <<>> /\ CanaryBefore \in Target.holds
        /\ pc \notin {"see after", "absent", "quiet"} =>
             \A i \in Inodes : CanaryAfter \notin inode[i].holds
    BY FitStays DEF Smooth, Answering
  <1>4. CASE Started
    <2>1. fd = None /\ queue = <<>>
      BY <1>4 DEF Started, Step, Phased, Still
    <2> QED  BY <1>3, <1>4, <2>1 DEF Started, Step, Answering
  <1>5. CASE SaidBefore
    <2>1. pc = "log before" /\ pc' = "see before" /\ queue' = <<CanaryBefore>>
          /\ UNCHANGED <<inode, writer, suspended>>
      <3>1. Append(<<>>, CanaryBefore) = <<CanaryBefore>>
        OBVIOUS
      <3> QED  BY <1>3, <1>5, <3>1 DEF SaidBefore, Say, Step, Receive
    <2> QED  BY <1>3, <2>1 DEF Answering
  <1>6. CASE SaidAfter
    BY <1>3, <1>6 DEF SaidAfter, Say, Step, Answering
  <1>7. CASE Rotate
    BY <1>3, <1>7 DEF Rotate, Step, Answering
  <1>8. CASE Return
    BY <1>3, <1>8 DEF Return, Answering
  <1>9. CASE Passes
    <2>1. UNCHANGED <<name, inode, writer, fd, queue, suspended>>
      BY <1>9 DEF Passes
    <2>2. CASE pc = "see before" /\ CanaryBefore \in Holds("target") /\ pc' = "own before"
      <3>1. name["target"] \in Inodes /\ CanaryBefore \in Target.holds
        BY <2>2 DEF Holds, Exists, Target, Typed, Names
      <3>2. queue = <<>>
        BY <1>3, <2>2, <3>1 DEF Target
      <3> QED  BY <1>3, <2>1, <2>2, <3>1, <3>2 DEF Answering, Target
    <2>3. CASE \/ pc = "probe" /\ pc' = "start"
               \/ pc = "socket" /\ writer = "on" /\ pc' = "log before"
               \/ pc = "own before" /\ pc' = "rotate"
      BY <1>3, <2>1, <2>3 DEF Answering, Target
    <2>4. CASE \/ pc = "moved" /\ pc' = "see moved"
               \/ pc = "see moved" /\ pc' = "recreated"
               \/ pc = "recreated" /\ pc' = "own after"
               \/ pc = "own after" /\ pc' = "log after"
               \/ pc = "see after" /\ pc' = "absent"
               \/ pc = "absent" /\ pc' = "quiet"
      BY <1>3, <2>1, <2>4 DEF Answering
    <2> QED  BY <1>9, <2>2, <2>3, <2>4 DEF Passes
  <1>10. CASE Programs
    <2>1. pc' = pc
      BY <1>10, ProgramsLeave
    <2>2. CASE Deliver(pc = "host" \/ Reachable)
      <3>1. PICK m \in {CanaryBefore, CanaryAfter} :
              /\ queue' = <<>> /\ name["target"] \in Inodes /\ WriteTo(name["target"], m)
              /\ UNCHANGED writer
              /\ \/ pc = "see before" /\ m = CanaryBefore
                 \/ pc = "see after" /\ m = CanaryAfter
        BY <1>3, <2>2, FitDelivers
      <3>2. /\ inode'[name["target"]] = [own |-> Target.own, holds |-> Target.holds \cup {m}]
            /\ \A j \in Inodes : j # name["target"] => inode'[j] = inode[j]
            /\ UNCHANGED <<name, suspended>>
        BY <3>1, Writes DEF Target
      <3>3. Target'.holds = Target.holds \cup {m}
        BY <3>2 DEF Target
      <3>4. CASE pc = "see before" /\ m = CanaryBefore
        <4>1. \A i \in Inodes : CanaryAfter \notin inode'[i].holds
          BY <1>3, <3>1, <3>2, <3>3, <3>4, Canaries DEF Target
        <4> QED  BY <1>3, <2>1, <3>1, <3>2, <3>3, <3>4, <4>1 DEF Answering
      <3>5. CASE pc = "see after"
        BY <1>3, <2>1, <3>1, <3>2, <3>5 DEF Answering
      <3> QED  BY <3>1, <3>4, <3>5
    <2>3. CASE Reopen
      BY <1>3, <2>1, <2>3 DEF Reopen, Answering, Target
    <2>4. CASE SocketUp
      BY <1>3, <2>1, <2>4 DEF SocketUp, Answering, Target
    <2>5. CASE Logrotate
      <3>1. pc = "rotating" /\ UNCHANGED <<writer, suspended>>
        BY <1>3, <2>5, LogrotateActs DEF Phased, Running, BeforeRotation, AfterRotation
      <3>2. \A i \in Inodes : CanaryAfter \notin inode'[i].holds
        BY <1>3, <2>5, <3>1, LogrotateWritesNothing
      <3> QED  BY <1>3, <2>1, <3>1, <3>2 DEF Answering
    <2> QED  BY <1>10, <2>2, <2>3, <2>4, <2>5 DEF Programs
  <1> QED  BY <1>4, <1>5, <1>6, <1>7, <1>8, <1>9, <1>10, FitSteps

LEMMA RotatingLogrotate ==
  ASSUME Typed, Phased, Answering, Rotating, Fit, pc = "rotating", Logrotate, Contract' = Contract
  PROVE  /\ queue' = <<>> /\ lr' # "signalled"
         /\ hup' => lr' = "idle"
         /\ lr' # "due" /\ name'["rotated"] # None /\ CanaryBefore \in Last'.holds
         /\ Last'.own = Contract
         /\ lr' \in {"created", "idle"} => name'["target"] # None /\ Target'.own = Contract
         /\ lr' = "idle" => hup' \/ fd' = None
  <1> USE DEF disk, daemon, history
  <1>1. /\ queue = <<>> /\ lr # "signalled"
        /\ hup => lr = "idle"
        /\ lr = "due" => /\ name["target"] # None /\ CanaryBefore \in Target.holds
                         /\ Target.own = Contract
        /\ lr # "due" => /\ name["rotated"] # None /\ CanaryBefore \in Last.holds
                         /\ Last.own = Contract
        /\ lr \in {"created", "idle"} => name["target"] # None /\ Target.own = Contract
        /\ writer = "on"
    BY DEF Rotating, Answering, Running
  <1>2. /\ conf.stanza.own \in {None, Contract} /\ conf.stanza.create /\ conf.stanza.reopen
        /\ conf.stanza.compress => conf.stanza.delaycompress
    BY FitFacts DEF Running
  <1>3. /\ None \notin Inodes /\ name \in [Names -> Inodes \cup {None}] /\ DOMAIN inode = Inodes
        /\ name["rotated"] \in Inodes \cup {None} /\ hup \in BOOLEAN
    BY RotationAssumption DEF RotationAssumption, Typed, Names
  <1>4. CASE Skip
    BY <1>1, <1>4 DEF Skip, Exists, Holds, Target
  <1>5. CASE Rename
    <2>1. /\ lr = "due" /\ lr' = "renamed" /\ UNCHANGED <<inode, hup, queue>>
          /\ name'["rotated"] = name["target"]
      BY <1>3, <1>5 DEF Rename, Names
    <2> QED  BY <1>1, <2>1 DEF Target, Last
  <1>6. CASE Create
    <2> DEFINE at == IF Exists("target") THEN name["target"] ELSE Fresh
               own == IF conf.stanza.own = None THEN Last.own ELSE conf.stanza.own
    <2>1. /\ name' = [name EXCEPT !["target"] = at]
          /\ inode' = [inode EXCEPT ![at] = [own |-> own, holds |-> Holds("target")]]
          /\ lr = "renamed" /\ lr' = "created" /\ UNCHANGED <<hup, queue>>
      BY <1>2, <1>6 DEF Create, Recreate, Last
    <2>2. at \in Inodes /\ at # name["rotated"]
      BY FreshIsFresh DEF Typed, Exists, Names
    <2>3. own = Contract
      BY <1>1, <1>2, <2>1
    <2> HIDE DEF at, own
    <2>4. /\ name'["target"] = at /\ name'["rotated"] = name["rotated"]
          /\ inode'[at].own = own /\ inode'[name["rotated"]] = Last
      BY <1>1, <1>3, <2>1, <2>2 DEF Names, Last
    <2> QED  BY <1>1, <1>3, <2>1, <2>2, <2>3, <2>4 DEF Target, Last
  <1>7. CASE PostRotate
    <2>1. lr = "created" /\ lr' = "idle" /\ UNCHANGED <<name, inode, queue>>
      BY <1>2, <1>7 DEF PostRotate
    <2>2. hup' = TRUE
      BY <1>1, <1>2, <1>7 DEF PostRotate
    <2> QED  BY <1>1, <2>1, <2>2 DEF Target, Last
  <1>8. CASE Compress
    BY <1>1, <1>8 DEF Compress
  <1> QED  BY <1>4, <1>5, <1>6, <1>7, <1>8 DEF Logrotate

LEMMA RotatingNext ==
  ASSUME Typed, Phased, Opened, Smooth, [Next]_vars
  PROVE  Rotating'
  <1> USE DEF given, script, production, hostVars, disk, daemon, history
  <1>1. CASE UNCHANGED vars
    BY <1>1 DEF Smooth, Rotating, Fit, Target, Last, Contract, Artefacts, Rendered, Reachable, Sound, vars
  <1> SUFFICES ASSUME Next, Fit', pc' = "rotating"
               PROVE  Rotating'
    BY <1>1 DEF Rotating
  <1>2. /\ Contract' = Contract /\ pc' \in Running /\ ~Prepared
    BY GivenStays DEF Prepared, Running
  <1>3. Fit /\ pc \in Running /\ control = 0
    BY <1>2, FitStays
  <1>4. CASE Rotate
    <2>1. pc = "rotate" /\ lr' = "due" /\ UNCHANGED <<name, inode, queue, hup>>
      BY <1>4 DEF Rotate, Step
    <2>2. queue = <<>> /\ CanaryBefore \in Target.holds
      BY <1>3, <2>1 DEF Smooth, Answering
    <2>3. pc \in BeforeRotation
      BY <2>1 DEF BeforeRotation
    <2>4. hup = FALSE /\ (control # 1 => name["target"] # None /\ Target.own = PreparedAs(Sabotage[control]))
      BY <2>3 DEF Opened
    <2>5. name["target"] # None /\ Target.own = Contract
      BY <1>3, <2>4, FitFacts
    <2> QED  BY <1>2, <2>1, <2>2, <2>4, <2>5 DEF Rotating, Target
  <1>5. CASE Programs
    <2>1. pc = "rotating"
      BY <1>5, ProgramsLeave
    <2>2. CASE Logrotate
      BY <1>2, <1>3, <2>1, <2>2, RotatingLogrotate DEF Smooth, Rotating
    <2>3. /\ queue = <<>> /\ writer = "on"
      BY <1>3, <2>1 DEF Smooth, Answering, Rotating
    <2>4. CASE Reopen
      BY <1>2, <1>3, <2>1, <2>4 DEF Reopen, Smooth, Rotating, Target, Last
    <2> QED  BY <1>5, <2>2, <2>3, <2>4, Delivers DEF Programs, SocketUp
  <1> QED  BY <1>2, <1>4, <1>5, FitSteps DEF Started, SaidBefore, SaidAfter, Say, Step, Return, Passes

LEMMA SettledNext ==
  ASSUME Typed, Phased, Opened, Smooth, [Next]_vars
  PROVE  Settled'
  <1> USE DEF given, script, production, hostVars, disk, daemon, history
  <1>1. CASE UNCHANGED vars
    BY <1>1 DEF Smooth, Settled, Fit, Target, Last, Contract, Artefacts, Rendered, Reachable, Sound, vars
  <1> SUFFICES ASSUME Next, Fit', pc' \in AfterRotation
               PROVE  Settled'
    BY <1>1 DEF Settled
  <1>2. /\ Contract' = Contract /\ pc' \in Running /\ ~Prepared
    BY GivenStays DEF Prepared, Running, AfterRotation
  <1>3. Fit /\ pc \in Running /\ control = 0
    BY <1>2, FitStays
  <1>4. pc \notin {"see after", "absent", "quiet"} => \A i \in Inodes : CanaryAfter \notin inode[i].holds
    BY <1>3 DEF Smooth, Answering
  <1>5. name["target"] \in Inodes \cup {None} /\ name["rotated"] \in Inodes \cup {None}
    BY DEF Typed, Names
  <1>6. CASE Return
    <2>1. /\ pc = "rotating" /\ lr = "idle" /\ pc' = "moved"
          /\ hindered' = (hindered \/ hup)
          /\ UNCHANGED <<name, inode, queue, fd, hup>>
      BY <1>6 DEF Return
    <2>2. hup = FALSE
      BY <2>1 DEF Fit, Typed
    <2>3. /\ queue = <<>> /\ fd = None
          /\ name["rotated"] # None /\ CanaryBefore \in Last.holds
          /\ name["target"] # None /\ Target.own = Contract
      BY <1>3, <2>1, <2>2 DEF Smooth, Rotating
    <2>4. CanaryAfter \notin Last.holds
      BY <1>4, <1>5, <2>1, <2>3 DEF Last
    <2> QED  BY <1>2, <2>1, <2>2, <2>3, <2>4 DEF Settled, Target, Last
  <1>7. ASSUME pc \in AfterRotation
        PROVE  /\ hup = FALSE /\ name["target"] # None /\ name["rotated"] # None
               /\ Target.own = Contract
               /\ CanaryBefore \in Last.holds /\ CanaryAfter \notin Last.holds
               /\ pc # "see after" => queue = <<>>
               /\ pc \notin {"see after", "absent", "quiet"} => fd = None
               /\ fd # None => fd = name["target"]
               /\ pc = "see after" => \/ /\ queue = <<CanaryAfter>>
                                         /\ \A i \in Inodes : CanaryAfter \notin inode[i].holds
                                      \/ queue = <<>> /\ CanaryAfter \in Target.holds
    BY <1>3, <1>7 DEF Smooth, Settled
  <1>8. CASE SaidAfter
    <2>1. pc = "log after" /\ pc' = "see after" /\ UNCHANGED <<name, inode, fd, hup>>
          /\ queue' = Append(queue, CanaryAfter)
      BY <1>8 DEF SaidAfter, Say, Step, Receive
    <2>2. Append(<<>>, CanaryAfter) = <<CanaryAfter>>
      OBVIOUS
    <2>3. queue' = <<CanaryAfter>>
      BY <1>7, <2>1, <2>2 DEF AfterRotation
    <2> QED  BY <1>2, <1>4, <1>7, <2>1, <2>3 DEF Settled, Target, Last, AfterRotation
  <1>9. CASE Passes
    <2>1. UNCHANGED <<name, inode, fd, hup, queue>> /\ pc \in AfterRotation
      BY <1>9 DEF Passes, AfterRotation
    <2>2. CASE pc = "see after" /\ CanaryAfter \in Holds("target") /\ pc' = "absent"
      <3>1. CanaryAfter \in Target.holds
        BY <2>2 DEF Holds, Exists, Target
      <3>2. queue = <<>>
        BY <1>5, <1>7, <2>1, <2>2, <3>1 DEF Target
      <3> QED  BY <1>2, <1>7, <2>1, <2>2, <3>2 DEF Settled, Target, Last
    <2>3. CASE pc # "see after" /\ pc' # "see after" /\ (pc' \in {"absent", "quiet"} \/ pc \notin {"absent", "quiet"})
      BY <1>2, <1>7, <2>1, <2>3 DEF Settled, Target, Last
    <2> QED  BY <1>9, <2>1, <2>2, <2>3 DEF Passes, AfterRotation
  <1>10. CASE Programs
    <2>1. pc' = pc /\ pc \in AfterRotation
      BY <1>10, ProgramsLeave
    <2>2. CASE Deliver(pc = "host" \/ Reachable)
      <3>1. /\ queue' = <<>> /\ WriteTo(name["target"], CanaryAfter)
            /\ UNCHANGED <<writer, hup>>
            /\ pc = "see after"
        BY <1>3, <2>1, <2>2, FitDelivers DEF AfterRotation
      <3>2. name["target"] \in Inodes
        BY <1>5, <1>7, <2>1
      <3>3. /\ inode'[name["target"]] = [own |-> Target.own, holds |-> Target.holds \cup {CanaryAfter}]
            /\ \A j \in Inodes : j # name["target"] => inode'[j] = inode[j]
            /\ name' = name /\ fd' = name["target"]
        BY <3>1, <3>2, Writes DEF Target
      <3>4. Target'.own = Target.own /\ CanaryAfter \in Target'.holds
        BY <3>3 DEF Target
      <3>5. Last' = Last
        BY <1>5, <1>7, <2>1, <3>2, <3>3 DEF Last, Typed
      <3> QED  BY <1>2, <1>7, <2>1, <3>1, <3>3, <3>4, <3>5 DEF Settled
    <2>3. ~Reopen /\ ~Logrotate
      BY <1>7, <2>1, LogrotateActs DEF Reopen, Phased, AfterRotation
    <2>4. CASE SocketUp
      BY <1>2, <1>7, <2>1, <2>4 DEF SocketUp, Settled, Target, Last
    <2> QED  BY <1>10, <2>2, <2>3, <2>4 DEF Programs
  <1> QED  BY <1>2, <1>6, <1>8, <1>9, <1>10, FitSteps
           DEF Started, SaidBefore, Say, Step, Rotate, AfterRotation

\* Every refusal of a fit control is a deadline that ran out on a writer with something to do.
LEMMA FitIsNotRefused ==
  ASSUME Typed, Phased, Opened, Smooth, control = 0, Sound(Artefacts), Reachable,
         Refuses \/ Unfit \/ (ExpectQuiet /\ suspended)
  PROVE  hindered'
  <1> SUFFICES ASSUME ~hindered'
               PROVE  FALSE
    OBVIOUS
  <1>1. CASE pc = "prove"
    <2>1. Contract = None
      BY <1>1 DEF Refuses, Unfit, ExpectQuiet
    <2> QED  BY <2>1 DEF Sound, Contract
  <1>2. CASE pc # "prove"
    <2>1. hindered \in BOOLEAN /\ pc \in Running /\ ~hindered
      <3>1. pc \in Running
        BY <1>2 DEF Refuses, Unfit, ExpectQuiet, Running, BeforeRotation, AfterRotation
      <3>2. hindered => hindered'
        BY DEF Refuses, Unfit, ExpectQuiet
      <3>3. hindered \in BOOLEAN
        BY DEF Typed
      <3> QED  BY <3>1, <3>2, <3>3
    <2>2. Fit
      BY <2>1 DEF Fit
    <2>3. /\ suspended = FALSE
          /\ pc = "see before" => \/ queue = <<CanaryBefore>>
                                  \/ queue = <<>> /\ CanaryBefore \in Target.holds
      BY <2>1, <2>2 DEF Smooth, Answering
    <2>4. pc \in AfterRotation =>
            /\ name["target"] # None /\ name["rotated"] # None
            /\ Target.own = Contract
            /\ CanaryBefore \in Last.holds /\ CanaryAfter \notin Last.holds
            /\ pc = "see after" => queue = <<CanaryAfter>> \/ CanaryAfter \in Target.holds
      BY <2>2 DEF Smooth, Settled
    <2>5. /\ MayAppend(Contract, Writer) /\ PreparedAs(Sabotage[control]) = Contract
          /\ Contract.owner = Writer
      BY <2>1, <2>2, FitFacts
    <2>6. pc \in BeforeRotation => name["target"] # None /\ Target.own = Contract
      BY <2>5 DEF Opened
    <2>7. machine.reach /\ ~machine.confined
      BY DEF Reachable
    <2>8. CASE Unfit
      BY <2>5, <2>6, <2>7, <2>8 DEF Unfit, Target, BeforeRotation
    <2>9. CASE ExpectQuiet /\ suspended
      BY <2>3, <2>9
    <2>10. <<CanaryBefore>> # <<>> /\ <<CanaryAfter>> # <<>>
      OBVIOUS
    <2>11. CASE Refuses
      <3>1. CASE /\ \/ pc = "socket" /\ writer # "on"
                    \/ pc = "see before" /\ CanaryBefore \notin Holds("target")
                    \/ pc = "see moved" /\ CanaryBefore \notin Holds("rotated")
                    \/ pc = "recreated" /\ ~Exists("target")
                    \/ pc = "see after" /\ CanaryAfter \notin Holds("target")
                 /\ hindered' = (hindered \/ writer # "on" \/ queue # <<>> \/ hup)
        <4>1. writer = "on" /\ queue = <<>>
          BY <3>1
        <4> QED  BY <2>3, <2>4, <2>6, <2>10, <3>1, <4>1
                 DEF Holds, Exists, Target, Last, BeforeRotation, AfterRotation
      <3>2. CASE \/ pc = "own before" /\ ~Owned
                 \/ pc = "moved" /\ ~Exists("rotated")
                 \/ pc = "own after" /\ ~Owned
                 \/ pc = "absent" /\ CanaryAfter \in Holds("rotated")
        BY <2>4, <2>6, <3>2 DEF Owned, Holds, Exists, Target, Last, BeforeRotation, AfterRotation
      <3> QED  BY <1>2, <2>11, <3>1, <3>2 DEF Refuses
    <2> QED  BY <2>8, <2>9, <2>11
  <1> QED  BY <1>1, <1>2

LEMMA RefusedHindered ==
  ASSUME Typed, Phased, Opened, RefusalInv, [Next]_vars
  PROVE  SoundIsRefusedOnlyHindered'
  <1> USE DEF given, script, production, hostVars, disk, daemon, history
  <1>1. CASE UNCHANGED vars
    BY <1>1 DEF RefusalInv, SoundIsRefusedOnlyHindered, Artefacts, Rendered, Reachable, Sound, vars
  <1> SUFFICES ASSUME Next, control' = 0, ended' \in {"failed", "unfit"}, Sound(Artefacts)', Reachable'
               PROVE  hindered'
    BY <1>1 DEF SoundIsRefusedOnlyHindered
  <1>2. Sound(Artefacts) /\ Reachable
    BY GivenStays
  <1>3. None \notin {"proved", "failed", "unfit"}
    BY RotationAssumption DEF RotationAssumption
  <1>4. CASE Refuses \/ Unfit \/ ExpectQuiet
    <2>1. control = 0 /\ (ExpectQuiet => suspended)
      BY <1>4 DEF Refuses, Unfit, End, EndUnfit, ExpectQuiet
    <2> QED  BY <1>2, <1>4, <2>1, FitIsNotRefused DEF RefusalInv
  <1>5. CASE Programs
    <2>1. UNCHANGED <<control, ended, hindered>>
      BY <1>5, ProgramsLeave
    <2> QED  BY <1>2, <2>1 DEF RefusalInv, SoundIsRefusedOnlyHindered
  <1>6. CASE Main
    BY <1>3, <1>6 DEF Main
  <1>7. CASE Prepared \/ Started \/ SaidBefore \/ SaidAfter \/ Rotate \/ Return \/ Passes \/ Production
    <2>1. pc # "ended" /\ ended' = ended
      BY <1>7 DEF Prepared, Started, SaidBefore, SaidAfter, Say, Step, Rotate, Return, Passes, Production,
                  Deploy, Boot, Send, Timer, Restart, Remove
    <2>2. ended = None
      BY <2>1 DEF Phased
    <2> QED  BY <1>3, <2>1, <2>2
  <1> QED  BY <1>4, <1>5, <1>6, <1>7, ProveSteps DEF Next

LEMMA RefusalInit == Init => RefusalInv
  <1> SUFFICES ASSUME Init PROVE RefusalInv
    OBVIOUS
  <1>1. pc = "prove" /\ ended = None
    BY DEF Init
  <1>2. None \notin {"failed", "unfit"}
    BY RotationAssumption DEF RotationAssumption
  <1> QED  BY <1>1, <1>2 DEF RefusalInv, Smooth, Answering, Rotating, Settled, SoundIsRefusedOnlyHindered,
                          Running, BeforeRotation, AfterRotation

LEMMA RefusalNext == Proving /\ RefusalInv /\ [Next]_vars => RefusalInv'
  BY AnsweringNext, RotatingNext, SettledNext, RefusedHindered DEF Proving, RefusalInv, Smooth

\* A sound contract on a machine that can host the proof is refused only when a deadline ran out
\* on a writer that still had something to do, or when a program that prove() runs failed.
THEOREM RefusedOnlyHindered == Spec => []SoundIsRefusedOnlyHindered
  <1>1. RefusalInv => SoundIsRefusedOnlyHindered
    BY DEF RefusalInv
  <1> QED  BY <1>1, ProvingInit, ProvingNext, RefusalInit, RefusalNext, PTL DEF Spec
=============================================================================
