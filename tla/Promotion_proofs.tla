-------------------------- MODULE Promotion_proofs --------------------------
(***************************************************************************)
(* Theorems of Promotion, for any number of runs, revisions and changes by *)
(* hand.  One job holds the group at a time; so the release a run captured *)
(* when it staged is the one it goes back to, the tip it asserted is not   *)
(* older than anything accepted, what it replaces is what was accepted     *)
(* last, and a reader of receipts sees each promotion as one step.         *)
(***************************************************************************)
EXTENDS Promotion, PromotionImplements, SequenceTheorems, WellFoundedInduction, TLAPS

Upto(n) == SubSeq(STATES, 1, n)

\* How many states a run that is at p has reached.
Lengths(p) ==
    CASE p = "check" -> {1}
      [] p = "rehearse" -> {2}
      [] p = "stage" -> {3}
      [] p = "reload" -> {4}
      [] p = "observe" -> {5}
      [] p \in {"judge", "accept"} -> {6}
      [] p = "rollback" -> 4..6
      [] p \in {"finished", "killed"} -> 0..7
      [] OTHER -> {0}

Beginning == {"undispatched", "queued", "superseded", "waiting", "rejected",
              "asserting", "preconditions", "refused", "fetch", "check",
              "rehearse", "stage"}

Live == {"reload", "observe", "judge", "accept", "rollback"}

\* What a run holds while it is at p.
Fits(p, states, release, reading, result) ==
    /\ \E n \in Lengths(p) : states = Upto(n)
    /\ p \in Beginning => release = None /\ reading = None
    /\ p \in Live => release # None
    /\ p \in {"judge", "accept"} => reading # None
    /\ p = "rollback" => release.previous # None
    /\ p \notin Ended => result = None

Held == \A r \in Runs : Fits(pc[r], reached[r], staged[r], live[r], outcome[r])

TypeInv == TypeOK /\ Held

-----------------------------------------------------------------------------
(* The sequence of states. *)

LEMMA StatesIsASequence ==
    /\ STATES \in Seq({STATES[i] : i \in 1..7})
    /\ Len(STATES) = 7
  <1>1. /\ Len(STATES) = 7 /\ DOMAIN STATES = 1..7
        /\ STATES = [i \in DOMAIN STATES |-> STATES[i]]
    BY SMT DEF STATES
  <1>2. STATES \in [1..7 -> {STATES[i] : i \in 1..7}]
    BY <1>1
  <1>3. 7 \in Nat
    OBVIOUS
  <1> QED  BY <1>1, <1>2, <1>3, SeqDef, Zenon

LEMMA UptoStep ==
    ASSUME NEW n \in 0..6
    PROVE  /\ Append(Upto(n), STATES[n + 1]) = Upto(n + 1)
           /\ Len(Upto(n)) = n /\ Len(Upto(n + 1)) = n + 1
  <1> DEFINE Names == {STATES[i] : i \in 1..7}
  <1>1. STATES \in Seq(Names) /\ Len(STATES) = 7
    BY StatesIsASequence
  <1>2. \A i \in 1..7 : STATES[i] \in Names
    OBVIOUS
  <1> HIDE DEF Names
  <1>3. Upto(n) \in Seq(Names) /\ Len(Upto(n)) = n
    BY <1>2, SubSeqProperties, n \in Int, 1 \in Int DEF Upto
  <1>4. Len(Upto(n + 1)) = n + 1
    BY <1>2, SubSeqProperties, n + 1 \in Int, 1 \in Int DEF Upto
  <1>5. Upto(n + 1) = Upto(n) \o <<STATES[n + 1]>>
    <2>1. 1 \in 1..Len(STATES) /\ n + 1 \in 1..Len(STATES) /\ (n + 1) - 1 = n
      BY <1>1
    <2> QED  BY <1>1, <2>1, SubSeqRecursiveSecond DEF Upto
  <1>6. STATES[n + 1] \in Names
    BY <1>2
  <1> QED  BY <1>3, <1>4, <1>5, <1>6, AppendIsConcat

LEMMA AppendTyped ==
    ASSUME NEW S, NEW seq \in Seq(S), NEW e \in S
    PROVE  Append(seq, e) \in Seq(S)
  BY AppendProperties

-----------------------------------------------------------------------------
(* The hosts a call may leave behind are hosts. *)

LEMMA TreeTyped ==
    ASSUME TypeOK, NEW r \in Runs
    PROVE  Tree(r) \in Digests
  BY PromotionAssumption DEF TypeOK, Tree, Request

LEMMA TreeAtTyped ==
    ASSUME TypeOK, NEW d \in Dirs \cup {None}
    PROVE  TreeAt(host.store, d) \in Digests \cup {None}
  BY DEF TypeOK, TreeAt, Host

LEMMA OriginalTyped ==
    ASSUME TypeOK, NEW d \in Dirs
    PROVE  Original(d) \in Digests \ {HandEdited}
  <1>1. \A v \in Revisions : Rendered[v] \in Digests \ {HandEdited}
    BY PromotionAssumption
  <1>2. 0 \in Revisions
    BY PromotionAssumption DEF Revisions
  <1>3. d # Initial => request[d].rev \in Revisions
    BY DEF TypeOK, Request, Dirs
  <1> QED  BY <1>1, <1>2, <1>3 DEF Original, Tree

LEMMA FoundTyped ==
    ASSUME TypeOK
    PROVE  Found \in Prior
  <1>1. host.pointer \in Dirs \cup {None} /\ hands \in 0..(MaxHands + 1)
    BY DEF TypeOK, Host
  <1> QED  BY <1>1, TreeAtTyped DEF Found, Prior

LEMMA WrittenTyped ==
    ASSUME TypeOK, NEW r \in Runs
    PROVE  Written(r) \in Host /\ Activated(r) \in Host
  <1>1. r \in Dirs
    BY DEF Dirs
  <1> QED  BY <1>1, TreeTyped DEF TypeOK, Written, Activated, Host

LEMMA RestoredTyped ==
    ASSUME TypeOK, NEW d \in Dirs \cup {None}
    PROVE  /\ Restored(d) \in Host /\ Reloaded \in Host
           /\ [host EXCEPT !.pointer = d] \in Host
  <1>1. host.pointer \in Dirs \cup {None}
    BY DEF TypeOK, Host
  <1> QED  BY <1>1, TreeAtTyped DEF TypeOK, Restored, Reloaded, Host

LEMMA InterruptedTyped ==
    ASSUME TypeInv, NEW r \in Runs
    PROVE  Interrupted(r) \subseteq Host
  <1>1. pc[r] \in {"observe", "rollback"} => staged[r].previous \in Dirs \cup {None}
    BY DEF TypeInv, TypeOK, Held, Fits, Live, StagedRelease
  <1> QED  BY ZenonT(40), <1>1, WrittenTyped, RestoredTyped
           DEF TypeInv, TypeOK, Interrupted, RollbackTarget

-----------------------------------------------------------------------------
(* The receipt. *)

LEMMA FileTyped ==
    ASSUME TypeOK, NEW r \in Runs, NEW reading \in LiveState \cup {None},
           NEW result \in Outcomes,
           File(r, result, reading)
    PROVE  log' \in Seq(Receipt)
  <1> DEFINE receipt ==
        [run |-> r, outcome |-> result, rev |-> request[r].rev, tree |-> Tree(r),
         current |-> IF reading = None THEN None ELSE reading.current,
         restored |-> IF reading = None \/ reading.rollback = None
                      THEN None ELSE reading.rollback.succeeded]
  <1>1. request[r].rev \in Revisions /\ r \in Dirs
    BY DEF TypeOK, Request, Dirs
  <1>2. reading # None => reading.current \in Dirs \cup {None}
    BY DEF LiveState
  <1>3. reading # None /\ reading.rollback # None => reading.rollback.succeeded \in BOOLEAN
    BY DEF LiveState, RollbackRecord
  <1>4. receipt \in Receipt
    BY <1>1, <1>2, <1>3, TreeTyped DEF Receipt
  <1> QED  BY <1>4, AppendTyped DEF TypeOK, File

-----------------------------------------------------------------------------
(* The parts of the state Stop, Raise and Reach change, and their types. *)

Types ==
    /\ pc \in [Runs -> {"undispatched"} \cup Queueing \cup Holding \cup Ended]
    /\ reached \in [Runs -> {SubSeq(STATES, 1, n) : n \in 0..7}]
    /\ staged \in [Runs -> StagedRelease \cup {None}]
    /\ live \in [Runs -> LiveState \cup {None}]
    /\ outcome \in [Runs -> Outcomes \cup {None}]
    /\ trouble \in [Runs -> Troubles \cup {None}]
    /\ log \in Seq(Receipt)

LEMMA FinishTyped ==
    ASSUME TypeInv, NEW r \in Runs, NEW n \in 0..7, reached' = [reached EXCEPT ![r] = Upto(n)],
           NEW release \in StagedRelease \cup {None}, staged' = [staged EXCEPT ![r] = release],
           NEW reading \in LiveState \cup {None}, live' = [live EXCEPT ![r] = reading],
           NEW result \in Outcomes, NEW finding \in Troubles \cup {None},
           NEW told \in LiveState \cup {None},
           Finish(r, result, finding, told)
    PROVE  Types' /\ Held'
  <1>1. TypeOK
    BY DEF TypeInv
  <1>2. log' \in Seq(Receipt)
    BY <1>1, FileTyped DEF Finish
  <1>3. Types'
    BY <1>1, <1>2 DEF TypeOK, Types, Finish, Upto, Ended
  <1>4. ASSUME NEW s \in Runs
        PROVE  Fits(pc[s], reached[s], staged[s], live[s], outcome[s])'
    <2>1. CASE s = r
      <3>1. /\ pc'[s] = "finished" /\ reached'[s] = Upto(n)
        BY <1>1, <2>1 DEF TypeOK, Finish
      <3>2. n \in Lengths("finished")
        BY DEF Lengths
      <3> QED  BY <3>1, <3>2 DEF Fits, Beginning, Live, Ended
    <2>2. CASE s # r
      <3>1. /\ pc'[s] = pc[s] /\ reached'[s] = reached[s] /\ staged'[s] = staged[s]
            /\ live'[s] = live[s] /\ outcome'[s] = outcome[s]
        BY <1>1, <2>2 DEF TypeOK, Finish
      <3> QED  BY <3>1 DEF TypeInv, Held
    <2> QED  BY <2>1, <2>2
  <1> QED  BY <1>3, <1>4 DEF Held

LEMMA StopTyped ==
    ASSUME TypeInv, NEW r \in Runs, pc[r] \in Executing, NEW n \in 0..6,
           NEW release \in StagedRelease \cup {None},
           NEW reading \in LiveState \cup {None},
           NEW states, states = Upto(n), Stop(r, states, release, reading)
    PROVE  Types' /\ Held'
  <1>0. /\ Len(states) = n /\ n \in 0..7
        /\ reached' = [reached EXCEPT ![r] = Upto(n)]
        /\ staged' = [staged EXCEPT ![r] = release]
        /\ live' = [live EXCEPT ![r] = reading]
    BY UptoStep DEF Stop
  <1>1. CASE Len(states) <= RollbackFrom \/ release = None
    <2>1. Finish(r, "failed", None, reading)
      BY <1>1, <1>0 DEF Stop, RollbackFrom
    <2> QED  BY <1>0, <2>1, FinishTyped DEF Outcomes, Troubles
  <1>2. CASE n > RollbackFrom /\ release # None /\ release.previous = None
    <2>1. Finish(r, "failed", "ROLLBACK-IMPOSSIBLE", reading)
      BY <1>2, <1>0 DEF Stop, RollbackFrom
    <2> QED  BY <1>0, <2>1, FinishTyped DEF Outcomes, Troubles
  <1>3. CASE n > RollbackFrom /\ release # None /\ release.previous # None
    <2>1. /\ pc' = [pc EXCEPT ![r] = "rollback"]
          /\ UNCHANGED <<outcome, trouble, log>>
      BY <1>3, <1>0 DEF Stop, RollbackFrom
    <2>2. Types'
      BY <1>0, <2>1 DEF TypeInv, TypeOK, Types, Upto, Holding, Executing
    <2>3. ASSUME NEW s \in Runs
          PROVE  Fits(pc[s], reached[s], staged[s], live[s], outcome[s])'
      <3>1. CASE s = r
        <4>1. /\ pc'[s] = "rollback" /\ reached'[s] = Upto(n) /\ staged'[s] = release
              /\ outcome'[s] = outcome[s] /\ live'[s] = reading
          BY <1>0, <2>1, <3>1 DEF TypeInv, TypeOK
        <4>2. n \in Lengths("rollback")
          BY <1>3 DEF Lengths, RollbackFrom
        <4>3. outcome[s] = None
          BY <3>1 DEF TypeInv, Held, Fits, Executing, Ended
        <4> QED  BY <1>3, <4>1, <4>2, <4>3 DEF Fits, Beginning, Live, Ended
      <3>2. CASE s # r
        <4>1. /\ pc'[s] = pc[s] /\ reached'[s] = reached[s] /\ staged'[s] = staged[s]
              /\ live'[s] = live[s] /\ outcome'[s] = outcome[s]
          BY <1>0, <2>1, <3>2 DEF TypeInv, TypeOK
        <4> QED  BY <4>1 DEF TypeInv, Held
      <3> QED  BY <3>1, <3>2
    <2> QED  BY <2>2, <2>3 DEF Held
  <1> QED  BY <1>0, <1>1, <1>2, <1>3 DEF RollbackFrom

LEMMA RaiseTyped ==
    ASSUME TypeInv, NEW r \in Runs, pc[r] \in Executing \ {"rollback"}, Raise(r)
    PROVE  Types' /\ Held' /\ host' \in Host
  <1>1. PICK n \in 0..6 : reached[r] = Upto(n)
    <2>1. Lengths(pc[r]) \subseteq 0..6
      BY DEF Lengths, Executing
    <2> QED  BY <2>1 DEF TypeInv, Held, Fits
  <1>2. /\ staged[r] \in StagedRelease \cup {None}
        /\ live[r] \in LiveState \cup {None}
    BY DEF TypeInv, TypeOK
  <1>3. host' \in Host
    BY InterruptedTyped DEF Raise
  <1> QED  BY <1>1, <1>2, <1>3, StopTyped DEF Raise

\* The state a call of run r reaches when it returns.
LEMMA ReachTyped ==
    ASSUME TypeInv, NEW r \in Runs, pc[r] \in Executing, NEW next \in Executing \ {"rollback"},
           \E n \in 0..6 : reached[r] = Upto(n) /\ n + 1 \in Lengths(next),
           Reach(r, next),
           staged' \in [Runs -> StagedRelease \cup {None}],
           live' \in [Runs -> LiveState \cup {None}],
           \A s \in Runs \ {r} : staged'[s] = staged[s] /\ live'[s] = live[s],
           next \in Beginning => staged'[r] = None /\ live'[r] = None,
           next \in Live => staged'[r] # None,
           next \in {"judge", "accept"} => live'[r] # None
    PROVE  Types' /\ Held'
  <1>1. PICK n \in 0..6 : reached[r] = Upto(n) /\ n + 1 \in Lengths(next)
    OBVIOUS
  <1>2. reached' = [reached EXCEPT ![r] = Upto(n + 1)]
    BY <1>1, UptoStep DEF Reach, TypeInv, TypeOK
  <1>3. Types'
    <2>1. Upto(n + 1) \in {SubSeq(STATES, 1, m) : m \in 0..7}
      <3>1. n + 1 \in 0..7
        OBVIOUS
      <3> QED  BY <3>1 DEF Upto
    <2>2. pc' \in [Runs -> {"undispatched"} \cup Queueing \cup Holding \cup Ended]
      BY DEF TypeInv, TypeOK, Reach, Holding
    <2>3. reached' \in [Runs -> {SubSeq(STATES, 1, m) : m \in 0..7}]
      BY <1>2, <2>1 DEF TypeInv, TypeOK
    <2> QED  BY <2>2, <2>3 DEF TypeInv, TypeOK, Types, Reach
  <1>4. ASSUME NEW s \in Runs
        PROVE  Fits(pc[s], reached[s], staged[s], live[s], outcome[s])'
    <2>1. CASE s = r
      <3>1. /\ pc'[s] = next /\ reached'[s] = Upto(n + 1) /\ outcome'[s] = None
        BY <1>2, <2>1 DEF TypeInv, TypeOK, Reach, Held, Fits, Executing, Ended
      <3> QED  BY <1>1, <2>1, <3>1 DEF Fits
    <2>2. CASE s # r
      <3>1. /\ pc'[s] = pc[s] /\ reached'[s] = reached[s] /\ staged'[s] = staged[s]
            /\ live'[s] = live[s] /\ outcome'[s] = outcome[s]
        BY <1>2, <2>2 DEF TypeInv, TypeOK, Reach
      <3> QED  BY <3>1 DEF TypeInv, Held
    <2> QED  BY <2>1, <2>2
  <1> QED  BY <1>3, <1>4 DEF Held

-----------------------------------------------------------------------------
(* Type correctness. *)

LEMMA TypeInit == Init => TypeInv
  <1> SUFFICES ASSUME Init
               PROVE  TypeInv
    OBVIOUS
  <1>1. Upto(0) = <<>>
    BY SubSeqEmpty, 0 \in Int, 1 \in Int DEF Upto
  <1>2. <<>> \in {SubSeq(STATES, 1, n) : n \in 0..7}
    BY <1>1 DEF Upto
  <1>3. 0 \in Revisions /\ Rendered[0] \in Digests /\ Initial \in Dirs
    BY PromotionAssumption DEF Revisions, Dirs
  <1>4. host \in Host
    BY <1>3 DEF Init, Host
  <1>5. log \in Seq(Receipt)
    <2>1. CASE log = <<>>
      BY <2>1, EmptySeq
    <2>2. CASE log # <<>>
      <3> DEFINE first == [run |-> Initial, outcome |-> "accepted", rev |-> 0,
                           tree |-> Rendered[0], current |-> Initial, restored |-> TRUE]
      <3>1. first \in Receipt
        BY <1>3 DEF Receipt, Outcomes
      <3>2. log = <<first>>
        BY <2>2 DEF Init
      <3> HIDE DEF first
      <3> QED  BY <3>1, <3>2
    <2> QED  BY <2>1, <2>2
  <1>6. TypeOK
    BY <1>2, <1>3, <1>4, <1>5, PromotionAssumption DEF Init, TypeOK, Prior, Request, Revisions
  <1>7. Held
    <2>1. 0 \in Lengths("undispatched")
      BY DEF Lengths
    <2> QED  BY <1>1, <2>1 DEF Init, Held, Fits, Beginning, Live, Ended
  <1> QED  BY <1>6, <1>7 DEF TypeInv

\* A step of a run that has reached no state yet.
LEMMA MoveTyped ==
    ASSUME TypeInv, NEW r \in Runs, pc[r] \in Beginning \ Ended,
           NEW p \in Beginning, Lengths(pc[r]) \subseteq Lengths(p),
           pc' = [pc EXCEPT ![r] = p],
           UNCHANGED <<reached, staged, live, trouble, log>>,
           \/ UNCHANGED outcome
           \/ (p \in Ended /\ outcome' = [outcome EXCEPT ![r] = "failed"])
    PROVE  Types' /\ Held'
  <1>1. Types'
    BY DEF TypeInv, TypeOK, Types, Beginning, Ended, Queueing, Holding, Reviewing, Executing,
       Outcomes
  <1>2. ASSUME NEW s \in Runs
        PROVE  Fits(pc[s], reached[s], staged[s], live[s], outcome[s])'
    <2>1. Fits(pc[s], reached[s], staged[s], live[s], outcome[s])
      BY DEF TypeInv, Held
    <2>2. /\ reached'[s] = reached[s] /\ staged'[s] = staged[s] /\ live'[s] = live[s]
      OBVIOUS
    <2>3. CASE s = r
      <3>1. pc'[s] = p /\ (p \notin Ended => outcome'[s] = None)
        BY <2>1, <2>3 DEF TypeInv, TypeOK, Fits
      <3>2. p \notin Live /\ p \notin {"judge", "accept", "rollback"}
        BY DEF Beginning, Live
      <3> QED  BY <2>1, <2>2, <2>3, <3>1, <3>2 DEF Fits
    <2>4. CASE s # r
      <3>1. pc'[s] = pc[s] /\ outcome'[s] = outcome[s]
        BY <2>4 DEF TypeInv, TypeOK
      <3> QED  BY <2>1, <2>2, <3>1 DEF Fits
    <2> QED  BY <2>3, <2>4
  <1> QED  BY <1>1, <1>2 DEF Held

LEMMA ReadBackTyped ==
    ASSUME TypeOK, NEW h \in Host, NEW sound \in BOOLEAN,
           NEW rollback \in RollbackRecord \cup {None}
    PROVE  ReadBack(h, sound, rollback) \in LiveState
  <1>1. TreeAt(h.store, h.pointer) \in Digests \cup {None}
    BY DEF TreeAt, Host
  <1> QED  BY <1>1, PromotionAssumption DEF TypeOK, ReadBack, LiveState, Host

LEMMA WorkflowTyped ==
    ASSUME TypeInv, NEW r \in Runs, Workflow(r)
    PROVE  TypeInv'
  <1>0. TypeOK /\ Held /\ Fits(pc[r], reached[r], staged[r], live[r], outcome[r])
    BY DEF TypeInv, Held
  <1>1. CASE Dispatch(r)
    <2>1. TypeOK'
      BY <1>0, <1>1 DEF TypeOK, Dispatch, Queueing, Ended
    <2>2. ASSUME NEW s \in Runs
          PROVE  Fits(pc[s], reached[s], staged[s], live[s], outcome[s])'
      <3>1. Fits(pc[s], reached[s], staged[s], live[s], outcome[s])
        BY DEF TypeInv, Held
      <3>2. /\ pc'[s] = pc[s] \/ pc[s] \in {"undispatched", "queued"}
            /\ pc'[s] = pc[s] \/ pc'[s] \in {"queued", "superseded"}
        BY <1>1 DEF Dispatch, Queueing
      <3>3. UNCHANGED <<reached, staged, live, outcome>>
        BY <1>1 DEF Dispatch
      <3>4. CASE pc'[s] # pc[s]
        <4>1. reached[s] = Upto(0) /\ staged[s] = None /\ live[s] = None /\ outcome[s] = None
          BY <3>1, <3>2, <3>4 DEF Fits, Lengths, Beginning, Ended
        <4>2. 0 \in Lengths(pc'[s])
          BY <3>2, <3>4 DEF Lengths
        <4> QED  BY <3>2, <3>3, <3>4, <4>1, <4>2 DEF Fits, Live
      <3>5. CASE pc'[s] = pc[s]
        BY <3>1, <3>3, <3>5 DEF Fits
      <3> QED  BY <3>4, <3>5
    <2> QED  BY <2>1, <2>2 DEF TypeInv, Held
  <1>2. CASE Admit(r)
    <2>1. Lengths(pc[r]) \subseteq Lengths("waiting") /\ pc[r] \in Beginning \ Ended
      BY <1>2 DEF Admit, Lengths, Beginning, Ended
    <2>2. Types' /\ Held'
      BY <1>2, <2>1, MoveTyped DEF Admit, Beginning
    <2> QED  BY <1>0, <1>2, <2>2 DEF TypeInv, TypeOK, Types, Admit, session
  <1>3. CASE Review(r)
    <2>1. PICK p \in {"asserting", "rejected"} : pc' = [pc EXCEPT ![r] = p]
      BY <1>3 DEF Review
    <2>2. /\ Lengths(pc[r]) \subseteq Lengths(p) /\ pc[r] \in Beginning \ Ended
          /\ p \in Beginning
      BY <1>3 DEF Review, Lengths, Beginning, Ended
    <2>3. Types' /\ Held'
      BY <1>3, <2>1, <2>2, MoveTyped DEF Review
    <2> QED  BY <1>0, <1>3, <2>3 DEF TypeInv, TypeOK, Types, Review, session
  <1> QED  BY <1>1, <1>2, <1>3 DEF Workflow

\* A nonempty set of indices of the log has a greatest one.
LEMMA LastOfSome ==
    ASSUME TypeOK, Accepted # {}
    PROVE  \E i \in Accepted : \A j \in Accepted : j <= i
  <1> DEFINE fromEnd == {Len(log) - i : i \in Accepted}
             less == OpToRel(<, Nat)
  <1>1. Accepted \subseteq 1..Len(log) /\ Len(log) \in Nat
    BY LenProperties DEF TypeOK, Accepted
  <1>2. fromEnd \subseteq Nat /\ fromEnd # {}
    <2>1. \A i \in Accepted : Len(log) - i \in Nat
      BY <1>1
    <2>2. fromEnd \subseteq Nat
      BY <2>1
    <2>3. fromEnd # {}
      OBVIOUS
    <2> QED  BY <2>2, <2>3
  <1>3. PICK x \in fromEnd : \A y \in fromEnd : <<y, x>> \notin less
    <2> HIDE DEF fromEnd, less
    <2>1. IsWellFoundedOn(less, Nat)
      BY NatLessThanWellFounded DEF less
    <2> QED  BY <1>2, <2>1, WFMin
  <1>4. \A y \in fromEnd : ~ (y < x)
    BY <1>2, <1>3 DEF OpToRel
  <1>5. PICK i \in Accepted : x = Len(log) - i
    OBVIOUS
  <1>6. ASSUME NEW j \in Accepted
        PROVE  j <= i
    <2>1. Len(log) - j \in fromEnd
      OBVIOUS
    <2>2. i \in Nat /\ j \in Nat
      BY <1>1
    <2> HIDE DEF fromEnd, less
    <2> QED  BY <1>1, <1>4, <1>5, <2>1, <2>2
  <1> QED  BY <1>6

\* Both read-backs a rollback may return are read-backs of a host.
LEMMA RollbackReadsBack ==
    ASSUME TypeInv, NEW r \in Runs, Rollback(r)
    PROVE  LET done == [exercised |-> TRUE, restored |-> RollbackTarget(r),
                        digest |-> TreeAt(host.store, RollbackTarget(r)), succeeded |-> TRUE]
               undone == [exercised |-> TRUE, restored |-> None, digest |-> None,
                          succeeded |-> FALSE]
           IN  /\ host' \in Host /\ RollbackTarget(r) \in Dirs
               /\ ReadBack(host', TRUE, done) \in LiveState
               /\ ReadBack(host', TRUE, undone) \in LiveState
  <1> DEFINE done == [exercised |-> TRUE, restored |-> RollbackTarget(r),
                      digest |-> TreeAt(host.store, RollbackTarget(r)), succeeded |-> TRUE]
             undone == [exercised |-> TRUE, restored |-> None, digest |-> None,
                        succeeded |-> FALSE]
  <1>1. TypeOK /\ Fits(pc[r], reached[r], staged[r], live[r], outcome[r])
    BY DEF TypeInv, Held
  <1>2. RollbackTarget(r) \in Dirs
    BY <1>1 DEF TypeOK, Rollback, Fits, Live, StagedRelease, RollbackTarget
  <1>3. host' \in Host
    BY <1>1, <1>2, RestoredTyped, InterruptedTyped DEF Rollback, TypeOK
  <1>4. done \in RollbackRecord /\ undone \in RollbackRecord
    BY <1>1, <1>2, TreeAtTyped DEF RollbackRecord
  <1> HIDE DEF done, undone
  <1>5. ReadBack(host', TRUE, done) \in LiveState /\ ReadBack(host', TRUE, undone) \in LiveState
    BY <1>1, <1>3, <1>4, ReadBackTyped
  <1> QED  BY <1>2, <1>3, <1>5 DEF done, undone

LEMMA ExecuteTyped ==
    ASSUME TypeInv, NEW r \in Runs, Execute(r)
    PROVE  TypeInv'
  <1>0. /\ TypeOK /\ Held /\ Fits(pc[r], reached[r], staged[r], live[r], outcome[r])
        /\ staged = [staged EXCEPT ![r] = staged[r]]
        /\ live = [live EXCEPT ![r] = live[r]]
        /\ reached = [reached EXCEPT ![r] = reached[r]]
        /\ staged[r] \in StagedRelease \cup {None} /\ live[r] \in LiveState \cup {None}
    BY DEF TypeInv, Held, TypeOK
  <1>1. CASE Reassert(r)
    <2>1. PICK p \in {"preconditions", "refused"} : pc' = [pc EXCEPT ![r] = p]
      BY <1>1 DEF Reassert
    <2>2. /\ Lengths(pc[r]) \subseteq Lengths(p) /\ pc[r] \in Beginning \ Ended
          /\ p \in Beginning
      BY <1>1 DEF Reassert, Lengths, Beginning, Ended
    <2>3. Types' /\ Held'
      BY <1>1, <2>1, <2>2, MoveTyped DEF Reassert
    <2> QED  BY <1>0, <1>1, <2>3 DEF TypeInv, TypeOK, Types, Reassert, session
  <1>2. CASE Preconditions(r)
    <2>1. PICK p \in {"fetch", "refused"} :
             /\ pc' = [pc EXCEPT ![r] = p]
             /\ \/ UNCHANGED outcome
                \/ (p \in Ended /\ outcome' = [outcome EXCEPT ![r] = "failed"])
      BY <1>2 DEF Preconditions, Ended
    <2>2. /\ Lengths(pc[r]) \subseteq Lengths(p) /\ pc[r] \in Beginning \ Ended
          /\ p \in Beginning
      BY <1>2 DEF Preconditions, Lengths, Beginning, Ended
    <2>3. Types' /\ Held'
      BY <1>2, <2>1, <2>2, MoveTyped DEF Preconditions
    <2>4. LastAccepted \in Digests \cup {None}
      <3>1. CASE Accepted = {}
        BY <3>1 DEF LastAccepted
      <3>2. CASE Accepted # {}
        <4> DEFINE last(i) == \A j \in Accepted : j <= i
        <4>1. LastAccepted = log[CHOOSE i \in Accepted : last(i)].tree
          BY <3>2 DEF LastAccepted
        <4>2. \E i \in Accepted : last(i)
          BY <1>0, <3>2, LastOfSome
        <4>3. (CHOOSE i \in Accepted : last(i)) \in Accepted
          BY <4>2
        <4>4. \A i \in Accepted : log[i] \in Receipt
          BY <1>0, ElementOfSeq DEF Accepted, TypeOK
        <4> QED  BY <4>1, <4>3, <4>4 DEF Receipt
      <3> QED  BY <3>1, <3>2
    <2>5. previous' \in [Runs -> Digests \cup {None}]
      BY ZenonT(40), <1>0, <1>2, <2>4 DEF Preconditions, TypeOK
    <2> QED  BY <1>0, <1>2, <2>3, <2>5 DEF TypeInv, TypeOK, Types, Preconditions
  <1>3. CASE Fetch(r)
    <2>1. reached[r] = Upto(0) /\ 0 + 1 \in Lengths("check") /\ staged[r] = None /\ live[r] = None
      BY <1>0, <1>3 DEF Fetch, Fits, Lengths, Beginning
    <2>2. CASE Reach(r, "check") /\ UNCHANGED <<host, staged, live>>
      <3>1. Types' /\ Held'
        <4>1. \E n \in 0..6 : reached[r] = Upto(n) /\ n + 1 \in Lengths("check")
          BY <2>1, 0 \in 0..6
        <4>2. /\ staged' \in [Runs -> StagedRelease \cup {None}]
              /\ live' \in [Runs -> LiveState \cup {None}]
          BY <1>0, <2>2 DEF TypeOK
        <4> QED  BY <1>3, <2>1, <2>2, <4>1, <4>2, ReachTyped DEF Fetch, Executing, Beginning, Live
      <3> QED  BY <1>0, <1>3, <2>2, <3>1 DEF TypeInv, TypeOK, Types, Fetch, session
    <2>3. CASE Raise(r)
      <3>1. Types' /\ Held' /\ host' \in Host
        BY <1>3, <2>3, RaiseTyped DEF Fetch, Executing
      <3> QED  BY <1>0, <1>3, <3>1 DEF TypeInv, TypeOK, Types, Fetch, session
    <2> QED  BY <1>3, <2>2, <2>3 DEF Fetch
  <1>4. CASE Check(r)
    <2>1. /\ reached[r] = Upto(1) /\ 1 + 1 \in Lengths("rehearse")
          /\ staged[r] = None /\ live[r] = None
      BY <1>0, <1>4 DEF Check, Fits, Lengths, Beginning
    <2>2. CASE Reach(r, "rehearse") /\ UNCHANGED <<host, staged, live>>
      <3>1. Types' /\ Held'
        <4>1. \E n \in 0..6 : reached[r] = Upto(n) /\ n + 1 \in Lengths("rehearse")
          BY <2>1, 1 \in 0..6
        <4>2. /\ staged' \in [Runs -> StagedRelease \cup {None}]
              /\ live' \in [Runs -> LiveState \cup {None}]
          BY <1>0, <2>2 DEF TypeOK
        <4> QED  BY <1>4, <2>1, <2>2, <4>1, <4>2, ReachTyped DEF Check, Executing, Beginning, Live
      <3> QED  BY <1>0, <1>4, <2>2, <3>1 DEF TypeInv, TypeOK, Types, Check, session
    <2>3. CASE Stop(r, Append(reached[r], "VALIDATED"), None, None) /\ UNCHANGED host
      <3>1. STATES[1 + 1] = "VALIDATED"
        BY DEF STATES
      <3>2. Append(reached[r], "VALIDATED") = Upto(2)
        BY <2>1, <3>1, UptoStep
      <3>3. 2 \in 0..6
        OBVIOUS
      <3>4. Types' /\ Held'
        BY <1>4, <2>3, <3>2, <3>3, StopTyped DEF Check, Executing
      <3> QED  BY <1>0, <1>4, <2>3, <3>4 DEF TypeInv, TypeOK, Types, Check, session
    <2>4. CASE Raise(r)
      <3>1. Types' /\ Held' /\ host' \in Host
        BY <1>4, <2>4, RaiseTyped DEF Check, Executing
      <3> QED  BY <1>0, <1>4, <3>1 DEF TypeInv, TypeOK, Types, Check, session
    <2> QED  BY <1>4, <2>2, <2>3, <2>4 DEF Check
  <1>5. CASE Rehearse(r)
    <2>1. /\ reached[r] = Upto(2) /\ 2 + 1 \in Lengths("stage")
          /\ staged[r] = None /\ live[r] = None
      BY <1>0, <1>5 DEF Rehearse, Fits, Lengths, Beginning
    <2>2. CASE Reach(r, "stage") /\ UNCHANGED <<host, staged, live>>
      <3>1. Types' /\ Held'
        <4>1. \E n \in 0..6 : reached[r] = Upto(n) /\ n + 1 \in Lengths("stage")
          BY <2>1, 2 \in 0..6
        <4>2. /\ staged' \in [Runs -> StagedRelease \cup {None}]
              /\ live' \in [Runs -> LiveState \cup {None}]
          BY <1>0, <2>2 DEF TypeOK
        <4> QED  BY <1>5, <2>1, <2>2, <4>1, <4>2, ReachTyped DEF Rehearse, Executing, Beginning, Live
      <3> QED  BY <1>0, <1>5, <2>2, <3>1 DEF TypeInv, TypeOK, Types, Rehearse, session
    <2>3. CASE Stop(r, Append(reached[r], "REHEARSED"), None, None) /\ UNCHANGED host
      <3>1. STATES[2 + 1] = "REHEARSED"
        BY DEF STATES
      <3>2. Append(reached[r], "REHEARSED") = Upto(3)
        BY <2>1, <3>1, UptoStep
      <3>3. 3 \in 0..6
        OBVIOUS
      <3>4. Types' /\ Held'
        BY <1>5, <2>3, <3>2, <3>3, StopTyped DEF Rehearse, Executing
      <3> QED  BY <1>0, <1>5, <2>3, <3>4 DEF TypeInv, TypeOK, Types, Rehearse, session
    <2>4. CASE Raise(r)
      <3>1. Types' /\ Held' /\ host' \in Host
        BY <1>5, <2>4, RaiseTyped DEF Rehearse, Executing
      <3> QED  BY <1>0, <1>5, <3>1 DEF TypeInv, TypeOK, Types, Rehearse, session
    <2> QED  BY <1>5, <2>2, <2>3, <2>4 DEF Rehearse
  <1>6. CASE Stage(r)
    <2>1. /\ reached[r] = Upto(3) /\ 3 + 1 \in Lengths("reload") /\ live[r] = None
      BY <1>0, <1>6 DEF Stage, Fits, Lengths, Beginning
    <2>2. host.pointer \in Dirs \cup {None} /\ r \in Dirs
      BY <1>0 DEF TypeOK, Host, Dirs
    <2>3. PICK release \in StagedRelease : release = [current |-> r, previous |-> host.pointer]
      BY <2>2 DEF StagedRelease
    <2>4. release # None
      BY NoneAssumption
    <2>5. prior' \in [Runs -> Prior]
      BY <1>0, <1>6, <2>2, FoundTyped DEF Stage, TypeOK
    <2>6. CASE /\ host' = Activated(r) /\ Reach(r, "reload")
               /\ staged' = [staged EXCEPT ![r] = release] /\ UNCHANGED live
      <3>1. Types' /\ Held'
        <4>1. \E n \in 0..6 : reached[r] = Upto(n) /\ n + 1 \in Lengths("reload")
          BY <2>1, 3 \in 0..6
        <4>2. /\ staged' \in [Runs -> StagedRelease \cup {None}] /\ staged'[r] # None
              /\ live' \in [Runs -> LiveState \cup {None}]
              /\ \A s \in Runs \ {r} : staged'[s] = staged[s] /\ live'[s] = live[s]
          BY <1>0, <2>4, <2>6 DEF TypeOK
        <4> QED  BY <1>6, <2>6, <4>1, <4>2, ReachTyped DEF Stage, Executing, Beginning
      <3> QED  BY <1>0, <1>6, <2>5, <2>6, <3>1, WrittenTyped
               DEF TypeInv, TypeOK, Types, Stage, session
    <2>7. CASE host' = Activated(r) /\ Stop(r, Append(reached[r], "STAGED"), release, None)
      <3>1. STATES[3 + 1] = "STAGED"
        BY DEF STATES
      <3>2. Append(reached[r], "STAGED") = Upto(4)
        BY <2>1, <3>1, UptoStep
      <3>3. 4 \in 0..6
        OBVIOUS
      <3>4. Types' /\ Held'
        BY <1>6, <2>7, <3>2, <3>3, StopTyped DEF Stage, Executing
      <3> QED  BY <1>0, <1>6, <2>5, <2>7, <3>4, WrittenTyped
               DEF TypeInv, TypeOK, Types, Stage, session
    <2>8. CASE Raise(r)
      <3>1. Types' /\ Held' /\ host' \in Host
        BY <1>6, <2>8, RaiseTyped DEF Stage, Executing
      <3> QED  BY <1>0, <1>6, <2>5, <3>1 DEF TypeInv, TypeOK, Types, Stage, session
    <2> QED  BY <1>6, <2>3, <2>6, <2>7, <2>8 DEF Stage
  <1>7. CASE Reload(r)
    <2>1. /\ reached[r] = Upto(4) /\ 4 + 1 \in Lengths("observe")
          /\ staged[r] # None
      BY <1>0, <1>7 DEF Reload, Fits, Lengths, Live
    <2>2. CASE host' = Reloaded /\ Reach(r, "observe") /\ UNCHANGED <<staged, live>>
      <3>1. Types' /\ Held'
        <4>1. \E n \in 0..6 : reached[r] = Upto(n) /\ n + 1 \in Lengths("observe")
          BY <2>1, 4 \in 0..6
        <4>2. /\ staged' \in [Runs -> StagedRelease \cup {None}]
              /\ live' \in [Runs -> LiveState \cup {None}]
          BY <1>0, <2>2 DEF TypeOK
        <4> QED  BY <1>7, <2>1, <2>2, <4>1, <4>2, ReachTyped DEF Reload, Executing, Beginning, Live
      <3>2. host.pointer \in Dirs \cup {None}
        BY <1>0 DEF TypeOK, Host
      <3>3. host' \in Host
        BY <1>0, <2>2, <3>2, RestoredTyped
      <3> QED  BY <1>0, <1>7, <2>2, <3>1, <3>3 DEF TypeInv, TypeOK, Types, Reload, session
    <2>3. CASE Raise(r)
      <3>1. Types' /\ Held' /\ host' \in Host
        BY <1>7, <2>3, RaiseTyped DEF Reload, Executing
      <3> QED  BY <1>0, <1>7, <3>1 DEF TypeInv, TypeOK, Types, Reload, session
    <2> QED  BY <1>7, <2>2, <2>3 DEF Reload
  <1>8. CASE Observe(r)
    <2>1. /\ reached[r] = Upto(5) /\ 5 + 1 \in Lengths("judge")
          /\ staged[r] # None
      BY <1>0, <1>8 DEF Observe, Fits, Lengths, Live
    <2>2. CASE \E sound \in BOOLEAN, record \in Exercises(r) :
                 /\ host' = IF record = None \/ staged[r].previous = None THEN host
                            ELSE Restored(r)
                 /\ live' = [live EXCEPT ![r] = ReadBack(host', sound, record)]
                 /\ Reach(r, "judge")
                 /\ UNCHANGED staged
      <3>1. PICK sound \in BOOLEAN, record \in Exercises(r) :
              /\ host' = IF record = None \/ staged[r].previous = None THEN host
                         ELSE Restored(r)
              /\ live' = [live EXCEPT ![r] = ReadBack(host', sound, record)]
              /\ Reach(r, "judge")
              /\ UNCHANGED staged
        BY <2>2
      <3>2. host' \in Host
        BY <1>0, <3>1, RestoredTyped DEF TypeOK, Dirs
      <3>3. record \in RollbackRecord \cup {None}
        <4>1. staged[r].previous \in Dirs \cup {None}
          BY <1>0, <2>1 DEF StagedRelease
        <4>2. TreeAt(host.store, staged[r].previous) \in Digests \cup {None}
          BY <1>0, <4>1, TreeAtTyped
        <4> DEFINE undone == [exercised |-> TRUE, restored |-> None, digest |-> None,
                              succeeded |-> FALSE]
                   done == [exercised : {TRUE}, restored : {staged[r].previous},
                            digest : {None, TreeAt(host.store, staged[r].previous)},
                            succeeded : {TRUE}]
        <4>3. record \in {None, undone} \cup done
          BY DEF Exercises
        <4>4. undone \in RollbackRecord
          BY DEF RollbackRecord
        <4>5. done \subseteq RollbackRecord
          BY <4>1, <4>2 DEF RollbackRecord
        <4> QED  BY <4>3, <4>4, <4>5
      <3>4. PICK reading \in LiveState : reading = ReadBack(host', sound, record)
        BY <1>0, <3>2, <3>3, ReadBackTyped
      <3>5. reading # None
        BY <3>4, NoneAssumption
      <3>6. live' = [live EXCEPT ![r] = reading]
        BY <3>1, <3>4
      <3>7. /\ staged' \in [Runs -> StagedRelease \cup {None}] /\ staged'[r] # None
            /\ live' \in [Runs -> LiveState \cup {None}] /\ live'[r] # None
            /\ \A s \in Runs \ {r} : staged'[s] = staged[s] /\ live'[s] = live[s]
        BY <1>0, <2>1, <3>1, <3>5, <3>6 DEF TypeOK
      <3>8. Types' /\ Held'
        <4>1. \E n \in 0..6 : reached[r] = Upto(n) /\ n + 1 \in Lengths("judge")
          BY <2>1, 5 \in 0..6
        <4> QED  BY <1>8, <3>1, <3>7, <4>1, ReachTyped DEF Observe, Executing, Beginning
      <3> QED  BY <1>0, <1>8, <3>2, <3>8 DEF TypeInv, TypeOK, Types, Observe, session
    <2>3. CASE Raise(r)
      <3>1. Types' /\ Held' /\ host' \in Host
        BY <1>8, <2>3, RaiseTyped DEF Observe, Executing
      <3> QED  BY <1>0, <1>8, <3>1 DEF TypeInv, TypeOK, Types, Observe, session
    <2> QED  BY <1>8, <2>2, <2>3 DEF Observe
  <1>9. CASE Judge(r)
    <2>1. reached[r] = Upto(6) /\ staged[r] # None /\ live[r] # None
      BY <1>0, <1>9 DEF Judge, Fits, Lengths, Live
    <2>2. CASE /\ pc' = [pc EXCEPT ![r] = "accept"]
               /\ UNCHANGED <<reached, staged, live, outcome, trouble, log>>
      <3>1. Types'
        BY <1>0, <2>2 DEF TypeOK, Types, Holding, Executing
      <3>2. ASSUME NEW s \in Runs
            PROVE  Fits(pc[s], reached[s], staged[s], live[s], outcome[s])'
        <4>1. Fits(pc[s], reached[s], staged[s], live[s], outcome[s])
          BY <1>0 DEF Held
        <4>2. CASE s = r
          <5>1. pc'[s] = "accept" /\ outcome[s] = None
            BY <1>0, <1>9, <2>2, <4>1, <4>2 DEF TypeOK, Fits, Judge, Ended
          <5>2. 6 \in Lengths("accept") /\ "accept" \notin Beginning \cup Ended
            BY DEF Lengths, Beginning, Ended
          <5> QED  BY <2>1, <2>2, <4>2, <5>1, <5>2 DEF Fits
        <4>3. CASE s # r
          <5>1. pc'[s] = pc[s]
            BY <1>0, <2>2, <4>3 DEF TypeOK
          <5> QED  BY <2>2, <4>1, <5>1
        <4> QED  BY <4>2, <4>3
      <3> QED  BY <1>0, <1>9, <3>1, <3>2 DEF TypeInv, TypeOK, Types, Held, Judge, session
    <2>3. CASE Stop(r, reached[r], staged[r], live[r])
      <3>1. Types' /\ Held'
        BY <1>0, <1>9, <2>1, <2>3, 6 \in 0..6, StopTyped DEF Judge, Executing
      <3> QED  BY <1>0, <1>9, <3>1 DEF TypeInv, TypeOK, Types, Judge, session
    <2> QED  BY <1>9, <2>2, <2>3 DEF Judge
  <1>10. CASE Accept(r)
    <2>1. reached[r] = Upto(6)
      BY <1>0, <1>10 DEF Accept, Fits, Lengths
    <2>2. CASE /\ reached' = [reached EXCEPT ![r] = Append(@, "ACCEPTED")]
               /\ Finish(r, "accepted", None, live[r])
               /\ UNCHANGED <<host, staged, live>>
      <3>1. Append(Upto(6), "ACCEPTED") = Upto(7)
        <4>1. STATES[6 + 1] = "ACCEPTED"
          BY DEF STATES
        <4> QED  BY <4>1, UptoStep, 6 \in 0..6
      <3>2. reached' = [reached EXCEPT ![r] = Upto(7)]
        BY <1>0, <2>1, <2>2, <3>1
      <3>3. /\ staged' = [staged EXCEPT ![r] = staged[r]]
            /\ live' = [live EXCEPT ![r] = live[r]]
        BY <1>0, <2>2
      <3>4. Types' /\ Held'
        BY <1>0, <2>2, <3>2, <3>3, 7 \in 0..7, FinishTyped DEF Outcomes, Troubles
      <3> QED  BY <1>0, <1>10, <2>2, <3>4 DEF TypeInv, TypeOK, Types, Accept, session
    <2>3. CASE Raise(r)
      <3>1. Types' /\ Held' /\ host' \in Host
        BY <1>10, <2>3, RaiseTyped DEF Accept, Executing
      <3> QED  BY <1>0, <1>10, <3>1 DEF TypeInv, TypeOK, Types, Accept, session
    <2> QED  BY <1>10, <2>2, <2>3 DEF Accept
  <1>11. CASE Rollback(r)
    <2> DEFINE done == [exercised |-> TRUE, restored |-> RollbackTarget(r),
                        digest |-> TreeAt(host.store, RollbackTarget(r)), succeeded |-> TRUE]
               undone == [exercised |-> TRUE, restored |-> None, digest |-> None,
                          succeeded |-> FALSE]
    <2>1. PICK n \in 0..7 : reached[r] = Upto(n)
      BY <1>0, <1>11 DEF Rollback, Fits, Lengths
    <2>2. /\ reached' = [reached EXCEPT ![r] = Upto(n)]
          /\ staged' = [staged EXCEPT ![r] = staged[r]]
          /\ live' = [live EXCEPT ![r] = live[r]]
      BY <1>0, <1>11, <2>1 DEF Rollback
    <2>3. /\ host' \in Host
          /\ ReadBack(host', TRUE, done) \in LiveState
          /\ ReadBack(host', TRUE, undone) \in LiveState
      BY <1>11, RollbackReadsBack
    <2>4. \/ Finish(r, "rolled-back", None, ReadBack(host', TRUE, done))
          \/ Finish(r, "rolled-back", None, ReadBack(host', TRUE, undone))
          \/ Finish(r, "failed", "ROLLBACK-UNOBSERVED", live[r])
          \/ Finish(r, "failed", "ROLLBACK-RAISED", live[r])
      BY <1>11 DEF Rollback
    <2> HIDE DEF done, undone
    <2>5. Types' /\ Held'
      <3>1. CASE Finish(r, "rolled-back", None, ReadBack(host', TRUE, done))
        BY <1>0, <2>2, <2>3, <3>1, FinishTyped DEF Outcomes, Troubles
      <3>2. CASE Finish(r, "rolled-back", None, ReadBack(host', TRUE, undone))
        BY <1>0, <2>2, <2>3, <3>2, FinishTyped DEF Outcomes, Troubles
      <3>3. CASE Finish(r, "failed", "ROLLBACK-UNOBSERVED", live[r])
        BY <1>0, <2>2, <3>3, FinishTyped DEF Outcomes, Troubles
      <3>4. CASE Finish(r, "failed", "ROLLBACK-RAISED", live[r])
        BY <1>0, <2>2, <3>4, FinishTyped DEF Outcomes, Troubles
      <3> QED  BY <2>4, <3>1, <3>2, <3>3, <3>4
    <2> QED  BY <1>0, <1>11, <2>3, <2>5 DEF TypeInv, TypeOK, Types, Rollback, session
  <1>12. CASE Kill(r)
    <2>1. host' \in Host
      BY <1>12, InterruptedTyped DEF Kill
    <2>2. prior' \in [Runs -> Prior]
      BY <1>0, <1>12, FoundTyped DEF Kill, TypeOK
    <2>3. pc' \in [Runs -> {"undispatched"} \cup Queueing \cup Holding \cup Ended]
      BY <1>0, <1>12 DEF Kill, TypeOK, Ended
    <2>4. ASSUME NEW s \in Runs
          PROVE  Fits(pc[s], reached[s], staged[s], live[s], outcome[s])'
      <3>1. Fits(pc[s], reached[s], staged[s], live[s], outcome[s])
        BY <1>0 DEF Held
      <3>2. CASE s = r
        <4>1. pc'[s] = "killed" /\ "killed" \notin Beginning \cup Live /\ "killed" \in Ended
          BY <1>0, <1>12, <3>2 DEF Kill, TypeOK, Beginning, Live, Ended
        <4>2. \E n \in Lengths("killed") : reached'[s] = Upto(n)
          <5>1. Lengths(pc[s]) \subseteq 0..7 /\ Lengths("killed") = 0..7
            BY DEF Lengths
          <5> QED  BY <1>12, <3>1, <5>1 DEF Kill, Fits
        <4> QED  BY <4>1, <4>2 DEF Fits
      <3>3. CASE s # r
        <4>1. pc'[s] = pc[s]
          BY <1>0, <1>12, <3>3 DEF Kill, TypeOK
        <4> QED  BY <1>12, <3>1, <4>1 DEF Kill
      <3> QED  BY <3>2, <3>3
    <2> QED  BY <1>0, <1>12, <2>1, <2>2, <2>3, <2>4 DEF TypeInv, TypeOK, Held, Kill, session
  <1> QED  BY <1>1, <1>2, <1>3, <1>4, <1>5, <1>6, <1>7, <1>8, <1>9, <1>10, <1>11, <1>12
           DEF Execute

LEMMA HandsTyped ==
    ASSUME TypeInv, NEW d \in Dirs, ByHand(d)
    PROVE  TypeInv'
  <1>1. TypeOK /\ Held /\ d \in Dirs \cup {None} /\ Restored(d) \in Host
    BY RestoredTyped DEF TypeInv
  <1>2. UNCHANGED <<tip, pc, reached, staged, live, outcome, trouble, log, prior, session>>
    BY DEF ByHand, HandEdit, HandUndo, HandActivate
  <1>3. Held'
    BY <1>1, <1>2 DEF Held
  <1>4. host' \in Host
    <2>1. CASE HandEdit(d)
      BY <1>1, <2>1, PromotionAssumption DEF HandEdit, TypeOK, Host
    <2>2. CASE HandUndo(d)
      BY <1>1, <2>2, OriginalTyped DEF HandUndo, TypeOK, Host
    <2>3. CASE HandActivate(d)
      BY <1>1, <2>3 DEF HandActivate
    <2> QED  BY <2>1, <2>2, <2>3 DEF ByHand
  <1>5. hands' \in 0..(MaxHands + 1)
    BY <1>1, PromotionAssumption DEF TypeOK, ByHand, HandEdit, HandUndo, HandActivate
  <1> QED  BY <1>1, <1>2, <1>3, <1>4, <1>5 DEF TypeInv, TypeOK, session

LEMMA TypeNext == TypeInv /\ [Next]_vars => TypeInv'
  <1> SUFFICES ASSUME TypeInv, [Next]_vars
               PROVE  TypeInv'
    OBVIOUS
  <1>1. CASE Merge
    <2>1. tip' \in Revisions
      BY <1>1, PromotionAssumption DEF TypeInv, TypeOK, Merge, Revisions
    <2> QED  BY <1>1, <2>1 DEF TypeInv, TypeOK, Held, Merge
  <1>2. CASE \E r \in Runs : Workflow(r) \/ Execute(r)
    BY <1>2, WorkflowTyped, ExecuteTyped
  <1>3. CASE \E d \in Dirs : ByHand(d)
    BY <1>3, HandsTyped
  <1>4. CASE UNCHANGED vars
    BY <1>4 DEF vars, TypeInv, TypeOK, Held, Fits
  <1> QED  BY <1>1, <1>2, <1>3, <1>4 DEF Next

\* Every state promote.yml and promote() go through is well typed, and the states
\* a run has reached are a prefix of STATES that matches where it is: no call is
\* skipped, none is recorded twice, and nothing is staged before its time.
THEOREM TypeCorrect == Spec => []TypeOK
  <1>1. TypeInv => TypeOK
    BY DEF TypeInv
  <1> QED  BY <1>1, TypeInit, TypeNext, PTL DEF Spec

-----------------------------------------------------------------------------
(* What a step of a run may touch. *)

\* The parts of the state that belong to run s.
Same(s) ==
    /\ pc'[s] = pc[s] /\ reached'[s] = reached[s] /\ staged'[s] = staged[s]
    /\ live'[s] = live[s] /\ outcome'[s] = outcome[s] /\ trouble'[s] = trouble[s]
    /\ prior'[s] = prior[s]

\* The outcome of run r is decided, and a receipt filed for it.
Entered(r, result) ==
    /\ outcome' = [outcome EXCEPT ![r] = result]
    /\ \E e \in Receipt : /\ log' = Append(log, e)
                          /\ e.run = r /\ e.rev = request[r].rev
                          /\ e.tree = Tree(r) /\ e.outcome = result

LEMMA FinishEnters ==
    ASSUME TypeOK, NEW r \in Runs, NEW result \in Outcomes, NEW finding,
           NEW reading \in LiveState \cup {None}, Finish(r, result, finding, reading)
    PROVE  Entered(r, result)
  <1> DEFINE receipt ==
        [run |-> r, outcome |-> result, rev |-> request[r].rev, tree |-> Tree(r),
         current |-> IF reading = None THEN None ELSE reading.current,
         restored |-> IF reading = None \/ reading.rollback = None
                      THEN None ELSE reading.rollback.succeeded]
  <1>1. request[r].rev \in Revisions /\ r \in Dirs
    BY DEF TypeOK, Request, Dirs
  <1>2. reading # None => reading.current \in Dirs \cup {None}
    BY DEF LiveState
  <1>3. reading # None /\ reading.rollback # None => reading.rollback.succeeded \in BOOLEAN
    BY DEF LiveState, RollbackRecord
  <1>4. receipt \in Receipt
    BY <1>1, <1>2, <1>3, TreeTyped DEF Receipt
  <1>5. log' = Append(log, receipt)
    BY DEF Finish, File
  <1>6. /\ receipt.run = r /\ receipt.rev = request[r].rev
        /\ receipt.tree = Tree(r) /\ receipt.outcome = result
    OBVIOUS
  <1> HIDE DEF receipt
  <1>7. outcome' = [outcome EXCEPT ![r] = result]
    BY DEF Finish
  <1> QED  BY <1>4, <1>5, <1>6, <1>7 DEF Entered

LEMMA StopEnters ==
    ASSUME TypeOK, NEW r \in Runs, NEW states, NEW release,
           NEW reading \in LiveState \cup {None}, Stop(r, states, release, reading)
    PROVE  UNCHANGED <<outcome, trouble, log>> \/ Entered(r, "failed")
  BY FinishEnters DEF Stop, Outcomes

LEMMA RaiseEnters ==
    ASSUME TypeOK, NEW r \in Runs, Raise(r)
    PROVE  UNCHANGED <<outcome, trouble, log>> \/ Entered(r, "failed")
  <1>1. live[r] \in LiveState \cup {None}
    BY DEF TypeOK
  <1> QED  BY <1>1, StopEnters DEF Raise

LEMMA RaiseFails ==
    ASSUME TypeOK, NEW r \in Runs, Raise(r)
    PROVE  outcome'[r] = outcome[r] \/ outcome'[r] = "failed"
  <1>1. UNCHANGED <<outcome, trouble, log>> \/ Entered(r, "failed")
    BY RaiseEnters
  <1> QED  BY <1>1 DEF Entered, TypeOK

\* Only accept files an accepted receipt, only a rollback a rolled-back one.
LEMMA ExecuteEnters ==
    ASSUME TypeInv, NEW r \in Runs, Execute(r)
    PROVE  \/ UNCHANGED <<outcome, log>>
           \/ /\ pc[r] = "preconditions" /\ UNCHANGED log
              /\ outcome' = [outcome EXCEPT ![r] = "failed"]
           \/ Entered(r, "failed")
           \/ pc[r] = "accept" /\ Entered(r, "accepted")
           \/ Rollback(r) /\ Entered(r, "rolled-back")
  <1>1. TypeOK /\ live[r] \in LiveState \cup {None}
    BY DEF TypeInv, TypeOK
  <1>2. CASE Reassert(r) \/ Preconditions(r) \/ Kill(r)
    BY <1>2 DEF Reassert, Preconditions, Kill
  <1>3. CASE Fetch(r) \/ Reload(r) \/ Observe(r)
    BY <1>1, <1>3, RaiseEnters DEF Fetch, Reload, Observe, Reach
  <1>4. CASE Check(r) \/ Rehearse(r)
    BY <1>1, <1>4, RaiseEnters, StopEnters DEF Check, Rehearse, Reach
  <1>5. CASE Stage(r)
    <2>1. CASE Raise(r)
      BY <1>1, <2>1, RaiseEnters
    <2>2. CASE Reach(r, "reload")
      BY <2>2 DEF Reach
    <2>3. ASSUME NEW release, Stop(r, Append(reached[r], "STAGED"), release, None)
          PROVE  UNCHANGED <<outcome, trouble, log>> \/ Entered(r, "failed")
      BY <1>1, <2>3, StopEnters
    <2> QED  BY <1>5, <2>1, <2>2, <2>3 DEF Stage
  <1>6. CASE Judge(r)
    BY <1>1, <1>6, StopEnters DEF Judge
  <1>7. CASE Accept(r)
    BY <1>1, <1>7, RaiseEnters, FinishEnters DEF Accept, Outcomes
  <1>8. CASE Rollback(r)
    <2> DEFINE done == [exercised |-> TRUE, restored |-> RollbackTarget(r),
                        digest |-> TreeAt(host.store, RollbackTarget(r)), succeeded |-> TRUE]
               undone == [exercised |-> TRUE, restored |-> None, digest |-> None,
                          succeeded |-> FALSE]
    <2>1. /\ ReadBack(host', TRUE, done) \in LiveState
          /\ ReadBack(host', TRUE, undone) \in LiveState
      BY <1>8, RollbackReadsBack
    <2>2. \/ Finish(r, "rolled-back", None, ReadBack(host', TRUE, done))
          \/ Finish(r, "rolled-back", None, ReadBack(host', TRUE, undone))
          \/ Finish(r, "failed", "ROLLBACK-UNOBSERVED", live[r])
          \/ Finish(r, "failed", "ROLLBACK-RAISED", live[r])
      BY <1>8 DEF Rollback
    <2> HIDE DEF done, undone
    <2>3. Entered(r, "rolled-back") \/ Entered(r, "failed")
      BY <1>1, <2>1, <2>2, FinishEnters DEF Outcomes
    <2> QED  BY <1>8, <2>3
  <1> QED  BY <1>2, <1>3, <1>4, <1>5, <1>6, <1>7, <1>8 DEF Execute

LEMMA ExecuteFrame ==
    ASSUME TypeInv, NEW r \in Runs, Execute(r), NEW s \in Runs, s # r
    PROVE  Same(s)
  <1>1. TypeOK
    BY DEF TypeInv
  <1>2. CASE Reassert(r) \/ Preconditions(r) \/ Kill(r)
    BY <1>1, <1>2 DEF TypeOK, Same, Reassert, Preconditions, Kill
  <1>3. CASE Fetch(r) \/ Reload(r) \/ Observe(r)
    BY <1>1, <1>3 DEF TypeOK, Same, Fetch, Reload, Observe, Raise, Stop, Finish, Reach
  <1>4. CASE Check(r) \/ Rehearse(r)
    BY <1>1, <1>4 DEF TypeOK, Same, Check, Rehearse, Raise, Stop, Finish, Reach
  <1>5. CASE Stage(r)
    BY <1>1, <1>5 DEF TypeOK, Same, Stage, Raise, Stop, Finish, Reach
  <1>6. CASE Judge(r) \/ Accept(r)
    BY <1>1, <1>6 DEF TypeOK, Same, Judge, Accept, Raise, Stop, Finish
  <1>7. CASE Rollback(r)
    BY <1>1, <1>7 DEF TypeOK, Same, Rollback, Finish
  <1> QED  BY <1>2, <1>3, <1>4, <1>5, <1>6, <1>7 DEF Execute

LEMMA ExecuteHolds ==
    ASSUME TypeInv, NEW r \in Runs, Execute(r)
    PROVE  /\ pc[r] \in Executing
           /\ UNCHANGED <<tip, hands, request>>
  BY DEF Execute, Executing, session, Reassert, Preconditions, Fetch, Check, Rehearse,
         Stage, Reload, Observe, Judge, Accept, Rollback, Kill

-----------------------------------------------------------------------------
(* The concurrency group. *)

OneHolder == \A r, s \in Runs : pc[r] \in Holding /\ pc[s] \in Holding => r = s

LEMMA OneHolderNext ==
    ASSUME TypeInv, OneHolder, [Next]_vars
    PROVE  OneHolder'
  <1>1. TypeOK
    BY DEF TypeInv
  <1>2. CASE UNCHANGED pc
    BY <1>2 DEF OneHolder
  <1>3. ASSUME NEW r \in Runs, Dispatch(r)
        PROVE  OneHolder'
    <2>1. ASSUME NEW s \in Runs
          PROVE  pc'[s] = pc[s] \/ pc'[s] \notin Holding
      BY <1>3 DEF Dispatch, Holding, Reviewing, Executing
    <2> QED  BY <2>1 DEF OneHolder
  <1>4. ASSUME NEW r \in Runs, Admit(r)
        PROVE  OneHolder'
    <2>1. ASSUME NEW s \in Runs, s # r
          PROVE  pc'[s] \notin Holding
      BY <1>1, <1>4, <2>1 DEF Admit, TypeOK
    <2> QED  BY <2>1 DEF OneHolder
  <1>5. ASSUME NEW r \in Runs, pc[r] \in Holding,
               \A s \in Runs : s # r => pc'[s] = pc[s]
        PROVE  OneHolder'
    BY <1>5 DEF OneHolder
  <1>6. ASSUME NEW r \in Runs, Review(r)
        PROVE  OneHolder'
    <2>1. pc[r] \in Holding /\ \A s \in Runs : s # r => pc'[s] = pc[s]
      BY <1>1, <1>6 DEF Review, Holding, Reviewing, TypeOK
    <2> QED  BY <1>5, <2>1
  <1>7. ASSUME NEW r \in Runs, Execute(r)
        PROVE  OneHolder'
    <2>1. pc[r] \in Holding /\ \A s \in Runs : s # r => pc'[s] = pc[s]
      BY <1>7, ExecuteHolds, ExecuteFrame DEF Holding, Same
    <2> QED  BY <1>5, <2>1
  <1>8. CASE Merge \/ (\E d \in Dirs : ByHand(d)) \/ UNCHANGED vars
    BY <1>2, <1>8 DEF Merge, ByHand, HandEdit, HandUndo, HandActivate, vars
  <1> QED  BY <1>3, <1>4, <1>6, <1>7, <1>8 DEF Next, Workflow

-----------------------------------------------------------------------------
(* Revisions. *)

\* No accepted revision is newer than the tip, nor than the revision of a run
\* that has asserted the tip and not ended.
Bounded ==
    /\ \A i \in Accepted : log[i].rev <= tip
    /\ \A r \in Runs : request[r].rev <= tip
    /\ \A r \in Runs : pc[r] \in Executing \ {"asserting"} =>
          \A i \in Accepted : log[i].rev <= request[r].rev

RevisionsInv == OneHolder /\ Bounded /\ RevisionsNeverGoBack

\* The accepted receipts after one more is filed.
LEMMA AcceptedGrows ==
    ASSUME TypeOK, NEW e \in Receipt, log' = Append(log, e)
    PROVE  /\ \A i \in Accepted' : \/ i \in Accepted /\ log'[i] = log[i]
                                  \/ /\ i = Len(log) + 1 /\ log'[i] = e
                                     /\ e.outcome = "accepted"
           /\ \A i \in Accepted : i \in Accepted' /\ log'[i] = log[i]
           /\ Accepted \subseteq 1..Len(log)
           /\ Accepted' \subseteq 1..(Len(log) + 1)
           /\ Len(log) \in Nat
  <1>1. /\ Len(log) \in Nat /\ Len(log') = Len(log) + 1
        /\ \A i \in 1..Len(log) : log'[i] = log[i]
        /\ log'[Len(log) + 1] = e
    BY AppendProperties, LenProperties DEF TypeOK
  <1> QED  BY <1>1 DEF Accepted

LEMMA RevisionsNext ==
    ASSUME TypeInv, TypeInv', RevisionsInv, [Next]_vars
    PROVE  RevisionsInv'
  <1>1. TypeOK /\ TypeOK' /\ OneHolder'
    BY OneHolderNext DEF TypeInv, RevisionsInv
  <1>2. /\ tip \in Nat /\ tip' \in Nat
        /\ \A r \in Runs : request[r].rev \in Nat /\ request'[r].rev \in Nat
        /\ \A i \in 1..Len(log) : log[i].rev \in Nat
    <2>1. Revisions \subseteq Nat
      BY PromotionAssumption DEF Revisions
    <2>2. \A i \in 1..Len(log) : log[i] \in Receipt
      BY <1>1, ElementOfSeq DEF TypeOK
    <2> QED  BY <1>1, <2>1, <2>2 DEF TypeOK, Request, Receipt
  <1>3. ASSUME UNCHANGED <<log, pc, request>>, tip <= tip'
        PROVE  RevisionsInv'
    <2>1. Accepted' = Accepted /\ Accepted \subseteq 1..Len(log)
      BY <1>3 DEF Accepted
    <2> QED  BY <1>1, <1>2, <1>3, <2>1 DEF RevisionsInv, Bounded, RevisionsNeverGoBack
  <1>4. CASE Merge
    BY <1>2, <1>3, <1>4 DEF Merge
  <1>5. CASE (\E d \in Dirs : ByHand(d)) \/ UNCHANGED vars
    BY <1>2, <1>3, <1>5 DEF ByHand, HandEdit, HandUndo, HandActivate, vars, session
  <1>6. ASSUME NEW r \in Runs, Workflow(r)
        PROVE  RevisionsInv'
    <2>1. UNCHANGED <<tip, log>> /\ Accepted' = Accepted
      BY <1>6 DEF Workflow, Dispatch, Admit, Review, Accepted
    <2>2. \A s \in Runs : request'[s].rev <= tip
      BY <1>1, <1>6 DEF Workflow, Dispatch, Admit, Review, session, RevisionsInv, Bounded, TypeOK
    <2>3. ASSUME NEW s \in Runs, pc'[s] \in Executing \ {"asserting"}
          PROVE  pc[s] = pc'[s] /\ request'[s] = request[s]
      BY <1>1, <1>6, <2>3
         DEF Workflow, Dispatch, Admit, Review, session, TypeOK, Executing, Queueing
    <2> QED  BY <1>1, <2>1, <2>2, <2>3 DEF RevisionsInv, Bounded, RevisionsNeverGoBack
  <1>7. ASSUME NEW r \in Runs, Execute(r)
        PROVE  RevisionsInv'
    <2>1. /\ pc[r] \in Executing /\ UNCHANGED <<tip, request>>
          /\ \A s \in Runs : s # r => pc'[s] = pc[s]
      BY <1>7, ExecuteHolds, ExecuteFrame DEF Same
    <2>2. ASSUME NEW s \in Runs, pc'[s] \in Executing
          PROVE  s = r
      BY <2>1, <2>2 DEF RevisionsInv, OneHolder, Holding
    <2>3. CASE UNCHANGED log
      <3>1. Accepted' = Accepted
        BY <2>3 DEF Accepted
      <3>2. CASE pc[r] # "asserting"
        BY <1>1, <2>1, <2>2, <2>3, <3>1, <3>2 DEF RevisionsInv, Bounded, RevisionsNeverGoBack
      <3>3. CASE pc[r] = "asserting"
        <4>1. Reassert(r) \/ Kill(r)
          BY <1>7, <3>3 DEF Execute, Preconditions, Fetch, Check, Rehearse, Stage, Reload,
                            Observe, Judge, Accept, Rollback
        <4>2. pc'[r] \in Executing => request[r].rev = tip
          BY <1>1, <4>1 DEF Reassert, Kill, TypeOK, Executing
        <4> QED  BY <1>1, <2>1, <2>2, <2>3, <3>1, <4>2
                 DEF RevisionsInv, Bounded, RevisionsNeverGoBack
      <3> QED  BY <3>2, <3>3
    <2>4. ASSUME NEW e \in Receipt, log' = Append(log, e), e.rev = request[r].rev,
                 e.outcome = "accepted" => pc[r] = "accept"
          PROVE  RevisionsInv'
      <3>1. /\ \A i \in Accepted' : \/ i \in Accepted /\ log'[i] = log[i]
                                   \/ /\ i = Len(log) + 1 /\ log'[i] = e
                                      /\ e.outcome = "accepted"
            /\ Accepted \subseteq 1..Len(log) /\ Accepted' \subseteq 1..(Len(log) + 1)
            /\ Len(log) \in Nat
        BY <1>1, <2>4, AcceptedGrows
      <3>2. pc[r] # "asserting"
        <4>1. CASE pc[r] = "asserting"
          BY <1>1, <1>7, <2>4, <3>1, <4>1, LenProperties, AppendProperties
             DEF Execute, Reassert, Preconditions, Fetch, Check, Rehearse, Stage, Reload,
                 Observe, Judge, Accept, Rollback, Kill, TypeOK
        <4> QED  BY <4>1
      <3>3. \A i \in Accepted' : log'[i].rev <= request[r].rev
        BY <1>2, <2>1, <2>4, <3>1, <3>2 DEF RevisionsInv, Bounded
      <3>4. Bounded'
        <4>1. ASSUME NEW i \in Accepted'
              PROVE  log'[i].rev <= tip'
          <5>1. /\ log'[i].rev \in Nat /\ request[r].rev \in Nat /\ tip \in Nat
                /\ request[r].rev <= tip /\ tip' = tip
            BY <1>2, <2>1, <2>4, <3>1 DEF RevisionsInv, Bounded
          <5> QED  BY <3>3, <5>1
        <4>2. \A s \in Runs : request'[s].rev <= tip'
          BY <2>1 DEF RevisionsInv, Bounded
        <4>3. ASSUME NEW s \in Runs, pc'[s] \in Executing \ {"asserting"}, NEW i \in Accepted'
              PROVE  log'[i].rev <= request'[s].rev
          BY <2>1, <2>2, <3>3, <4>3
        <4> QED  BY <4>1, <4>2, <4>3 DEF Bounded
      <3>5. RevisionsNeverGoBack'
        <4> SUFFICES ASSUME NEW i \in Accepted', NEW j \in Accepted', i < j
                     PROVE  log'[i].rev <= log'[j].rev
          BY DEF RevisionsNeverGoBack
        <4>1. i \in Accepted /\ log'[i] = log[i]
          BY <3>1
        <4>2. CASE j \in Accepted /\ log'[j] = log[j]
          BY <4>1, <4>2 DEF RevisionsInv, RevisionsNeverGoBack
        <4>3. CASE log'[j] = e
          BY <2>4, <3>3, <4>3
        <4> QED  BY <3>1, <4>2, <4>3
      <3> QED  BY <1>1, <3>4, <3>5 DEF RevisionsInv
    <2> QED  BY <1>7, <2>3, <2>4, ExecuteEnters DEF Entered
  <1> QED  BY <1>4, <1>5, <1>6, <1>7 DEF Next

\* Accepted revisions never go back, for any number of runs, re-runs and merges:
\* the tip is compared under the group's lock, and nothing else can be accepted
\* between that comparison and the receipt.
THEOREM AcceptedRevisionsNeverGoBack == Spec => []RevisionsNeverGoBack
  <1>1. Init => RevisionsInv
    <2> SUFFICES ASSUME Init
                 PROVE  RevisionsInv
      OBVIOUS
    <2>1. OneHolder
      BY DEF Init, OneHolder, Holding, Reviewing, Executing
    <2>2. /\ \A i \in Accepted : i = 1 /\ log[i].rev = 0
          /\ \A r \in Runs : request[r].rev = 0 /\ pc[r] \notin Executing
      BY DEF Init, Accepted, Executing
    <2> QED  BY <2>1, <2>2 DEF Init, RevisionsInv, Bounded, RevisionsNeverGoBack
  <1>2. RevisionsInv => RevisionsNeverGoBack
    BY DEF RevisionsInv
  <1> QED  BY <1>1, <1>2, TypeInit, TypeNext, RevisionsNext, PTL DEF Spec

-----------------------------------------------------------------------------
(* The pointer captured at staging, and when that was. *)

Captured ==
    \A r \in Runs : pc[r] \in Live =>
       staged[r].previous = prior[r].pointer /\ prior[r].at <= hands

LEMMA StopLeaves ==
    ASSUME TypeOK, NEW r \in Runs, NEW states, NEW release, NEW reading,
           Stop(r, states, release, reading)
    PROVE  /\ pc'[r] \in {"finished", "rollback"} /\ staged'[r] = release
           /\ release = None => pc'[r] = "finished"
  BY DEF TypeOK, Stop, Finish

LEMMA CapturedNext ==
    ASSUME TypeInv, Captured, [Next]_vars
    PROVE  Captured'
  <1>1. TypeOK /\ Held /\ hands \in Nat /\ \A s \in Runs : prior[s].at \in Nat
    BY PromotionAssumption DEF TypeInv, TypeOK, Prior
  <1>2. CASE Merge \/ UNCHANGED vars
    BY <1>2 DEF Captured, Merge, vars
  <1>0. CASE \E d \in Dirs : ByHand(d)
    <2>1. UNCHANGED <<pc, staged, prior>> /\ hands' = hands + 1
      BY <1>0 DEF ByHand, HandEdit, HandUndo, HandActivate
    <2> QED  BY <1>1, <2>1 DEF Captured
  <1>3. ASSUME NEW r \in Runs, Workflow(r)
        PROVE  Captured'
    <2>1. UNCHANGED <<staged, prior, hands>>
      BY <1>3 DEF Workflow, Dispatch, Admit, Review
    <2>2. ASSUME NEW s \in Runs, pc'[s] \in Live
          PROVE  pc[s] \in Live
      BY <1>1, <1>3, <2>2 DEF Workflow, Dispatch, Admit, Review, Live, TypeOK
    <2> QED  BY <2>1, <2>2 DEF Captured
  <1>4. ASSUME NEW r \in Runs, Execute(r)
        PROVE  Captured'
    <2>1. ASSUME NEW s \in Runs, s # r, pc'[s] \in Live
          PROVE  staged'[s].previous = prior'[s].pointer /\ prior'[s].at <= hands
      BY <1>4, <2>1, ExecuteFrame DEF Captured, Same
    <2>0. UNCHANGED hands
      BY <1>1, <1>4, ExecuteHolds DEF TypeInv
    <2>2. ASSUME pc'[r] \in Live
          PROVE  staged'[r].previous = prior'[r].pointer /\ prior'[r].at <= hands
      <3>1. CASE pc[r] \in Live
        <4>1. UNCHANGED prior /\ staged'[r] = staged[r]
          BY <1>1, <1>4, <2>2, <3>1, StopLeaves
             DEF Execute, Reassert, Preconditions, Fetch, Check, Rehearse, Stage, Reload,
                 Observe, Judge, Accept, Rollback, Kill, Raise, Live
        <4> QED  BY <3>1, <4>1 DEF Captured
      <3>2. CASE Stage(r)
        <4>1. CASE Raise(r)
          <5>1. staged[r] = None
            BY <1>1, <3>2 DEF Stage, Held, Fits, Beginning
          <5>2. pc'[r] = "finished"
            BY <1>1, <4>1, <5>1, StopLeaves DEF Raise
          <5> QED  BY <2>2, <5>2 DEF Live
        <4>2. CASE staged' = [staged EXCEPT ![r] = [current |-> r, previous |-> host.pointer]]
          BY <1>1, <3>2, <4>2 DEF Stage, Found, TypeOK
        <4> QED  BY <3>2, <4>1, <4>2 DEF Stage, Stop
      <3>3. CASE pc[r] \in Beginning \ {"stage"}
        <4>1. staged[r] = None
          BY <1>1, <3>3 DEF Held, Fits
        <4>2. pc'[r] \notin Live
          <5>1. CASE Reassert(r) \/ Preconditions(r) \/ Kill(r)
            BY <1>1, <5>1 DEF Reassert, Preconditions, Kill, TypeOK, Live
          <5>2. CASE Fetch(r) \/ Check(r) \/ Rehearse(r)
            BY <1>1, <4>1, <5>2, StopLeaves
               DEF Fetch, Check, Rehearse, Raise, Reach, TypeOK, Live
          <5> QED  BY <1>4, <3>3, <5>1, <5>2
                   DEF Execute, Stage, Reload, Observe, Judge, Accept, Rollback, Beginning
        <4> QED  BY <2>2, <4>2
      <3>4. CASE Kill(r) /\ pc[r] = "stage"
        BY <1>1, <2>2, <3>4 DEF Kill, TypeOK, Live
      <3>5. pc[r] \in Live \/ pc[r] \in Beginning
        BY <1>4, ExecuteHolds DEF Executing, Live, Beginning
      <3>6. pc[r] = "stage" => Stage(r) \/ Kill(r)
        BY <1>4 DEF Execute, Reassert, Preconditions, Fetch, Check, Rehearse, Reload,
                    Observe, Judge, Accept, Rollback
      <3> QED  BY <3>1, <3>2, <3>3, <3>4, <3>5, <3>6
    <2> QED  BY <2>0, <2>1, <2>2 DEF Captured
  <1> QED  BY <1>0, <1>2, <1>3, <1>4 DEF Next

LEMMA OnlyExecuteDecides ==
    ASSUME TypeInv, [Next]_vars, NEW r \in Runs, outcome[r] = None, outcome'[r] # None
    PROVE  Execute(r)
  <1>1. PICK q \in Runs : Execute(q)
    BY DEF Next, Merge, ByHand, HandEdit, HandUndo, HandActivate, Workflow,
           Dispatch, Admit, Review, vars
  <1>2. q = r
    BY <1>1, ExecuteFrame DEF Same
  <1> QED  BY <1>1, <1>2

\* What a rolled-back receipt with proof says of the step that files it.
LEMMA ProvedRollbackStep ==
    ASSUME TypeInv, Captured, [Next]_vars, NEW r \in Runs,
           Files(r, "rolled-back"), log'[Len(log')].restored = TRUE
    PROVE  /\ host'.pointer = prior[r].pointer
           /\ host'.loaded = TreeAt(host'.store, host'.pointer)
  <1>1. TypeOK /\ Held /\ Execute(r)
    BY OnlyExecuteDecides, NoneAssumption DEF Files, Outcomes, TypeInv
  <1>2. Rollback(r) /\ Entered(r, "rolled-back")
    <2>1. outcome[r] = None /\ outcome'[r] = "rolled-back"
      BY DEF Files
    <2>2. None # "rolled-back"
      BY NoneAssumption DEF Outcomes
    <2>3. \A result : Entered(r, result) => outcome'[r] = result
      BY <1>1 DEF Entered, TypeOK
    <2> QED  BY <1>1, <2>1, <2>2, <2>3, ExecuteEnters DEF TypeOK
  <1> DEFINE done == [exercised |-> TRUE, restored |-> RollbackTarget(r),
                      digest |-> TreeAt(host.store, RollbackTarget(r)), succeeded |-> TRUE]
             undone == [exercised |-> TRUE, restored |-> None, digest |-> None,
                        succeeded |-> FALSE]
  <1>3. \A e : log' = Append(log, e) => log'[Len(log')] = e
    BY <1>1 DEF TypeOK
  <1>4. ~ Finish(r, "failed", "ROLLBACK-UNOBSERVED", live[r]) /\
        ~ Finish(r, "failed", "ROLLBACK-RAISED", live[r])
    BY <1>1 DEF Finish, Files, TypeOK
  <1>5. ASSUME Finish(r, "rolled-back", None, ReadBack(host', TRUE, undone))
        PROVE  FALSE
    <2>1. log'[Len(log')].restored = FALSE
      <3>1. ReadBack(host', TRUE, undone) # None /\ undone # None
        <4>1. undone \in RollbackRecord
          BY DEF RollbackRecord
        <4> HIDE DEF undone
        <4> QED  BY <1>2, <4>1, RollbackReadsBack, NoneAssumption DEF undone
      <3>2. ReadBack(host', TRUE, undone).rollback = undone
        BY DEF ReadBack
      <3>3. undone.succeeded = FALSE
        OBVIOUS
      <3> DEFINE reading == ReadBack(host', TRUE, undone)
      <3> HIDE DEF undone, reading
      <3>4. reading # None /\ reading.rollback = undone /\ undone # None
        BY <3>1, <3>2 DEF reading
      <3> DEFINE receipt ==
            [run |-> r, outcome |-> "rolled-back", rev |-> request[r].rev,
             tree |-> Tree(r),
             current |-> IF reading = None THEN None ELSE reading.current,
             restored |-> IF reading = None \/ reading.rollback = None
                          THEN None ELSE reading.rollback.succeeded]
      <3>5. log' = Append(log, receipt)
        BY <1>5 DEF Finish, File, reading
      <3>6. receipt.restored = FALSE
        BY <3>3, <3>4
      <3> HIDE DEF receipt
      <3> QED  BY <1>3, <3>5, <3>6
    <2> QED  BY <2>1
  <1>6. host' = Restored(RollbackTarget(r))
    BY <1>2, <1>4, <1>5 DEF Rollback
  <1>7. RollbackTarget(r) = prior[r].pointer
    BY <1>2 DEF Rollback, Captured, Live, RollbackTarget
  <1> QED  BY <1>1, <1>6, <1>7 DEF Restored, TypeOK, Host

\* A rollback whose record says it succeeded put the host back on the release it
\* was running when stage() was called, and the evaluators on that release's
\* bytes, whatever other runs and other hands did in between.
THEOREM ProvedRollbackRestoresThePriorRelease == Spec => ProvedRollbackRestores
  <1> DEFINE Step == \A r \in Runs :
                Files(r, "rolled-back") /\ log'[Len(log')].restored = TRUE =>
                   /\ host'.pointer = prior[r].pointer
                   /\ host'.loaded = TreeAt(host'.store, host'.pointer)
  <1>1. Init => Captured
    BY DEF Init, Captured, Live
  <1>2. TypeInv /\ Captured /\ [Next]_vars => Step
    BY ProvedRollbackStep
  <1>3. QED
    BY <1>1, <1>2, TypeInit, TypeNext, CapturedNext, PTL DEF Spec, ProvedRollbackRestores

-----------------------------------------------------------------------------
(* Failures after staging. *)

LEMMA StopNames ==
    ASSUME TypeOK, NEW r \in Runs, outcome[r] = None, NEW n \in 0..6,
           NEW states, states = Upto(n), NEW release, n > 3 \/ release = None,
           NEW reading, Stop(r, states, release, reading)
    PROVE  outcome'[r] = "failed" /\ staged'[r] # None => trouble'[r] # None
  <1>1. Len(states) = n /\ "failed" # None /\ "ROLLBACK-IMPOSSIBLE" # None
    BY UptoStep, NoneAssumption DEF Outcomes, Troubles
  <1> QED  BY <1>1 DEF Stop, Finish, TypeOK, RollbackFrom

LEMMA RaiseNames ==
    ASSUME TypeInv, NEW r \in Runs, pc[r] \in Executing \ {"rollback"}, Raise(r)
    PROVE  outcome'[r] = "failed" /\ staged'[r] # None => trouble'[r] # None
  <1>1. Fits(pc[r], reached[r], staged[r], live[r], outcome[r]) /\ TypeOK
    BY DEF TypeInv, Held
  <1>2. PICK n \in Lengths(pc[r]) : reached[r] = Upto(n)
    BY <1>1 DEF Fits
  <1>3. n \in 0..6 /\ (n > 3 \/ pc[r] \in Beginning)
    BY <1>2 DEF Lengths, Executing, Beginning
  <1>4. n > 3 \/ staged[r] = None
    BY <1>1, <1>3 DEF Fits
  <1>5. outcome[r] = None
    BY <1>1 DEF Fits, Executing, Ended
  <1> QED  BY <1>1, <1>2, <1>3, <1>4, <1>5, StopNames DEF Raise

LEMMA ExecuteNames ==
    ASSUME TypeInv, NEW r \in Runs, Execute(r)
    PROVE  outcome'[r] = "failed" /\ staged'[r] # None => trouble'[r] # None
  <1>1. /\ TypeOK /\ Fits(pc[r], reached[r], staged[r], live[r], outcome[r])
        /\ pc[r] \in Executing /\ outcome[r] = None
    BY ExecuteHolds DEF TypeInv, Held, Fits, Executing, Ended
  <1>2. "failed" # None /\ "ROLLBACK-RAISED" # None /\ "ROLLBACK-UNOBSERVED" # None
    BY NoneAssumption DEF Outcomes, Troubles
  <1>3. CASE Raise(r) /\ pc[r] # "rollback"
    BY <1>1, <1>3, RaiseNames
  <1>4. CASE UNCHANGED outcome
    BY <1>1, <1>2, <1>4
  <1>5. CASE Reassert(r) \/ Kill(r)
    BY <1>4, <1>5 DEF Reassert, Kill
  <1>6. CASE Preconditions(r)
    <2>1. staged[r] = None
      BY <1>1, <1>6 DEF Preconditions, Fits, Beginning
    <2> QED  BY <1>6, <2>1 DEF Preconditions
  <1>7. CASE Fetch(r) \/ Reload(r) \/ Observe(r)
    BY <1>3, <1>4, <1>7 DEF Fetch, Reload, Observe, Reach
  <1>8. CASE Check(r) \/ Rehearse(r)
    <2>1. ASSUME NEW states, Stop(r, states, None, None)
          PROVE  staged'[r] = None
      BY <1>1, <2>1, StopLeaves
    <2> QED  BY <1>3, <1>4, <1>8, <2>1 DEF Check, Rehearse, Reach
  <1>9. CASE Stage(r)
    <2>1. ASSUME NEW release, Stop(r, Append(reached[r], "STAGED"), release, None)
          PROVE  outcome'[r] = "failed" /\ staged'[r] # None => trouble'[r] # None
      <3>1. reached[r] = Upto(3)
        BY <1>1, <1>9 DEF Stage, Fits, Lengths
      <3>2. Append(Upto(3), "STAGED") = Upto(4)
        <4>1. STATES[3 + 1] = "STAGED"
          BY DEF STATES
        <4> QED  BY <4>1, UptoStep, 3 \in 0..6
      <3>3. PICK n \in 0..6 : n > 3 /\ Append(reached[r], "STAGED") = Upto(n)
        BY <3>1, <3>2, 4 \in 0..6
      <3> QED  BY <1>1, <2>1, <3>3, StopNames
    <2> QED  BY <1>3, <1>4, <1>9, <2>1 DEF Stage, Reach
  <1>10. CASE Judge(r)
    <2>1. reached[r] = Upto(6)
      BY <1>1, <1>10 DEF Judge, Fits, Lengths
    <2>2. CASE Stop(r, reached[r], staged[r], live[r])
      BY <1>1, <2>1, <2>2, StopNames, 6 \in 0..6
    <2> QED  BY <1>4, <1>10, <2>2 DEF Judge
  <1>11. CASE Accept(r)
    BY <1>1, <1>3, <1>11 DEF Accept, Finish, TypeOK
  <1>12. CASE Rollback(r)
    BY <1>1, <1>2, <1>12 DEF Rollback, Finish, TypeOK
  <1> QED  BY <1>5, <1>6, <1>7, <1>8, <1>9, <1>10, <1>11, <1>12 DEF Execute

\* Whatever call fails after a release was staged, the outcome names why the host
\* was not put back: no failure after the pointer swap reads like one before it.
THEOREM FailuresAfterStagingAreNamed == Spec => []FailureAfterStagingIsNamed
  <1>1. Init => FailureAfterStagingIsNamed
    BY DEF Init, FailureAfterStagingIsNamed
  <1>2. TypeInv /\ FailureAfterStagingIsNamed /\ [Next]_vars => FailureAfterStagingIsNamed'
    <2> SUFFICES ASSUME TypeInv, FailureAfterStagingIsNamed, [Next]_vars, NEW s \in Runs,
                        outcome'[s] = "failed", staged'[s] # None
                 PROVE  trouble'[s] # None
      BY DEF FailureAfterStagingIsNamed
    <2>1. CASE UNCHANGED <<outcome, staged, trouble>>
      BY <2>1 DEF FailureAfterStagingIsNamed
    <2>2. ASSUME NEW r \in Runs, Execute(r)
          PROVE  trouble'[s] # None
      BY <2>2, ExecuteNames, ExecuteFrame DEF Same, FailureAfterStagingIsNamed
    <2> QED  BY <2>1, <2>2 DEF Next, Merge, ByHand, HandEdit, HandUndo, HandActivate, Workflow, Dispatch,
                               Admit, Review, vars
  <1> QED  BY <1>1, <1>2, TypeInit, TypeNext, PTL DEF Spec

-----------------------------------------------------------------------------
(* What an accepted receipt says of the host. *)

\* The evaluators run what the active release holds.
Fresh == host.loaded = TreeAt(host.store, host.pointer)

\* Run r's read-back found the evaluators as its own calls had left them.
Surely(r) ==
    \/ prior[r].at = live[r].at
    \/ staged[r].previous # None /\ live[r].rollback # None

Deployed(r) ==
    /\ pc[r] = "observe" /\ prior[r].at = hands => Fresh
    /\ pc[r] \in {"judge", "accept"} =>
          /\ prior[r].at <= live[r].at /\ live[r].at <= hands
          /\ live[r].at = hands => live[r].tree = TreeAt(host.store, host.pointer)
          /\ live[r].at = hands /\ Surely(r) => Fresh
    /\ pc[r] = "accept" => live[r].tree = Tree(r) /\ live[r].rollback # None

DeployedInv == OneHolder /\ Captured /\ \A r \in Runs : Deployed(r)

LEMMA DeployedByHand ==
    ASSUME TypeInv, DeployedInv, NEW d \in Dirs, ByHand(d)
    PROVE  \A r \in Runs : Deployed(r)'
  <1>1. /\ UNCHANGED <<pc, live, request, prior>> /\ hands' = hands + 1
        /\ TypeOK /\ Held /\ hands \in Nat
    BY PromotionAssumption DEF ByHand, HandEdit, HandUndo, HandActivate, session, TypeInv, TypeOK
  <1>2. ASSUME NEW r \in Runs
        PROVE  Deployed(r)'
    <2>1. pc[r] \in {"judge", "accept"} => live[r].at \in Nat
      BY <1>1 DEF TypeOK, Held, Fits, LiveState
    <2>2. prior[r].at \in Nat
      BY <1>1, PromotionAssumption DEF TypeOK, Prior
    <2>3. pc[r] = "observe" => prior[r].at <= hands
      BY DEF DeployedInv, Captured, Live
    <2>4. Deployed(r)
      BY DEF DeployedInv
    <2> QED  BY <1>1, <2>1, <2>2, <2>3, <2>4 DEF Deployed, Tree
  <1> QED  BY <1>2

LEMMA DeployedExecute ==
    ASSUME TypeInv, DeployedInv, NEW r \in Runs, Execute(r)
    PROVE  Deployed(r)'
  <1>1. /\ TypeOK /\ Held /\ Deployed(r) /\ UNCHANGED <<hands, request>>
        /\ hands \in Nat
    BY ExecuteHolds, PromotionAssumption DEF TypeInv, TypeOK, DeployedInv
  <1>2. CASE pc'[r] \notin {"observe", "judge", "accept"}
    BY <1>2 DEF Deployed
  <1>3. CASE Reload(r) /\ pc'[r] = "observe"
    <2>1. host' = Reloaded
      BY <1>1, <1>3, StopLeaves DEF Reload, Raise
    <2>2. host'.loaded = TreeAt(host'.store, host'.pointer)
      BY <1>1, <2>1 DEF Reloaded, TypeOK, Host
    <2> QED  BY <1>3, <2>2 DEF Deployed, Fresh
  <1>4. CASE Observe(r) /\ pc'[r] = "judge"
    <2>1. ~ Raise(r)
      BY <1>1, <1>4, StopLeaves DEF Raise
    <2>2. PICK sound \in BOOLEAN, record \in Exercises(r) :
            /\ host' = IF record = None \/ staged[r].previous = None THEN host
                       ELSE Restored(r)
            /\ live' = [live EXCEPT ![r] = ReadBack(host', sound, record)]
      BY <1>4, <2>1 DEF Observe
    <2>3. /\ live'[r].at = hands /\ live'[r].tree = TreeAt(host'.store, host'.pointer)
          /\ live'[r].rollback = record /\ staged'[r] = staged[r] /\ prior'[r] = prior[r]
      BY <1>1, <1>4, <2>1, <2>2 DEF TypeOK, ReadBack, Observe
    <2>4. prior[r].at <= hands
      BY <1>4 DEF DeployedInv, Captured, Observe, Live
    <2>5. Surely(r)' => Fresh'
      <3>1. CASE host' = host /\ prior[r].at = hands
        BY <1>1, <1>4, <3>1 DEF Observe, Deployed, Fresh, TreeAt
      <3>2. CASE host' = Restored(r)
        BY <1>1, <3>2 DEF Restored, Fresh, TreeAt, TypeOK, Host
      <3> QED  BY <2>2, <2>3, <3>1, <3>2 DEF Surely
    <2> QED  BY <1>1, <1>4, <2>3, <2>4, <2>5 DEF Deployed
  <1>5. CASE Judge(r) /\ pc'[r] = "accept"
    <2>1. Repaired(r) /\ UNCHANGED <<live, staged, prior>>
      BY <1>1, <1>5, StopLeaves DEF Judge
    <2>2. UNCHANGED host /\ live[r].rollback # None
      BY <1>5, <2>1 DEF Judge, Repaired, RollbackUnmet
    <2> QED  BY <1>1, <1>5, <2>1, <2>2
             DEF Judge, Repaired, Deployed, Surely, Fresh, TreeAt, Tree
  <1>6. Reload(r) \/ Observe(r) \/ Judge(r) \/ pc'[r] \notin {"observe", "judge", "accept"}
    <2>1. CASE Reassert(r) \/ Preconditions(r) \/ Kill(r)
      BY <1>1, <2>1 DEF Reassert, Preconditions, Kill, TypeOK
    <2>2. CASE Fetch(r) \/ Check(r) \/ Rehearse(r) \/ Stage(r)
      BY <1>1, <2>2, StopLeaves DEF Fetch, Check, Rehearse, Stage, Raise, Reach, TypeOK
    <2>3. CASE Accept(r) \/ Rollback(r)
      BY <1>1, <2>3, StopLeaves DEF Accept, Rollback, Raise, Finish, TypeOK
    <2> QED  BY <2>1, <2>2, <2>3 DEF Execute
  <1>7. /\ Reload(r) => pc'[r] \in {"observe", "finished", "rollback"}
        /\ Observe(r) => pc'[r] \in {"judge", "finished", "rollback"}
        /\ Judge(r) => pc'[r] \in {"accept", "finished", "rollback"}
    BY <1>1, StopLeaves DEF Reload, Observe, Judge, Raise, Reach, TypeOK
  <1> QED  BY <1>2, <1>3, <1>4, <1>5, <1>6, <1>7

LEMMA DeployedNext ==
    ASSUME TypeInv, DeployedInv, [Next]_vars
    PROVE  DeployedInv'
  <1>1. OneHolder' /\ Captured' /\ TypeOK
    BY OneHolderNext, CapturedNext DEF DeployedInv, TypeInv
  <1>2. CASE \E d \in Dirs : ByHand(d)
    BY <1>1, <1>2, DeployedByHand DEF DeployedInv
  <1>3. CASE Merge \/ UNCHANGED vars
    BY <1>1, <1>3 DEF Merge, vars, DeployedInv, Deployed, Surely, Fresh, TreeAt, Tree
  <1>4. ASSUME NEW r \in Runs, Workflow(r)
        PROVE  DeployedInv'
    <2>1. UNCHANGED <<host, hands, live, staged, prior>>
      BY <1>4 DEF Workflow, Dispatch, Admit, Review
    <2>2. ASSUME NEW s \in Runs, pc'[s] \in {"observe", "judge", "accept"}
          PROVE  pc'[s] = pc[s] /\ request'[s] = request[s]
      BY <1>1, <1>4, <2>2 DEF Workflow, Dispatch, Admit, Review, Queueing, TypeOK, session
    <2> QED  BY <1>1, <2>1, <2>2 DEF DeployedInv, Deployed, Surely, Fresh, TreeAt, Tree
  <1>5. ASSUME NEW r \in Runs, Execute(r)
        PROVE  DeployedInv'
    <2>1. ASSUME NEW s \in Runs, s # r
          PROVE  Deployed(s)'
      <3>1. pc[r] \in Holding /\ pc'[s] = pc[s]
        BY <1>5, <2>1, ExecuteHolds, ExecuteFrame DEF Holding, Same
      <3>2. pc'[s] \notin Holding
        BY <2>1, <3>1 DEF DeployedInv, OneHolder
      <3> QED  BY <3>2 DEF Deployed, Holding, Executing
    <2>2. Deployed(r)'
      BY <1>5, DeployedExecute
    <2> QED  BY <1>1, <2>1, <2>2 DEF DeployedInv
  <1> QED  BY <1>2, <1>3, <1>4, <1>5 DEF Next

\* Only accept() that returned files an accepted receipt.
LEMMA AcceptedStep ==
    ASSUME TypeInv, [Next]_vars, NEW r \in Runs, Files(r, "accepted")
    PROVE  pc[r] = "accept" /\ Accept(r) /\ ~ Raise(r)
  <1>1. /\ TypeOK /\ Execute(r)
        /\ outcome[r] = None /\ outcome'[r] = "accepted" /\ None # "accepted"
    BY OnlyExecuteDecides, NoneAssumption DEF Files, Outcomes, TypeInv
  <1>2. pc[r] = "accept"
    <2>1. \A result : Entered(r, result) => outcome'[r] = result
      BY <1>1 DEF Entered, TypeOK
    <2> QED  BY <1>1, <2>1, ExecuteEnters DEF TypeOK
  <1>3. Accept(r)
    <2>1. ~ Kill(r)
      BY <1>1 DEF Kill
    <2> QED  BY <1>1, <1>2, <2>1 DEF Execute, Reassert, Preconditions, Fetch, Check,
             Rehearse, Stage, Reload, Observe, Judge, Rollback
  <1>4. ~ Raise(r)
    BY <1>1, RaiseFails
  <1> QED  BY <1>2, <1>3, <1>4

\* An accepted receipt is the whole of promote(): every state was reached, and the
\* tree the run rendered is in the active directory, unless somebody changed the host
\* by hand after the read-back, and in the evaluators, unless somebody did since they
\* were last surely reloaded.
THEOREM AcceptedReleasesAreDeployed == Spec => AcceptedIsDeployed
  <1> DEFINE Step == \A r \in Runs :
                Files(r, "accepted") =>
                   /\ reached'[r] = STATES
                   /\ live[r].at = hands => TreeAt(host.store, host.pointer) = Tree(r)
                   /\ LoadedAt(r) = hands => host.loaded = Tree(r)
  <1>1. Init => DeployedInv
    BY DEF Init, DeployedInv, Deployed, Captured, Live, OneHolder, Holding, Reviewing, Executing
  <1>2. TypeInv /\ DeployedInv /\ [Next]_vars => Step
    <2> SUFFICES ASSUME TypeInv, DeployedInv, [Next]_vars, NEW r \in Runs,
                        Files(r, "accepted")
                 PROVE  /\ reached'[r] = STATES
                        /\ live[r].at = hands => TreeAt(host.store, host.pointer) = Tree(r)
                        /\ LoadedAt(r) = hands => host.loaded = Tree(r)
      OBVIOUS
    <2>1. /\ TypeOK /\ Held /\ Execute(r) /\ Deployed(r)
          /\ outcome[r] = None /\ outcome'[r] = "accepted" /\ None # "accepted"
      BY OnlyExecuteDecides, NoneAssumption DEF Files, Outcomes, TypeInv, DeployedInv
    <2>2. pc[r] = "accept" /\ Accept(r) /\ ~ Raise(r)
      BY AcceptedStep
    <2>4. reached' = [reached EXCEPT ![r] = Append(@, "ACCEPTED")]
      BY <2>2 DEF Accept
    <2>5. reached'[r] = STATES
      <3>1. reached[r] = Upto(6)
        BY <2>1, <2>2 DEF Held, Fits, Lengths
      <3>2. Append(Upto(6), "ACCEPTED") = Upto(7)
        <4>1. STATES[6 + 1] = "ACCEPTED"
          BY DEF STATES
        <4> QED  BY <4>1, UptoStep, 6 \in 0..6
      <3>3. Upto(7) = STATES
        BY StatesIsASequence, SubSeqFull DEF Upto
      <3> QED  BY <2>1, <2>4, <3>1, <3>2, <3>3 DEF TypeOK
    <2>6. live[r].at = hands => TreeAt(host.store, host.pointer) = Tree(r)
      BY <2>1, <2>2 DEF Deployed
    <2>7. LoadedAt(r) = hands => live[r].at = hands
      <3>1. live[r].at \in Nat /\ prior[r].at \in Nat /\ hands \in Nat
        BY <2>1, <2>2, PromotionAssumption DEF TypeOK, Held, Fits, LiveState, Prior
      <3>2. prior[r].at <= live[r].at /\ live[r].at <= hands
        BY <2>1, <2>2 DEF Deployed
      <3> QED  BY <3>1, <3>2 DEF LoadedAt
    <2>8. LoadedAt(r) = hands => Fresh
      BY <2>1, <2>2, <2>7 DEF Deployed, Surely, LoadedAt
    <2> QED  BY <2>5, <2>6, <2>7, <2>8 DEF Fresh
  <1>3. QED
    BY <1>1, <1>2, TypeInit, TypeNext, DeployedNext, PTL DEF Spec, AcceptedIsDeployed

-----------------------------------------------------------------------------
(* The chain of accepted releases. *)

\* A release directory is first written by the stage() of the run that names it.
Unstaged ==
    \A r \in Runs : pc[r] \in Beginning =>
       /\ host.pointer # r /\ host.store[r] = None
       /\ \A s \in Runs : /\ staged[s] # None => staged[s].previous # r
                          /\ prior[s].pointer # r

\* A directory holds what it was written with, or an edit of that.
Bytes == \A d \in Dirs : host.store[d] \in {None, Original(d), HandEdited}

\* An accepted receipt is the last thing its run does.
Settled ==
    \A i \in Accepted :
       /\ log[i].tree \in Digests /\ log[i].tree # HandEdited
       /\ log[i].run \in Runs => pc[log[i].run] \in Ended

\* While a run holds the group nothing is accepted behind its previous_digest.
Offered ==
    \A r \in Runs : pc[r] \in Executing \ {"asserting", "preconditions"} =>
       previous[r] = LastAccepted

\* A release found so, and written so, holds this tree once the host was changed by
\* hand so many times: what it was found with, unless somebody did since.
Kept(found, written, tree, changes) ==
    /\ found.tree = None <=> tree = None
    /\ tree # None => /\ found.pointer # None
                     /\ found.tree \in {written, HandEdited}
                     /\ tree \in {written, HandEdited}
    /\ found.at = changes => tree = found.tree

\* So does the release run r replaces.
Keeps(r, tree, changes) == Kept(prior[r], Original(prior[r].pointer), tree, changes)

Replaced(r) ==
    /\ pc[r] \in Live => Keeps(r, TreeAt(host.store, prior[r].pointer), hands)
    /\ /\ pc[r] \in {"judge", "accept"}
       /\ live[r].rollback # None /\ live[r].rollback.digest # None
       => Keeps(r, live[r].rollback.digest, live[r].at)
    /\ pc[r] = "accept" /\ ~request[r].first =>
          previous[r] # None /\ Replaces(r, previous[r])

ChainInv ==
    /\ OneHolder /\ Captured
    /\ Unstaged /\ Bytes /\ Settled /\ Offered
    /\ \A r \in Runs : Replaced(r)
    /\ ChainUnbroken

LEMMA ReachMoves ==
    ASSUME TypeOK, NEW r \in Runs, NEW next, Reach(r, next)
    PROVE  pc'[r] = next
  BY DEF Reach, TypeOK

\* Where a step of promote() goes, and the release it holds afterwards.
LEMMA ExecuteMoves ==
    ASSUME TypeInv, NEW r \in Runs, Execute(r)
    PROVE  /\ pc'[r] \in Live => pc[r] \in Live \/ Stage(r)
           /\ pc'[r] \in Beginning => pc[r] \in Beginning \ {"stage"}
           /\ \/ staged'[r] \in {staged[r], None}
              \/ pc[r] = "stage" /\ staged'[r] = [current |-> r, previous |-> host.pointer]
           /\ prior'[r] = IF pc[r] = "stage" THEN Found ELSE prior[r]
           /\ \/ UNCHANGED previous
              \/ /\ pc[r] = "preconditions"
                 /\ previous' = [previous EXCEPT ![r] = LastAccepted]
  <1>1. TypeOK
    BY DEF TypeInv
  <1>2. staged[r] = None => pc'[r] = "finished" \/ ~ Raise(r)
    BY <1>1, StopLeaves DEF Raise
  <1>3. CASE Reassert(r) \/ Preconditions(r) \/ Kill(r)
    BY <1>1, <1>3 DEF Reassert, Preconditions, Kill, session, TypeOK, Live, Beginning
  <1>4. CASE Fetch(r)
    BY <1>1, <1>2, <1>4, StopLeaves, ReachMoves DEF Fetch, Raise, session, Live, Beginning,
       TypeInv, Held, Fits
  <1>5. CASE Check(r) \/ Rehearse(r)
    BY <1>1, <1>2, <1>5, StopLeaves, ReachMoves
       DEF Check, Rehearse, Raise, session, Live, Beginning, TypeInv, Held, Fits
  <1>6. CASE Stage(r)
    BY ZenonT(40), <1>1, <1>6, StopLeaves, ReachMoves DEF Stage, Raise, session, TypeOK, Beginning
  <1>7. CASE Reload(r) \/ Observe(r)
    BY <1>1, <1>7, StopLeaves, ReachMoves DEF Reload, Observe, Raise, session, Live, Beginning
  <1>8. CASE Judge(r) \/ Accept(r)
    BY <1>1, <1>8, StopLeaves DEF Judge, Accept, Raise, Finish, session, TypeOK, Live, Beginning
  <1>9. CASE Rollback(r)
    BY <1>1, <1>9 DEF Rollback, Finish, session, TypeOK, Live, Beginning
  <1> QED  BY <1>3, <1>4, <1>5, <1>6, <1>7, <1>8, <1>9 DEF Execute

\* What a step of promote() does to the pointer and to the bytes.
LEMMA ExecuteHost ==
    ASSUME TypeInv, NEW r \in Runs, Execute(r)
    PROVE  /\ \/ host'.store = host.store
              \/ pc[r] = "stage" /\ host'.store = [host.store EXCEPT ![r] = Tree(r)]
           /\ \/ host'.pointer = host.pointer
              \/ pc[r] \in {"stage", "observe"} /\ host'.pointer = r
              \/ staged[r] # None /\ host'.pointer = staged[r].previous
  <1>1. /\ TypeOK /\ r \in Dirs
        /\ pc[r] \in {"observe", "rollback"} => staged[r] # None
    BY DEF TypeInv, Held, Fits, Live, Dirs
  <1>2. /\ \A d : Restored(d).store = host.store /\ Restored(d).pointer = d
        /\ Reloaded.store = host.store /\ Reloaded.pointer = host.pointer
        /\ Written(r).store = [host.store EXCEPT ![r] = Tree(r)]
        /\ Activated(r).store = [host.store EXCEPT ![r] = Tree(r)]
        /\ Written(r).pointer = host.pointer /\ Activated(r).pointer = r
        /\ \A d : [host EXCEPT !.pointer = d].store = host.store
        /\ \A d : [host EXCEPT !.pointer = d].pointer = d
    BY <1>1 DEF TypeOK, Host, Restored, Reloaded, Written, Activated
  <1>3. ASSUME host' \in Interrupted(r)
        PROVE  /\ \/ host'.store = host.store
                  \/ pc[r] = "stage" /\ host'.store = [host.store EXCEPT ![r] = Tree(r)]
               /\ \/ host'.pointer = host.pointer
                  \/ pc[r] \in {"stage", "observe"} /\ host'.pointer = r
                  \/ staged[r] # None /\ host'.pointer = staged[r].previous
    <2>1. CASE host' = host
      BY <2>1
    <2>2. CASE pc[r] = "stage" /\ host' \in {Written(r), Activated(r)}
      BY <1>2, <2>2
    <2>3. CASE pc[r] = "reload" /\ host' = Reloaded
      BY <1>2, <2>3
    <2>4. CASE pc[r] \in {"observe", "rollback"} /\ host' = Restored(staged[r].previous)
      BY <1>1, <1>2, <2>4
    <2>5. CASE pc[r] = "rollback" /\ host' = [host EXCEPT !.pointer = staged[r].previous]
      BY <1>1, <1>2, <2>5
    <2> QED  BY <1>3, <2>1, <2>2, <2>3, <2>4, <2>5 DEF Interrupted, RollbackTarget
  <1>4. CASE host' \in Interrupted(r) \/ UNCHANGED host
    BY <1>3, <1>4
  <1>5. CASE Reassert(r) \/ Preconditions(r) \/ Kill(r) \/ Fetch(r) \/ Check(r) \/ Rehearse(r)
             \/ Judge(r) \/ Accept(r)
    BY <1>4, <1>5
       DEF Reassert, Preconditions, Kill, Fetch, Check, Rehearse, Judge, Accept, Raise
  <1>6. CASE Stage(r)
    BY <1>2, <1>4, <1>6 DEF Stage, Raise
  <1>7. CASE Reload(r)
    BY <1>2, <1>4, <1>7 DEF Reload, Raise
  <1>8. CASE Observe(r)
    BY <1>2, <1>4, <1>8 DEF Observe, Raise
  <1>9. CASE Rollback(r)
    <2>1. CASE host' = Restored(staged[r].previous)
      BY <1>1, <1>2, <1>9, <2>1 DEF Rollback
    <2> QED  BY <1>4, <1>9, <2>1 DEF Rollback, RollbackTarget
  <1> QED  BY <1>5, <1>6, <1>7, <1>8, <1>9 DEF Execute

LEMMA LastAcceptedIsTheLast ==
    ASSUME TypeOK, Accepted # {}
    PROVE  \E i \in Accepted : /\ \A j \in Accepted : j <= i
                               /\ LastAccepted = log[i].tree
  <1> DEFINE last == CHOOSE i \in Accepted : \A j \in Accepted : j <= i
  <1>1. last \in Accepted /\ \A j \in Accepted : j <= last
    BY LastOfSome
  <1>2. LastAccepted = log[last].tree
    BY DEF LastAccepted
  <1> HIDE DEF last
  <1> QED  BY <1>1, <1>2

LEMMA FiledMeansEnded ==
    ASSUME TypeInv, TypeInv', NEW r \in Runs, NEW result \in Outcomes, Entered(r, result)
    PROVE  pc'[r] \in Ended
  <1>1. outcome'[r] = result /\ result # None
    BY NoneAssumption DEF Entered, TypeInv, TypeOK
  <1> QED  BY <1>1 DEF TypeInv, Held, Fits

LEMMA UnstagedExecute ==
    ASSUME TypeInv, Unstaged, NEW r \in Runs, Execute(r)
    PROVE  Unstaged'
  <1> SUFFICES ASSUME NEW q \in Runs, pc'[q] \in Beginning
               PROVE  /\ host'.pointer # q /\ host'.store[q] = None
                      /\ \A s \in Runs : /\ staged'[s] # None => staged'[s].previous # q
                                         /\ prior'[s].pointer # q
    BY DEF Unstaged
  <1>1. TypeOK /\ r \in Dirs /\ q \in Dirs
    BY DEF TypeInv, Dirs
  <1>2. pc[q] \in Beginning /\ (q = r => pc[r] # "stage" /\ staged[r] = None)
    BY ExecuteMoves, ExecuteFrame DEF Same, TypeInv, Held, Fits
  <1>3. /\ host.pointer # q /\ host.store[q] = None
        /\ \A s \in Runs : /\ staged[s] # None => staged[s].previous # q
                           /\ prior[s].pointer # q
    BY <1>2 DEF Unstaged
  <1>4. q = r => pc[r] # "observe"
    BY <1>2 DEF Beginning
  <1>5. host'.pointer # q
    BY <1>2, <1>3, <1>4, ExecuteHost
  <1>6. host'.store[q] = None
    BY ZenonT(40), <1>1, <1>2, <1>3, ExecuteHost DEF TypeOK, Host
  <1>7. ASSUME NEW s \in Runs, staged'[s] # None
        PROVE  staged'[s].previous # q
    <2>1. CASE s # r
      BY <1>3, <1>7, <2>1, ExecuteFrame DEF Same
    <2>2. CASE s = r /\ staged'[r] \in {staged[r], None}
      BY <1>3, <1>7, <2>2
    <2>3. CASE s = r /\ staged'[r] = [current |-> r, previous |-> host.pointer]
      BY <1>3, <2>3
    <2> QED  BY <2>1, <2>2, <2>3, ExecuteMoves
  <1>8. ASSUME NEW s \in Runs
        PROVE  prior'[s].pointer # q
    <2>1. CASE s # r
      BY <1>3, <2>1, ExecuteFrame DEF Same
    <2>2. prior'[r] = Found \/ prior'[r] = prior[r]
      BY ExecuteMoves
    <2>3. CASE s = r
      BY <1>3, <2>2, <2>3 DEF Found
    <2> QED  BY <2>1, <2>3
  <1> QED  BY <1>5, <1>6, <1>7, <1>8

\* A request is what its dispatch made it.
LEMMA RequestStays ==
    ASSUME TypeInv, [Next]_vars, NEW s \in Runs, pc[s] # "undispatched"
    PROVE  request'[s] = request[s]
  <1>1. CASE Merge \/ (\E d \in Dirs : ByHand(d)) \/ UNCHANGED vars
    BY <1>1 DEF Merge, ByHand, HandEdit, HandUndo, HandActivate, session, vars
  <1>2. ASSUME NEW r \in Runs, Workflow(r)
        PROVE  request'[s] = request[s]
    BY <1>2 DEF Workflow, Dispatch, Admit, Review, session, TypeInv, TypeOK
  <1>3. ASSUME NEW r \in Runs, Execute(r)
        PROVE  request'[s] = request[s]
    BY <1>3, ExecuteHolds
  <1> QED  BY <1>1, <1>2, <1>3 DEF Next

\* No step changes what a release directory that was staged had been written with.
LEMMA OriginalStays ==
    ASSUME TypeInv, [Next]_vars, NEW p \in Dirs, p \in Runs => pc[p] # "undispatched"
    PROVE  Original(p)' = Original(p)
  BY RequestStays DEF Original, Tree, Dirs

\* The release a run found was staged, so neither changes.
LEMMA FoundStays ==
    ASSUME TypeInv, Unstaged, [Next]_vars, NEW r \in Runs, prior'[r] = prior[r]
    PROVE  prior[r].pointer # None =>
              Original(prior[r].pointer)' = Original(prior[r].pointer)
  <1> SUFFICES ASSUME prior[r].pointer # None
               PROVE  Original(prior[r].pointer)' = Original(prior[r].pointer)
    OBVIOUS
  <1>1. PICK p \in Dirs : p = prior[r].pointer
    BY DEF TypeInv, TypeOK, Prior
  <1>2. p \in Runs => pc[p] # "undispatched"
    BY <1>1 DEF Unstaged, Beginning
  <1>3. Original(p)' = Original(p)
    BY <1>2, OriginalStays
  <1> QED  BY <1>1, <1>3 DEF Original, Tree

LEMMA KeptStays ==
    ASSUME NEW found, NEW written, NEW other, NEW tree, NEW changes,
           found.pointer # None => other = written, Kept(found, written, tree, changes)
    PROVE  Kept(found, other, tree, changes)
  BY DEF Kept

LEMMA BytesStays ==
    ASSUME TypeInv, Unstaged, Bytes, [Next]_vars, UNCHANGED host
    PROVE  Bytes'
  <1> SUFFICES ASSUME NEW d \in Dirs
               PROVE  host.store[d] \in {None, Original(d)', HandEdited}
    BY DEF Bytes
  <1>1. CASE d \in Runs /\ pc[d] = "undispatched"
    BY <1>1 DEF Unstaged, Beginning
  <1>2. CASE d \in Runs => pc[d] # "undispatched"
    BY <1>2, OriginalStays DEF Bytes
  <1> QED  BY <1>1, <1>2

LEMMA BytesExecute ==
    ASSUME TypeInv, Bytes, NEW r \in Runs, Execute(r)
    PROVE  Bytes'
  <1>1. TypeOK /\ r \in Dirs /\ r # Initial /\ UNCHANGED request
    BY ExecuteHolds, PromotionAssumption DEF TypeInv, Dirs
  <1>2. \A d \in Dirs : Original(d)' = Original(d)
    BY <1>1 DEF Original, Tree
  <1>3. Original(r) = Tree(r)
    BY <1>1 DEF Original
  <1>4. ASSUME NEW d \in Dirs
        PROVE  host'.store[d] \in {host.store[d], Original(d)}
    <2>1. \/ host'.store = host.store
          \/ host'.store = [host.store EXCEPT ![r] = Tree(r)]
      BY ExecuteHost
    <2>2. host.store \in [Dirs -> Digests \cup {None}]
      BY <1>1 DEF TypeOK, Host
    <2> QED  BY <1>1, <1>3, <2>1, <2>2
  <1> QED  BY <1>2, <1>4 DEF Bytes

LEMMA OfferedExecute ==
    ASSUME TypeInv, TypeInv', OneHolder, Offered, NEW r \in Runs, Execute(r)
    PROVE  Offered'
  <1> SUFFICES ASSUME NEW s \in Runs, pc'[s] \in Executing \ {"asserting", "preconditions"}
               PROVE  previous'[s] = LastAccepted'
    BY DEF Offered
  <1>1. TypeOK /\ pc[r] \in Executing /\ s = r
    BY ExecuteHolds, ExecuteFrame DEF TypeInv, OneHolder, Holding, Same
  <1>2. pc'[r] \notin Ended
    BY <1>1 DEF Executing, Ended
  <1>3. UNCHANGED log
    BY <1>2, ExecuteEnters, FiledMeansEnded DEF Outcomes
  <1>4. LastAccepted' = LastAccepted
    BY <1>3 DEF LastAccepted, Accepted
  <1>5. CASE pc[r] = "preconditions"
    <2>1. Preconditions(r)
      <3>1. ~ Kill(r)
        BY <1>1, <1>2 DEF Kill, TypeOK, Ended
      <3> QED  BY <1>5, <3>1 DEF Execute, Reassert, Fetch, Check, Rehearse, Stage, Reload,
                                 Observe, Judge, Accept, Rollback
    <2> QED  BY <1>1, <1>2, <1>4, <2>1 DEF Preconditions, TypeOK, Ended
  <1>6. CASE pc[r] = "asserting"
    <2>1. Reassert(r) \/ Kill(r)
      BY <1>6 DEF Execute, Preconditions, Fetch, Check, Rehearse, Stage, Reload, Observe,
                  Judge, Accept, Rollback
    <2> QED  BY <1>1, <2>1 DEF Reassert, Kill, TypeOK, Executing
  <1>7. CASE pc[r] \notin {"asserting", "preconditions"}
    BY <1>1, <1>4, <1>7, ExecuteMoves DEF Offered
  <1> QED  BY <1>5, <1>6, <1>7

LEMMA SettledExecute ==
    ASSUME TypeInv, TypeInv', Settled, NEW r \in Runs, Execute(r)
    PROVE  Settled'
  <1>1. TypeOK /\ pc[r] \in Executing /\ request' = request
    BY ExecuteHolds DEF TypeInv
  <1>2. ASSUME NEW q \in Runs, pc[q] \in Ended
        PROVE  pc'[q] \in Ended
    BY <1>1, <1>2, ExecuteFrame DEF Executing, Ended, Same
  <1>3. CASE UNCHANGED log
    BY <1>2, <1>3 DEF Settled, Accepted
  <1>4. ASSUME NEW result \in Outcomes, Entered(r, result)
        PROVE  Settled'
    <2>1. PICK e \in Receipt : /\ log' = Append(log, e)
                               /\ e.run = r /\ e.tree = Tree(r)
      BY <1>4 DEF Entered
    <2>2. Tree(r) \in Digests /\ Tree(r) # HandEdited
      BY <1>1, TreeTyped, PromotionAssumption DEF Tree, TypeOK, Request
    <2>3. pc'[r] \in Ended
      BY <1>4, FiledMeansEnded
    <2> QED  BY <1>1, <1>2, <2>1, <2>2, <2>3, AcceptedGrows DEF Settled
  <1> QED  BY <1>3, <1>4, ExecuteEnters DEF Outcomes

LEMMA ReplacedExecute ==
    ASSUME TypeInv, ChainInv, NEW r \in Runs, Execute(r)
    PROVE  Replaced(r)'
  <1>1. /\ TypeOK /\ r \in Dirs /\ UNCHANGED <<request, hands>> /\ [Next]_vars
        /\ Replaced(r) /\ pc[r] \in Executing
    BY ExecuteHolds DEF TypeInv, ChainInv, Dirs, Next
  <1>2. ASSUME prior'[r] = prior[r], NEW tree, NEW changes, Keeps(r, tree, changes)
        PROVE  Kept(prior'[r], Original(prior[r].pointer)', tree, changes)
    <2>1. prior[r].pointer # None =>
             Original(prior[r].pointer)' = Original(prior[r].pointer)
      BY <1>1, <1>2, FoundStays DEF ChainInv
    <2> QED  BY <1>2, <2>1, KeptStays DEF Keeps
  <1>3. ASSUME pc'[r] \in Live
        PROVE  Keeps(r, TreeAt(host.store, prior[r].pointer), hands)'
    <2>1. CASE pc[r] \in Live
      <3>1. prior'[r] = prior[r] /\ host'.store = host.store
        BY <2>1, ExecuteMoves, ExecuteHost DEF Live
      <3>2. Keeps(r, TreeAt(host.store, prior[r].pointer), hands)
        BY <1>1, <2>1 DEF Replaced
      <3>3. Kept(prior'[r], Original(prior[r].pointer)',
                 TreeAt(host.store, prior[r].pointer), hands)
        BY <1>2, <3>1, <3>2
      <3> QED  BY <1>1, <3>1, <3>3 DEF Keeps
    <2>2. CASE Stage(r)
      <3>1. host.pointer # r /\ pc[r] = "stage"
        BY <2>2 DEF Stage, ChainInv, Unstaged, Beginning
      <3>2. prior'[r] = Found
        BY <3>1, ExecuteMoves
      <3>3. TreeAt(host'.store, host.pointer) = TreeAt(host.store, host.pointer)
        BY ZenonT(40), <1>1, <3>1, ExecuteHost DEF TreeAt, TypeOK, Host
      <3>4. TreeAt(host.store, host.pointer) # None =>
               /\ host.pointer # None
               /\ TreeAt(host.store, host.pointer) \in {Original(host.pointer), HandEdited}
        BY <1>1 DEF TreeAt, ChainInv, Bytes, TypeOK, Host
      <3>5. Original(prior[r].pointer)' = Original(host.pointer)
        BY <1>1, <3>2 DEF Original, Tree, Found
      <3>6. Kept(Found, Original(host.pointer), TreeAt(host.store, host.pointer), hands)
        BY <3>4 DEF Kept, Found
      <3>7. prior'[r].pointer = host.pointer
        BY <3>2 DEF Found
      <3> QED  BY <1>1, <3>2, <3>3, <3>5, <3>6, <3>7 DEF Keeps
    <2> QED  BY <1>3, <2>1, <2>2, ExecuteMoves
  <1>4. CASE pc'[r] \notin {"judge", "accept"}
    BY <1>3, <1>4 DEF Replaced
  <1>5. CASE Observe(r) /\ pc'[r] = "judge"
    <2>1. ~ Raise(r)
      BY <1>1, <1>5, StopLeaves DEF Raise
    <2>2. PICK sound \in BOOLEAN, record \in Exercises(r) :
            live' = [live EXCEPT ![r] = ReadBack(host', sound, record)]
      BY <1>5, <2>1 DEF Observe
    <2>3. live'[r].rollback = record /\ live'[r].at = hands /\ prior'[r] = prior[r]
      BY <1>1, <1>5, <2>2 DEF TypeOK, ReadBack, Observe
    <2>4. record # None => record.digest \in {None, TreeAt(host.store, staged[r].previous)}
      <3>1. \/ record = None
            \/ record = [exercised |-> TRUE, restored |-> None, digest |-> None,
                         succeeded |-> FALSE]
            \/ record \in [exercised : {TRUE}, restored : {staged[r].previous},
                            digest : {None, TreeAt(host.store, staged[r].previous)},
                            succeeded : {TRUE}]
        BY Zenon DEF Exercises
      <3>2. CASE record \in [exercised : {TRUE}, restored : {staged[r].previous},
                            digest : {None, TreeAt(host.store, staged[r].previous)},
                            succeeded : {TRUE}]
        BY <3>2
      <3>3. CASE record = [exercised |-> TRUE, restored |-> None, digest |-> None,
                           succeeded |-> FALSE]
        BY <3>3
      <3> QED  BY <3>1, <3>2, <3>3
    <2>5. pc[r] \in Live /\ staged[r].previous = prior[r].pointer
      BY <1>5 DEF Observe, Live, ChainInv, Captured
    <2>6. Keeps(r, TreeAt(host.store, prior[r].pointer), hands)
      BY <1>1, <2>5 DEF Replaced
    <2>7. Kept(prior'[r], Original(prior[r].pointer)',
               TreeAt(host.store, prior[r].pointer), hands)
      BY <1>2, <2>3, <2>6
    <2>8. ASSUME live'[r].rollback # None, live'[r].rollback.digest # None
          PROVE  Keeps(r, live[r].rollback.digest, live[r].at)'
      <3>1. live'[r].rollback.digest = TreeAt(host.store, prior[r].pointer)
        BY <2>3, <2>4, <2>5, <2>8
      <3> QED  BY <2>3, <2>7, <3>1 DEF Keeps
    <2> QED  BY <1>3, <1>5, <2>8 DEF Replaced
  <1>6. CASE Judge(r) /\ pc'[r] = "accept"
    <2>1. Repaired(r) /\ UNCHANGED <<live, previous, prior>>
      BY <1>1, <1>6, StopLeaves DEF Judge, session
    <2>2. ASSUME live[r].rollback # None, live[r].rollback.digest # None
          PROVE  /\ Keeps(r, live[r].rollback.digest, live[r].at)
                 /\ Keeps(r, live[r].rollback.digest, live[r].at)'
      <3>1. Keeps(r, live[r].rollback.digest, live[r].at)
        BY <1>1, <1>6, <2>2 DEF Replaced, Judge
      <3>2. Kept(prior'[r], Original(prior[r].pointer)', live[r].rollback.digest, live[r].at)
        BY <1>2, <2>1, <3>1
      <3> QED  BY <2>1, <3>1, <3>2 DEF Keeps
    <2>3. ASSUME ~request[r].first
          PROVE  previous[r] # None /\ Replaces(r, previous[r])
      <3>1. /\ live[r].rollback # None /\ previous[r] # None
            /\ live[r].rollback.digest = previous[r]
        BY <2>1, <2>3 DEF Repaired, RollbackUnmet
      <3>2. previous[r] = LastAccepted
        BY <1>6 DEF Judge, ChainInv, Offered, Executing
      <3>3. Accepted # {}
        BY <3>1, <3>2 DEF LastAccepted
      <3>4. previous[r] # HandEdited
        BY <1>1, <3>2, <3>3, LastAcceptedIsTheLast DEF ChainInv, Settled
      <3>5. Keeps(r, previous[r], live[r].at)
        BY <2>2, <3>1
      <3> QED  BY <3>1, <3>4, <3>5 DEF Keeps, Kept, Replaces
    <2>4. ASSUME ~request'[r].first
          PROVE  previous'[r] # None /\ Replaces(r, previous[r])'
      <3>1. previous[r] # None /\ Replaces(r, previous[r])
        BY <1>1, <2>3, <2>4
      <3>2. Original(prior[r].pointer)' = Original(prior[r].pointer)
        BY <1>1, <2>1, <3>1, FoundStays DEF ChainInv, Replaces
      <3> QED  BY <2>1, <3>1, <3>2 DEF Replaces
    <2> QED  BY <1>3, <1>6, <2>1, <2>2, <2>4 DEF Replaced
  <1>7. pc'[r] \in {"judge", "accept"} =>
           \/ Observe(r) /\ pc'[r] = "judge"
           \/ Judge(r) /\ pc'[r] = "accept"
    <2>1. CASE Reassert(r) \/ Preconditions(r) \/ Kill(r)
      BY <1>1, <2>1 DEF Reassert, Preconditions, Kill, TypeOK
    <2>2. CASE Fetch(r) \/ Check(r) \/ Rehearse(r) \/ Stage(r)
      BY <1>1, <2>2, StopLeaves, ReachMoves DEF Fetch, Check, Rehearse, Stage, Raise
    <2>3. CASE Reload(r) \/ Observe(r)
      <3>1. Reload(r) => pc'[r] \in {"observe", "finished", "rollback"}
        BY <1>1, StopLeaves, ReachMoves DEF Reload, Raise
      <3>2. Observe(r) => pc'[r] \in {"judge", "finished", "rollback"}
        BY <1>1, StopLeaves, ReachMoves DEF Observe, Raise
      <3> QED  BY <2>3, <3>1, <3>2
    <2>4. CASE Judge(r)
      <3>1. pc'[r] \in {"accept", "finished", "rollback"}
        BY <1>1, <2>4, StopLeaves DEF Judge, TypeOK
      <3> QED  BY <2>4, <3>1
    <2>5. CASE Accept(r) \/ Rollback(r)
      BY <1>1, <2>5, StopLeaves DEF Accept, Rollback, Raise, Finish, TypeOK
    <2> QED  BY <2>1, <2>2, <2>3, <2>4, <2>5 DEF Execute
  <1> QED  BY <1>4, <1>5, <1>6, <1>7

LEMMA AcceptLeaves ==
    ASSUME TypeInv, NEW r \in Runs, Execute(r), pc[r] = "accept"
    PROVE  live'[r] = live[r]
  <1>1. Accept(r) \/ Kill(r)
    BY DEF Execute, Reassert, Preconditions, Fetch, Check, Rehearse, Stage, Reload, Observe,
           Judge, Rollback
  <1> QED  BY <1>1 DEF Accept, Kill, Raise, Stop, TypeInv, TypeOK

\* A step that is nobody's call leaves the chain, and the runs it does not move.
LEMMA ChainStays ==
    ASSUME TypeInv, ChainInv, [Next]_vars, UNCHANGED <<prior, live, log>>
    PROVE  ChainUnbroken'
  <1> SUFFICES ASSUME NEW i \in Accepted, log[i].run \in Runs, ~request'[log[i].run].first
               PROVE  \E j \in {j \in Accepted : j < i} :
                         /\ \A k \in {k \in Accepted : k < i} : k <= j
                         /\ Replaces(log[i].run, log[j].tree)'
    BY DEF ChainUnbroken, Accepted
  <1>1. request'[log[i].run] = request[log[i].run]
    BY RequestStays DEF ChainInv, Settled, Ended
  <1>2. PICK j \in {j \in Accepted : j < i} :
               /\ \A k \in {k \in Accepted : k < i} : k <= j
               /\ Replaces(log[i].run, log[j].tree)
    BY <1>1 DEF ChainInv, ChainUnbroken
  <1>3. PICK s \in Runs : s = log[i].run
    OBVIOUS
  <1>4. Replaces(s, log[j].tree)
    BY <1>2, <1>3
  <1>5. Original(prior[s].pointer)' = Original(prior[s].pointer)
    BY <1>4, FoundStays DEF ChainInv, Replaces
  <1>6. Replaces(s, log[j].tree)'
    BY <1>4, <1>5 DEF Replaces
  <1> QED  BY <1>2, <1>3, <1>6 DEF Replaces

LEMMA ReplacedStays ==
    ASSUME TypeInv, ChainInv, [Next]_vars, UNCHANGED <<host, hands, prior, live, previous>>,
           NEW r \in Runs, pc'[r] = pc[r]
    PROVE  Replaced(r)'
  <1>1. Replaced(r) /\ prior'[r] = prior[r]
    BY DEF ChainInv
  <1>2. pc[r] \in Live => request'[r] = request[r]
    BY RequestStays DEF Live
  <1>3. prior[r].pointer # None =>
           Original(prior[r].pointer)' = Original(prior[r].pointer)
    BY <1>1, FoundStays DEF ChainInv
  <1>4. ASSUME NEW tree, NEW changes, Keeps(r, tree, changes)
        PROVE  Kept(prior[r], Original(prior[r].pointer)', tree, changes)
    BY <1>3, <1>4, KeptStays DEF Keeps
  <1>5. pc[r] \in Live => Keeps(r, TreeAt(host.store, prior[r].pointer), hands)'
    <2> SUFFICES ASSUME pc[r] \in Live
                 PROVE  Keeps(r, TreeAt(host.store, prior[r].pointer), hands)'
      OBVIOUS
    <2>1. Kept(prior[r], Original(prior[r].pointer)', TreeAt(host.store, prior[r].pointer), hands)
      BY <1>1, <1>4 DEF Replaced
    <2> QED  BY <2>1 DEF Keeps
  <1>6. ASSUME pc[r] \in {"judge", "accept"}, live[r].rollback # None,
               live[r].rollback.digest # None
        PROVE  Keeps(r, live[r].rollback.digest, live[r].at)'
    <2>1. Kept(prior[r], Original(prior[r].pointer)', live[r].rollback.digest, live[r].at)
      BY <1>1, <1>4, <1>6 DEF Replaced
    <2> QED  BY <2>1 DEF Keeps
  <1>7. ASSUME pc[r] = "accept", ~request'[r].first
        PROVE  previous[r] # None /\ Replaces(r, previous[r])'
    <2>1. previous[r] # None /\ Replaces(r, previous[r])
      BY <1>1, <1>2, <1>7 DEF Replaced, Live
    <2> QED  BY <1>3, <2>1 DEF Replaces
  <1> QED  BY <1>5, <1>6, <1>7 DEF Replaced

LEMMA ChainExecute ==
    ASSUME TypeInv, TypeInv', ChainInv, NEW r \in Runs, Execute(r)
    PROVE  ChainUnbroken'
  <1>1. TypeOK /\ pc[r] \in Executing /\ UNCHANGED request /\ [Next]_vars
    BY ExecuteHolds DEF TypeInv, Next
  <1>2. ASSUME NEW i \in Accepted, NEW s \in Runs, s = log[i].run
        PROVE  \A tree : Replaces(s, tree) => Replaces(s, tree)'
    <2>1. s # r
      BY <1>1, <1>2 DEF ChainInv, Settled, Executing, Ended
    <2>2. prior'[s] = prior[s] /\ live'[s] = live[s]
      BY <1>2, <2>1, ExecuteFrame DEF Same
    <2>3. prior[s].pointer # None =>
             Original(prior[s].pointer)' = Original(prior[s].pointer)
      BY <1>1, <2>2, FoundStays DEF ChainInv
    <2> QED  BY <2>2, <2>3 DEF Replaces
  <1>3. CASE UNCHANGED log
    <2> SUFFICES ASSUME NEW i \in Accepted, log[i].run \in Runs, ~request[log[i].run].first
                 PROVE  \E j \in {j \in Accepted : j < i} :
                           /\ \A k \in {k \in Accepted : k < i} : k <= j
                           /\ Replaces(log[i].run, log[j].tree)'
      BY <1>1, <1>3 DEF ChainUnbroken, Accepted
    <2>1. PICK j \in {j \in Accepted : j < i} :
             /\ \A k \in {k \in Accepted : k < i} : k <= j
             /\ Replaces(log[i].run, log[j].tree)
      BY DEF ChainInv, ChainUnbroken
    <2>2. PICK s \in Runs : s = log[i].run
      OBVIOUS
    <2>3. Replaces(s, log[j].tree)'
      BY <1>2, <1>3, <2>1, <2>2 DEF Replaces
    <2> QED  BY <1>3, <2>1, <2>2, <2>3 DEF Replaces
  <1>4. ASSUME NEW result \in Outcomes, Entered(r, result),
               result = "accepted" => pc[r] = "accept"
        PROVE  ChainUnbroken'
    <2>1. PICK e \in Receipt : log' = Append(log, e) /\ e.run = r /\ e.outcome = result
      BY <1>4 DEF Entered
    <2>2. /\ \A i \in Accepted' : \/ i \in Accepted /\ log'[i] = log[i]
                                  \/ /\ i = Len(log) + 1 /\ log'[i] = e
                                     /\ e.outcome = "accepted"
          /\ \A i \in Accepted : i \in Accepted' /\ log'[i] = log[i]
          /\ Accepted \subseteq 1..Len(log) /\ Len(log) \in Nat
      BY <1>1, <2>1, AcceptedGrows
    <2> SUFFICES ASSUME NEW i \in Accepted', log'[i].run \in Runs, ~request'[log'[i].run].first
                 PROVE  \E j \in {j \in Accepted' : j < i} :
                           /\ \A k \in {k \in Accepted' : k < i} : k <= j
                           /\ Replaces(log[i].run, log[j].tree)'
      BY DEF ChainUnbroken
    <2>3. CASE i \in Accepted /\ log'[i] = log[i]
      <3>1. PICK j \in {j \in Accepted : j < i} :
               /\ \A k \in {k \in Accepted : k < i} : k <= j
               /\ Replaces(log[i].run, log[j].tree)
        BY <1>1, <2>3 DEF ChainInv, ChainUnbroken
      <3>2. PICK s \in Runs : s = log[i].run
        BY <2>3
      <3>4. log'[j] = log[j] /\ j \in Accepted'
        BY <2>2, <3>1
      <3>5. Replaces(log[i].run, log[j].tree)'
        BY <1>2, <2>3, <3>1, <3>2, <3>4 DEF Replaces
      <3>3. \A k \in Accepted' : k < i => k \in Accepted
        BY <2>2, <2>3
      <3> QED  BY <3>1, <3>3, <3>4, <3>5
    <2>4. CASE i = Len(log) + 1 /\ log'[i] = e /\ e.outcome = "accepted"
      <3>1. pc[r] = "accept" /\ ~request[r].first
        BY <1>1, <1>4, <2>1, <2>4
      <3>2. previous[r] # None /\ Replaces(r, previous[r]) /\ previous[r] = LastAccepted
        BY <3>1 DEF ChainInv, Replaced, Offered, Executing
      <3>3. PICK j \in Accepted : /\ \A k \in Accepted : k <= j
                                  /\ LastAccepted = log[j].tree
        BY <1>1, <3>2, LastAcceptedIsTheLast DEF LastAccepted
      <3>4. prior'[r] = prior[r] /\ live'[r] = live[r]
        BY <3>1, ExecuteMoves, AcceptLeaves
      <3>5. \A k \in Accepted' : k < i => k \in Accepted
        BY <2>2, <2>4
      <3>6. j \in Accepted' /\ j < i /\ log'[j] = log[j]
        BY <2>2, <2>4, <3>3
      <3>7. Original(prior[r].pointer)' = Original(prior[r].pointer)
        BY <1>1, <3>2, <3>4, FoundStays DEF ChainInv, Replaces
      <3>8. Replaces(log[i].run, log[j].tree)'
        BY <2>1, <2>4, <3>2, <3>3, <3>4, <3>6, <3>7 DEF Replaces
      <3> QED  BY <3>3, <3>5, <3>6, <3>8
    <2> QED  BY <2>2, <2>3, <2>4
  <1>5. "failed" # "accepted" /\ "rolled-back" # "accepted"
    OBVIOUS
  <1> QED  BY <1>3, <1>4, <1>5, ExecuteEnters DEF Outcomes

LEMMA ChainByHand ==
    ASSUME TypeInv, ChainInv, NEW d \in Dirs, ByHand(d)
    PROVE  ChainInv'
  <1>1. /\ TypeOK /\ host.store \in [Dirs -> Digests \cup {None}] /\ host.store[d] # None
        /\ UNCHANGED <<tip, pc, staged, live, log, prior, request, previous>>
    BY PromotionAssumption
       DEF TypeInv, TypeOK, Host, ByHand, HandEdit, HandUndo, HandActivate, session
  <1>2. /\ \/ host'.store = host.store
           \/ host'.store = [host.store EXCEPT ![d] = HandEdited]
           \/ host'.store = [host.store EXCEPT ![d] = Original(d)]
        /\ host'.pointer \in {host.pointer, d}
        /\ hands' = hands + 1
    BY <1>1 DEF ByHand, HandEdit, HandUndo, HandActivate, Restored, TypeOK, Host
  <1>0. [Next]_vars
    BY DEF Next
  <1>3. OneHolder' /\ Captured' /\ Settled' /\ Offered' /\ ChainUnbroken'
    <2>1. UNCHANGED <<OneHolder, Settled, Offered>>
      BY <1>1 DEF OneHolder, Settled, Offered, Accepted, LastAccepted
    <2> QED  BY <1>0, <1>1, <2>1, CapturedNext, ChainStays DEF ChainInv
  <1>4. Unstaged'
    <2> SUFFICES ASSUME NEW r \in Runs, pc[r] \in Beginning
                 PROVE  host'.pointer # r /\ host'.store[r] = None
      BY <1>1 DEF Unstaged, ChainInv
    <2>1. r \in Dirs /\ r # d /\ host.pointer # r /\ host.store[r] = None
      BY <1>1 DEF Unstaged, ChainInv, Dirs
    <2> QED  BY <1>1, <1>2, <2>1
  <1>5. \A p \in Dirs : Original(p)' = Original(p) /\ Original(p) # None
    BY <1>1, OriginalTyped, PromotionAssumption DEF Original, Tree
  <1>6. ASSUME NEW p \in Dirs \cup {None}
        PROVE  \/ TreeAt(host'.store, p) = TreeAt(host.store, p)
               \/ /\ p \in Dirs /\ TreeAt(host.store, p) # None
                  /\ TreeAt(host'.store, p) \in {HandEdited, Original(p)}
    BY <1>1, <1>2 DEF TreeAt
  <1>7. Bytes'
    BY <1>1, <1>2, <1>5 DEF ChainInv, Bytes
  <1>8. ASSUME NEW r \in Runs
        PROVE  Replaced(r)'
    <2>1. prior[r].pointer \in Dirs \cup {None}
      BY <1>1 DEF TypeOK, Prior
    <2>2. Replaced(r) /\ HandEdited # None
      BY PromotionAssumption DEF ChainInv
    <2>3. prior[r].pointer # None =>
             Original(prior[r].pointer)' = Original(prior[r].pointer)
      BY <1>1, <2>1, <1>5 DEF Original, Tree
    <2>4. ASSUME NEW tree, NEW changes, Keeps(r, tree, changes)
          PROVE  Kept(prior[r], Original(prior[r].pointer)', tree, changes)
      BY <2>3, <2>4, KeptStays DEF Keeps
    <2>5. ASSUME pc[r] \in Live
          PROVE  Keeps(r, TreeAt(host.store, prior[r].pointer), hands)'
      <3>1. Kept(prior[r], Original(prior[r].pointer)',
                 TreeAt(host.store, prior[r].pointer), hands)
        BY <2>2, <2>4, <2>5 DEF Replaced
      <3>2. prior[r].at # hands'
        <4>1. prior[r].at <= hands /\ prior[r].at \in Nat /\ hands \in Nat
          BY <1>1, <2>5, PromotionAssumption DEF ChainInv, Captured, TypeOK, Prior
        <4> QED  BY <1>2, <4>1
      <3>3. \/ TreeAt(host'.store, prior[r].pointer) = TreeAt(host.store, prior[r].pointer)
            \/ /\ prior[r].pointer \in Dirs /\ TreeAt(host.store, prior[r].pointer) # None
               /\ TreeAt(host'.store, prior[r].pointer)
                     \in {HandEdited, Original(prior[r].pointer)}
        BY <1>6, <2>1
      <3>4. prior[r].pointer \in Dirs => Original(prior[r].pointer) # None
        BY <1>5
      <3>5. Kept(prior[r], Original(prior[r].pointer)',
                 TreeAt(host'.store, prior[r].pointer), hands')
        BY <2>2, <2>3, <3>1, <3>2, <3>3, <3>4 DEF Kept
      <3> QED  BY <1>1, <3>5 DEF Keeps
    <2>6. ASSUME pc[r] \in {"judge", "accept"}, live[r].rollback # None,
                 live[r].rollback.digest # None
          PROVE  Keeps(r, live[r].rollback.digest, live[r].at)'
      <3>1. Kept(prior[r], Original(prior[r].pointer)', live[r].rollback.digest, live[r].at)
        BY <2>2, <2>4, <2>6 DEF Replaced
      <3> QED  BY <1>1, <3>1 DEF Keeps
    <2>7. ASSUME pc[r] = "accept", ~request[r].first
          PROVE  previous[r] # None /\ Replaces(r, previous[r])'
      BY <1>1, <2>2, <2>3, <2>7 DEF Replaced, Replaces
    <2> QED  BY <1>1, <2>5, <2>6, <2>7 DEF Replaced
  <1> QED  BY <1>3, <1>4, <1>7, <1>8 DEF ChainInv

LEMMA ChainNext ==
    ASSUME TypeInv, TypeInv', ChainInv, [Next]_vars
    PROVE  ChainInv'
  <1>1. TypeOK /\ OneHolder' /\ Captured'
    BY OneHolderNext, CapturedNext DEF TypeInv, ChainInv
  <1>2. CASE \E d \in Dirs : ByHand(d)
    BY <1>2, ChainByHand
  <1>3. CASE Merge \/ UNCHANGED vars
    <2>1. UNCHANGED <<host, hands, pc, staged, live, log, prior, request, previous>>
      BY <1>3 DEF Merge, vars
    <2>2. UNCHANGED <<Unstaged, Settled, Offered>>
      BY <2>1 DEF Unstaged, Settled, Offered, Accepted, LastAccepted
    <2>3. Bytes' /\ ChainUnbroken' /\ \A r \in Runs : Replaced(r)'
      BY <2>1, BytesStays, ChainStays, ReplacedStays DEF ChainInv
    <2> QED  BY <1>1, <2>2, <2>3 DEF ChainInv
  <1>4. ASSUME NEW r \in Runs, Workflow(r)
        PROVE  ChainInv'
    <2>1. UNCHANGED <<host, hands, staged, live, log, prior, previous>>
      BY <1>4 DEF Workflow, Dispatch, Admit, Review, session
    <2>2. ASSUME NEW s \in Runs
          PROVE  \/ pc'[s] = pc[s] /\ request'[s] = request[s]
                 \/ /\ pc[s] \in Beginning \ Ended
                    /\ pc'[s] \in Beginning \ (Executing \ {"asserting"})
      <3> USE <1>1 DEF TypeOK, Queueing, Beginning, Executing, Ended
      <3>1. CASE Dispatch(r)
        BY <3>1 DEF Dispatch
      <3>2. CASE Admit(r) \/ Review(r)
        BY <3>2 DEF Admit, Review, session
      <3> QED  BY <1>4, <3>1, <3>2 DEF Workflow
    <2>3. ASSUME NEW s \in Runs
          PROVE  Replaced(s)'
      <3>1. CASE pc'[s] = pc[s]
        BY <2>1, <3>1, ReplacedStays
      <3>2. CASE pc'[s] \in Beginning
        BY <3>2 DEF Replaced, Beginning, Live
      <3> QED  BY <2>2, <3>1, <3>2
    <2>4. Unstaged'
      BY <2>1, <2>2 DEF ChainInv, Unstaged
    <2>5. Accepted' = Accepted /\ LastAccepted' = LastAccepted
      BY <2>1 DEF Accepted, LastAccepted
    <2>6. Settled'
      BY <2>1, <2>2, <2>5 DEF ChainInv, Settled
    <2>7. Offered'
      BY <2>1, <2>2, <2>5 DEF ChainInv, Offered
    <2>8. ChainUnbroken' /\ Bytes'
      BY <2>1, ChainStays, BytesStays DEF ChainInv
    <2> QED  BY <1>1, <2>3, <2>4, <2>6, <2>7, <2>8 DEF ChainInv
  <1>5. ASSUME NEW r \in Runs, Execute(r)
        PROVE  ChainInv'
    <2>1. ASSUME NEW s \in Runs, s # r
          PROVE  Replaced(s)'
      <3>1. pc'[s] \notin Holding
        BY <1>5, <2>1, ExecuteHolds, ExecuteFrame DEF ChainInv, OneHolder, Holding, Same
      <3> QED  BY <3>1 DEF Replaced, Live, Holding, Executing
    <2>2. /\ Replaced(r)' /\ ChainUnbroken' /\ Unstaged' /\ Bytes' /\ Settled' /\ Offered'
      BY <1>5, ReplacedExecute, ChainExecute, UnstagedExecute, BytesExecute, SettledExecute,
         OfferedExecute DEF ChainInv
    <2> QED  BY <1>1, <2>1, <2>2 DEF ChainInv
  <1> QED  BY <1>2, <1>3, <1>4, <1>5 DEF Next

LEMMA ChainInit == Init => ChainInv
  <1> SUFFICES ASSUME Init
               PROVE  ChainInv
    OBVIOUS
  <1>1. OneHolder /\ Captured
    BY DEF Init, OneHolder, Captured, Holding, Reviewing, Executing, Live
  <1>2. /\ Accepted \subseteq {1}
        /\ \A i \in Accepted : log[i].run = Initial /\ log[i].tree = Rendered[0]
    BY DEF Init, Accepted
  <1>3. Rendered[0] \in Digests /\ Rendered[0] # HandEdited /\ Initial \notin Runs
    BY PromotionAssumption DEF Revisions
  <1>4. Unstaged /\ Bytes
    BY PromotionAssumption DEF Init, Unstaged, Bytes, Original, Dirs
  <1>5. Offered /\ \A r \in Runs : Replaced(r)
    BY DEF Init, Offered, Replaced, Executing, Live
  <1> QED  BY <1>1, <1>2, <1>3, <1>4, <1>5 DEF ChainInv, Settled, ChainUnbroken

\* An accepted run that is not a first promotion replaced a release that had been
\* written as the tree the receipt accepted before it records, and that held it, byte
\* for byte, when the run's stage() found it, or an edit by hand that was undone before
\* the read-back: for any number of runs, crashes, edits by hand, edits undone and
\* releases activated by hand.  Condition 6 compares what the exercised rollback put
\* back with previous_digest, and an edited tree is no tree a receipt records.
THEOREM AcceptedChainIsUnbroken == Spec => []ChainUnbroken
  <1>1. ChainInv => ChainUnbroken
    BY DEF ChainInv
  <1> QED  BY <1>1, ChainInit, TypeInit, TypeNext, ChainNext, PTL DEF Spec

-----------------------------------------------------------------------------
(* What the receipts promise: the steps of PromotionRecord. *)

\* A run that filed its receipt has ended.
Filed == \A i \in 1..Len(log) : log[i].run \in Runs => pc[log[i].run] \in Ended

\* From the swap to the receipt the run's own release is the active one.
Active == \A r \in Runs : pc[r] \in Live \ {"rollback"} => host.pointer = r

RecordInv == hands = 0 /\ OneHolder /\ Captured /\ Filed /\ Active

Entry(e) == [run |-> e.run, outcome |-> e.outcome, proved |-> e.restored = TRUE]

LEMMA JournalGrows ==
    ASSUME TypeOK, NEW e \in Receipt, log' = Append(log, e)
    PROVE  Journal' = Append(Journal, Entry(e))
  <1> DEFINE Entries == [run : Dirs, outcome : Outcomes, proved : BOOLEAN]
  <1>1. ASSUME NEW f \in Receipt
        PROVE  Entry(f) \in Entries
    BY DEF Receipt, Entry
  <1>2. /\ log \in Seq(Receipt) /\ log' \in Seq(Receipt)
        /\ Len(log) \in Nat /\ Len(log') = Len(log) + 1
        /\ \A i \in 1..Len(log) : log'[i] = log[i]
        /\ log'[Len(log) + 1] = e
    BY AppendProperties, LenProperties DEF TypeOK
  <1> HIDE DEF Entries
  <1>3. ASSUME NEW l \in Seq(Receipt)
        PROVE  /\ [i \in 1..Len(l) |-> Entry(l[i])] \in Seq(Entries)
               /\ Len([i \in 1..Len(l) |-> Entry(l[i])]) = Len(l)
    <2>1. Len(l) \in Nat /\ \A i \in 1..Len(l) : Entry(l[i]) \in Entries
      BY <1>1, ElementOfSeq, LenProperties
    <2>2. [i \in 1..Len(l) |-> Entry(l[i])] \in [1..Len(l) -> Entries]
      BY <2>1
    <2>3. [i \in 1..Len(l) |-> Entry(l[i])] \in Seq(Entries)
      BY <2>1, <2>2, SeqDef
    <2>4. DOMAIN [i \in 1..Len(l) |-> Entry(l[i])] = 1..Len(l)
      OBVIOUS
    <2> QED  BY <2>1, <2>3, <2>4, LenProperties
  <1>4. /\ Journal = [i \in 1..Len(log) |-> Entry(log[i])]
        /\ Journal' = [i \in 1..Len(log') |-> Entry(log'[i])]
    BY DEF Journal, Entry
  <1>5. /\ Journal \in Seq(Entries) /\ Len(Journal) = Len(log)
        /\ Journal' \in Seq(Entries) /\ Len(Journal') = Len(log) + 1
    BY <1>2, <1>3, <1>4
  <1>6. /\ Append(Journal, Entry(e)) \in Seq(Entries)
        /\ Len(Append(Journal, Entry(e))) = Len(log) + 1
        /\ \A i \in 1..Len(log) : Append(Journal, Entry(e))[i] = Journal[i]
        /\ Append(Journal, Entry(e))[Len(log) + 1] = Entry(e)
    BY <1>1, <1>5, AppendProperties
  <1>7. ASSUME NEW i \in 1..(Len(log) + 1)
        PROVE  Journal'[i] = Append(Journal, Entry(e))[i]
    <2>1. Journal'[i] = Entry(log'[i])
      BY <1>2, <1>4
    <2>2. CASE i \in 1..Len(log)
      BY <1>2, <1>4, <1>6, <2>1, <2>2
    <2>3. CASE i = Len(log) + 1
      BY <1>2, <1>6, <2>1, <2>3
    <2>4. i \in 1..Len(log) \/ i = Len(log) + 1
      <3>1. Len(log) \in Nat
        BY <1>2
      <3> QED  BY <3>1
    <2> QED  BY <2>2, <2>3, <2>4
  <1> QED  BY <1>5, <1>6, <1>7, SeqEqual

\* The release in force: behind a staged run, the one that run found.
LEMMA InForceIs ==
    ASSUME TypeOK, OneHolder
    PROVE  /\ \A r \in Runs : pc[r] \in Live => InForce = prior[r].pointer
           /\ (\A r \in Runs : pc[r] \notin Live) => InForce = host.pointer
           /\ InForce \in Record!Releases
  <1>1. Staged = Live /\ Live \subseteq Holding
    BY DEF Staged, Live, Holding, Executing
  <1>2. ASSUME NEW r \in Runs, pc[r] \in Live
        PROVE  InForce = prior[r].pointer
    <2>1. (CHOOSE s \in Runs : pc[s] \in Staged) = r
      BY <1>1, <1>2 DEF OneHolder
    <2> QED  BY <1>1, <1>2, <2>1 DEF InForce
  <1>3. (\A r \in Runs : pc[r] \notin Live) => InForce = host.pointer
    BY <1>1 DEF InForce
  <1>4. host.pointer \in Dirs \cup {None} /\ \A r \in Runs : prior[r].pointer \in Dirs \cup {None}
    BY DEF TypeOK, Prior, Host
  <1>5. InForce \in Dirs \cup {None}
    BY <1>2, <1>3, <1>4
  <1> QED  BY <1>2, <1>3, <1>5 DEF Record!Releases, Dirs

LEMMA InForceIsAfter ==
    (TypeOK /\ OneHolder)' =>
       /\ (\A r \in Runs : pc'[r] \notin Live) => InForce' = host'.pointer
       /\ InForce' \in Record!Releases
  <1>1. TypeOK /\ OneHolder => /\ (\A r \in Runs : pc[r] \notin Live) => InForce = host.pointer
                              /\ InForce \in Record!Releases
    BY InForceIs
  <1>2. (TypeOK /\ OneHolder => /\ (\A r \in Runs : pc[r] \notin Live) => InForce = host.pointer
                               /\ InForce \in Record!Releases)'
    BY <1>1, PTL
  <1> QED  BY <1>2 DEF Record!Releases

LEMMA ActiveExecute ==
    ASSUME TypeInv, RecordInv, NEW r \in Runs, Execute(r)
    PROVE  Active'
  <1>1. /\ TypeOK /\ r \in Dirs /\ pc[r] \in Executing
        /\ pc[r] \in Live \ {"rollback"} => host.pointer = r
    BY ExecuteHolds DEF TypeInv, Dirs, RecordInv, Active
  <1>2. ASSUME NEW s \in Runs, s # r
        PROVE  pc'[s] \notin Live
    BY <1>1, <1>2, ExecuteFrame DEF RecordInv, OneHolder, Holding, Same, Live, Executing
  <1>3. ASSUME pc'[r] \in Live \ {"rollback"}
        PROVE  host'.pointer = r
    <2>1. ~ Raise(r)
      BY <1>1, <1>3, StopLeaves DEF Raise, Live
    <2>2. CASE Stage(r)
      <3>1. host' = Activated(r)
        BY <2>1, <2>2 DEF Stage
      <3> QED  BY <1>1, <3>1 DEF Activated, Written, TypeOK, Host
    <2>3. CASE Reload(r)
      BY <1>1, <2>1, <2>3 DEF Reload, Reloaded, TypeOK, Host, Live
    <2>4. CASE Observe(r)
      <3>1. host' = host \/ host' = Restored(r)
        BY <2>1, <2>4 DEF Observe
      <3> QED  BY <1>1, <2>4, <3>1 DEF Observe, Restored, TypeOK, Host, Live
    <2>5. CASE Judge(r) \/ Accept(r)
      <3>1. host' = host /\ pc[r] \in {"judge", "accept"}
        BY <2>1, <2>5 DEF Judge, Accept
      <3> QED  BY <1>1, <3>1 DEF Live
    <2>6. CASE Rollback(r) \/ Kill(r)
      BY <1>1, <1>3, <2>6 DEF Rollback, Kill, Finish, TypeOK, Live
    <2>7. pc[r] \in Live \/ Stage(r)
      BY <1>3, ExecuteMoves
    <2>8. CASE Reassert(r) \/ Preconditions(r) \/ Fetch(r) \/ Check(r) \/ Rehearse(r)
      BY <2>2, <2>7, <2>8 DEF Reassert, Preconditions, Fetch, Check, Rehearse, Live
    <2> QED  BY <2>2, <2>3, <2>4, <2>5, <2>6, <2>8 DEF Execute
  <1> QED  BY <1>2, <1>3 DEF Active

LEMMA FiledExecute ==
    ASSUME TypeInv, TypeInv', Filed, NEW r \in Runs, Execute(r)
    PROVE  Filed'
  <1>1. TypeOK /\ pc[r] \in Executing
    BY ExecuteHolds DEF TypeInv
  <1>2. ASSUME NEW q \in Runs, pc[q] \in Ended
        PROVE  pc'[q] \in Ended
    BY <1>1, <1>2, ExecuteFrame DEF Executing, Ended, Same
  <1>3. CASE UNCHANGED log
    BY <1>2, <1>3 DEF Filed
  <1>4. ASSUME NEW result \in Outcomes, Entered(r, result)
        PROVE  Filed'
    <2>1. PICK e \in Receipt : log' = Append(log, e) /\ e.run = r
      BY <1>4 DEF Entered
    <2>2. /\ Len(log) \in Nat /\ Len(log') = Len(log) + 1
          /\ \A i \in 1..Len(log) : log'[i] = log[i]
          /\ log'[Len(log) + 1] = e
      BY <1>1, <2>1, AppendProperties, LenProperties DEF TypeOK
    <2>3. pc'[r] \in Ended
      BY <1>4, FiledMeansEnded
    <2> QED  BY <1>2, <2>1, <2>2, <2>3 DEF Filed
  <1> QED  BY <1>3, <1>4, ExecuteEnters DEF Outcomes

\* With nobody changing the host by hand the invariant is inductive.
LEMMA RecordInvNext ==
    ASSUME MaxHands = 0, TypeInv, TypeInv', RecordInv, [Next]_vars
    PROVE  RecordInv'
  <1>1. TypeOK /\ OneHolder' /\ Captured' /\ hands = 0
    BY OneHolderNext, CapturedNext DEF TypeInv, TypeOK, RecordInv
  <1>2. CASE Merge \/ UNCHANGED vars
    BY <1>1, <1>2 DEF Merge, vars, RecordInv, Filed, Active
  <1>3. CASE \E d \in Dirs : ByHand(d)
    BY <1>1, <1>3 DEF ByHand, HandEdit, HandUndo, HandActivate
  <1>4. ASSUME NEW r \in Runs, Workflow(r)
        PROVE  RecordInv'
    <2>1. UNCHANGED <<host, log, hands>>
      BY <1>4 DEF Workflow, Dispatch, Admit, Review
    <2>2. ASSUME NEW s \in Runs
          PROVE  /\ pc[s] \in Ended => pc'[s] \in Ended
                 /\ pc'[s] \in Live => pc[s] = pc'[s]
      <3> USE <1>1 DEF TypeOK, Queueing, Live, Ended
      <3>1. CASE Dispatch(r)
        BY <3>1 DEF Dispatch
      <3>2. CASE Admit(r) \/ Review(r)
        BY <3>2 DEF Admit, Review
      <3> QED  BY <1>4, <3>1, <3>2 DEF Workflow
    <2> QED  BY <1>1, <2>1, <2>2 DEF RecordInv, Filed, Active
  <1>5. ASSUME NEW r \in Runs, Execute(r)
        PROVE  RecordInv'
    BY <1>1, <1>5, ActiveExecute, FiledExecute, ExecuteHolds DEF RecordInv
  <1> QED  BY <1>2, <1>3, <1>4, <1>5 DEF Next

\* A step that files nothing is a step of Vanish: it promises nothing.
LEMMA QuietStep ==
    ASSUME TypeInv, TypeInv', OneHolder, [Next]_vars, UNCHANGED log
    PROVE  Record!Vanish
  <1>1. TypeOK /\ TypeOK' /\ OneHolder'
    BY OneHolderNext DEF TypeInv
  <1>2. InForce' \in Record!Releases
    BY <1>1, InForceIsAfter
  <1>3. Journal' = Journal
    BY DEF Journal
  <1> QED  BY <1>2, <1>3 DEF Record!Vanish

\* A step that files a receipt takes effect for a reader of the receipts at once.
LEMMA FilingStep ==
    ASSUME MaxHands = 0, TypeInv, TypeInv', RecordInv, [Next]_vars,
           NEW r \in Runs, Execute(r), NEW result \in Outcomes, Entered(r, result),
           result = "accepted" => pc[r] = "accept",
           result = "rolled-back" => Rollback(r)
    PROVE  Record!Accept(r) \/ Record!RollBack(r) \/ Record!Unsettle(r)
  <1>1. /\ TypeOK /\ TypeOK' /\ OneHolder /\ OneHolder' /\ RecordInv'
        /\ pc[r] \in Executing /\ outcome[r] = None
    BY RecordInvNext, ExecuteHolds
       DEF TypeInv, RecordInv, Held, Fits, Executing, Ended
  <1>2. PICK e \in Receipt : log' = Append(log, e) /\ e.run = r /\ e.outcome = result
    BY DEF Entered
  <1>3. Journal' = Append(Journal, [run |-> r, outcome |-> result, proved |-> e.restored = TRUE])
    BY <1>1, <1>2, JournalGrows DEF Entry
  <1>4. Record!Unfiled(r)
    <2>1. /\ Len(log) \in Nat /\ DOMAIN Journal = 1..Len(log)
          /\ \A i \in 1..Len(log) : Journal[i].run = log[i].run
      BY <1>1, LenProperties DEF Journal, TypeOK
    <2>2. Len(Journal) = Len(log)
      BY <2>1 DEF Journal
    <2>3. \A i \in 1..Len(log) : log[i].run # r
      BY <1>1 DEF RecordInv, Filed, Executing, Ended
    <2> QED  BY <2>1, <2>2, <2>3 DEF Record!Unfiled
  <1>5. \E proof \in BOOLEAN : /\ proof = (e.restored = TRUE)
                               /\ Record!Enter(r, result, proof)
    BY <1>3, <1>4 DEF Record!Enter
  <1>6. \A s \in Runs : pc'[s] \notin Live
    <2>1. pc'[r] \in Ended
      BY FiledMeansEnded
    <2>2. ASSUME NEW s \in Runs, s # r
          PROVE  pc'[s] \notin Live
      BY <1>1, <2>2, ExecuteFrame DEF OneHolder, Holding, Same, Live, Executing
    <2> QED  BY <2>1, <2>2 DEF Ended, Live
  <1>7. InForce' = host'.pointer /\ InForce' \in Record!Releases
    BY <1>1, <1>6, InForceIsAfter
  <1>8. CASE result = "failed"
    BY <1>5, <1>7, <1>8 DEF Record!Unsettle
  <1>9. CASE result = "accepted"
    <2>1. host.pointer = r /\ pc[r] = "accept"
      BY <1>9 DEF RecordInv, Active, Live
    <2>2. UNCHANGED host
      <3>1. outcome'[r] = "accepted" /\ None # "accepted"
        BY <1>1, <1>9, NoneAssumption DEF Entered, TypeOK, Outcomes
      <3>2. ~ Kill(r) /\ ~ Raise(r)
        BY <1>1, <3>1, RaiseFails DEF Kill
      <3> QED  BY <2>1, <3>2 DEF Execute, Reassert, Preconditions, Fetch, Check, Rehearse,
               Stage, Reload, Observe, Judge, Accept, Rollback
    <2> QED  BY <1>5, <1>7, <1>9, <2>1, <2>2 DEF Record!Accept
  <1>10. CASE result = "rolled-back" /\ e.restored # TRUE
    BY <1>5, <1>7, <1>10 DEF Record!Unsettle
  <1>11. CASE result = "rolled-back" /\ e.restored = TRUE
    <2>1. pc[r] = "rollback" /\ pc[r] \in Live
      BY <1>11 DEF Rollback, Live
    <2>2. InForce = prior[r].pointer
      BY <1>1, <2>1, InForceIs
    <2>3. prior[r].pointer # None
      BY <2>1 DEF RecordInv, Captured, TypeInv, Held, Fits
    <2>4. host'.pointer = prior[r].pointer
      <3>1. Files(r, "rolled-back")
        BY <1>1, <1>11 DEF Files, Entered, TypeOK
      <3>2. log'[Len(log')] = e
        BY <1>1, <1>2, AppendProperties DEF TypeOK
      <3> QED  BY <1>11, <3>1, <3>2, ProvedRollbackStep DEF RecordInv
    <2>5. Record!Enter(r, "rolled-back", TRUE)
      BY <1>5, <1>11
    <2> QED  BY <1>7, <2>2, <2>3, <2>4, <2>5 DEF Record!RollBack
  <1> QED  BY <1>8, <1>9, <1>10, <1>11 DEF Outcomes

\* The receipts mean what PromotionRecord says, for any number of runs, as long as
\* nobody changes the host by hand: an accepted run's release is in force, and a
\* rolled-back run with proof changed nothing, each in the one step that files it,
\* however many calls, crashes and waiting runs lie in between.
THEOREM ReceiptsImplementTheRecord ==
    ASSUME MaxHands = 0
    PROVE  Spec => ImplementsRecord
  <1>1. Init => RecordInv /\ Record!Init
    <2> SUFFICES ASSUME Init
                 PROVE  RecordInv /\ Record!Init
      OBVIOUS
    <2>1. \A r \in Runs : pc[r] = "undispatched"
      BY DEF Init
    <2>2. RecordInv
      BY <2>1, PromotionAssumption
         DEF Init, RecordInv, OneHolder, Captured, Filed, Active, Holding, Reviewing,
             Executing, Live
    <2>3. InForce = host.pointer
      BY <2>1 DEF InForce, Staged
    <2>4. CASE log = <<>> /\ host.pointer = None
      <3>1. Journal = <<>>
        BY <2>4 DEF Journal
      <3> QED  BY <2>2, <2>3, <2>4, <3>1 DEF Record!Init
    <2>5. CASE /\ host.pointer = Initial
               /\ log = <<[run |-> Initial, outcome |-> "accepted", rev |-> 0,
                           tree |-> Rendered[0], current |-> Initial, restored |-> TRUE]>>
      <3>1. Len(log) = 1 /\ log[1].run = Initial /\ log[1].outcome = "accepted"
            /\ log[1].restored = TRUE
        BY <2>5
      <3>2. Journal = <<[run |-> Initial, outcome |-> "accepted", proved |-> TRUE]>>
        <4> DEFINE entry == [run |-> Initial, outcome |-> "accepted", proved |-> TRUE]
        <4>1. Journal = [i \in 1..1 |-> entry]
          <5>1. \A i \in 1..1 : [run |-> log[i].run, outcome |-> log[i].outcome,
                                 proved |-> log[i].restored = TRUE] = entry
            <6> TAKE i \in 1..1
            <6>1. i = 1
              OBVIOUS
            <6>2. (log[1].restored = TRUE) = TRUE
              BY <3>1
            <6> QED  BY <3>1, <6>1, <6>2, Zenon
          <5>2. 1..Len(log) = 1..1
            BY <3>1
          <5> HIDE DEF entry
          <5> QED  BY <5>1, <5>2, Zenon DEF Journal
        <4> HIDE DEF entry
        <4>2. [i \in 1..1 |-> entry] = <<entry>>
          OBVIOUS
        <4> QED  BY <4>1, <4>2 DEF entry
      <3> QED  BY <2>2, <2>3, <2>5, <3>2 DEF Record!Init
    <2> QED  BY <2>4, <2>5 DEF Init
  <1>2. TypeInv /\ TypeInv' /\ RecordInv /\ [Next]_vars
           => [Record!Next]_<<InForce, Journal>>
    <2> SUFFICES ASSUME TypeInv, TypeInv', RecordInv, [Next]_vars
                 PROVE  Record!Next
      OBVIOUS
    <2>1. CASE UNCHANGED log
      BY <2>1, QuietStep DEF RecordInv, Record!Next
    <2>2. CASE log' # log
      <3>1. PICK r \in Runs : Execute(r)
        BY <2>2 DEF Next, Merge, ByHand, HandEdit, HandUndo, HandActivate, Workflow,
                    Dispatch, Admit, Review, vars
      <3>2. PICK result \in Outcomes : /\ Entered(r, result)
                                       /\ result = "accepted" => pc[r] = "accept"
                                       /\ result = "rolled-back" => Rollback(r)
        BY <2>2, <3>1, ExecuteEnters DEF Outcomes
      <3> QED  BY <3>1, <3>2, FilingStep DEF Record!Next
    <2> QED  BY <2>1, <2>2
  <1>3. MaxHands = 0 /\ TypeInv /\ TypeInv' /\ RecordInv /\ [Next]_vars => RecordInv'
    BY RecordInvNext
  <1> QED  BY <1>1, <1>2, <1>3, TypeInit, TypeNext, PTL DEF Spec, ImplementsRecord, Record!Spec

=============================================================================
