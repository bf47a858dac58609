---------------------------- MODULE Drift_proofs ----------------------------
(***************************************************************************)
(* Safety theorems of Drift: what a comparison says of the host, whenever   *)
(* its three artifacts were fetched.                                        *)
(*                                                                         *)
(* A step of Drift is a step of Promotion or leaves its variables alone, so *)
(* what is proved of Promotion holds here.  The rest is the rules a receipt *)
(* records, and what an unproved run may have left of the host.             *)
(***************************************************************************)
EXTENDS Drift, Promotion_proofs

Rules == {Names[d] : d \in Digests} \cup {None}

\* What holds of the promotions.
Known == TypeInv /\ DeployedInv /\ ChainInv

Typed ==
    /\ seen \in [Runs -> Rules]
    /\ recorded \in Seq(Rules) /\ Len(recorded) = Len(log)
    /\ since \subseteq Runs \cup {"hand"}

\* A run has one read-back; when it surely found the evaluators as the run's own calls
\* had left them, it recorded the rules of the tree it read.
Observed ==
    \A r \in Runs :
       /\ pc[r] \in {"reload", "observe"} => live[r] = None
       /\ pc[r] \in {"judge", "accept"} /\ Surely(r) => seen[r] = RulesDigest(live[r].tree, TRUE)

\* So did the receipt of an accepted one.
Truthful == \A i \in Accepted : Loaded(i) => recorded[i] = Names[log[i].tree]

\* A run is in `since` from its stage() on.
Marked ==
    /\ \A r \in Runs : r \in since => pc[r] \notin Beginning
    /\ \A r \in Runs : pc[r] \in Live => r \in since

\* A read-back says which release it is of.
Pointed ==
    \A r \in Runs : pc[r] \in {"judge", "accept"} /\ live[r].at = hands =>
       live[r].current = host.pointer

\* The directory p holds what receipt i recorded.
Recorded(i, p) == p = log[i].current /\ RulesDigest(TreeAt(host.store, p), TRUE) = recorded[i]

\* Nothing has touched the host since the last acceptance, or nothing but the run
\* that is at work now, and what it is to be rolled back to is untouched.
Untouched ==
    Accepted # {} =>
       /\ since = {} => /\ Recorded(LastReceipt, host.pointer)
                        /\ RulesDigest(host.loaded, TRUE) = recorded[LastReceipt]
       /\ \A r \in Runs : pc[r] \in Live /\ since = {r} =>
             Recorded(LastReceipt, staged[r].previous)

\* The operator's artifacts, and the report over them.
Fetched ==
    /\ desired \in Digests \cup {None}
    /\ reading # None =>
          /\ reading.tree \in Digests \cup {None} /\ reading.current \in Dirs \cup {None}
          /\ reading.last # None /\ reading.after = {} =>
                /\ reading.last \in 1..Len(log)
                /\ reading.current = log[reading.last].current
                /\ reading.rules = recorded[reading.last]
    /\ receipt # None => receipt \in 1..Len(log)
    /\ report # None => report = Compared(desired, reading, receipt)

DriftInv == Typed /\ Observed /\ Truthful /\ Marked /\ Pointed /\ Untouched /\ Fetched

-----------------------------------------------------------------------------
(* The promotions behind the comparison. *)

LEMMA DriftImplementsPromotion == DriftSpec => Spec
  <1>1. DriftInit => Init
    BY DEF DriftInit
  <1>2. [DriftNext]_driftVars => [Next]_vars
    BY DEF DriftNext, driftVars, Promote, CheckOut, Look, PickUp, Compare
  <1> QED  BY <1>1, <1>2, PTL DEF DriftSpec, Spec

LEMMA PromotionsAreKnown == Spec => []Known
  <1>1. Init => DeployedInv
    BY DEF Init, DeployedInv, Deployed, Captured, Live, OneHolder, Holding, Reviewing, Executing
  <1> QED  BY <1>1, TypeInit, TypeNext, DeployedNext, ChainInit, ChainNext, PTL DEF Spec, Known

-----------------------------------------------------------------------------
(* Receipts. *)

LEMMA DigestTyped ==
    ASSUME NEW d \in Digests \cup {None}, NEW up
    PROVE  RulesDigest(d, up) \in Rules
  BY NamesAssumption DEF RulesDigest, Rules

LEMMA LastIsAccepted ==
    ASSUME TypeOK, Accepted # {}
    PROVE  /\ LastReceipt \in Accepted /\ \A j \in Accepted : j <= LastReceipt
           /\ LastReceipt \in 1..Len(log)
  <1> DEFINE last == CHOOSE i \in Accepted : \A j \in Accepted : j <= i
  <1>1. last \in Accepted /\ \A j \in Accepted : j <= last
    BY LastOfSome
  <1>2. LastReceipt = last
    BY DEF LastReceipt
  <1> HIDE DEF last
  <1> QED  BY <1>1, <1>2 DEF Accepted

\* What a step of a promotion files, and what is recorded with it.
LEMMA Filing ==
    ASSUME TypeInv, Typed, Promote
    PROVE  \/ UNCHANGED <<log, recorded>>
           \/ \E r \in Runs, e \in Receipt :
                 /\ Execute(r) /\ e.run = r /\ log' = Append(log, e)
                 /\ outcome'[r] = e.outcome /\ outcome[r] = None
                 /\ recorded' = Append(recorded,
                        IF e.outcome = "rolled-back" THEN RulesDigest(host'.loaded, TRUE)
                        ELSE seen[r])
  <1>1. TypeOK /\ Next /\ recorded' = Records /\ Len(log) \in Nat /\ log \in Seq(Receipt)
    BY LenProperties DEF TypeInv, TypeOK, Promote
  <1>2. CASE UNCHANGED log
    BY <1>1, <1>2 DEF Records
  <1>3. ASSUME NEW r \in Runs, Execute(r), NEW result \in Outcomes, Entered(r, result)
        PROVE  \E e \in Receipt :
                 /\ e.run = r /\ log' = Append(log, e)
                 /\ outcome'[r] = e.outcome
                 /\ recorded' = Append(recorded,
                        IF e.outcome = "rolled-back" THEN RulesDigest(host'.loaded, TRUE)
                        ELSE seen[r])
    <2>1. PICK e \in Receipt : log' = Append(log, e) /\ e.run = r /\ e.outcome = result
      BY <1>3 DEF Entered
    <2>2. Len(log') = Len(log) + 1 /\ log'[Len(log')] = e
      BY <1>1, <2>1, AppendProperties
    <2>3. outcome'[r] = result
      BY <1>1, <1>3 DEF Entered, TypeOK
    <2>4. Records = Append(recorded,
                        IF e.outcome = "rolled-back" THEN RulesDigest(host'.loaded, TRUE)
                        ELSE seen[r])
      <3>1. Len(log') # Len(log)
        BY <1>1, <2>2
      <3> HIDE DEF RulesDigest
      <3> QED  BY <2>1, <2>2, <3>1 DEF Records
    <2> QED  BY <1>1, <2>1, <2>3, <2>4
  <1>4. ASSUME NEW r \in Runs, Execute(r)
        PROVE  UNCHANGED log \/ \E result \in Outcomes : Entered(r, result)
    BY <1>4, ExecuteEnters DEF Outcomes
  <1>5. ASSUME NEW r \in Runs, Execute(r)
        PROVE  outcome[r] = None
    BY <1>5, ExecuteHolds DEF TypeInv, Held, Fits, Executing, Ended
  <1>6. UNCHANGED log \/ \E r \in Runs : Execute(r)
    BY <1>1 DEF Next, Merge, Workflow, Dispatch, Admit, Review, ByHand, HandEdit, HandUndo, HandActivate
  <1> QED  BY <1>2, <1>3, <1>4, <1>5, <1>6

\* Receipts and their recorded rules stay as they were filed.
LEMMA Grows ==
    ASSUME TypeInv, Typed, Promote
    PROVE  /\ Len(log) \in Nat /\ Len(log') \in Nat /\ Len(log) <= Len(log')
           /\ \A i \in 1..Len(log) : log'[i] = log[i] /\ recorded'[i] = recorded[i]
           /\ Accepted \subseteq Accepted' /\ Accepted \subseteq 1..Len(log)
  <1>1. /\ Len(log) \in Nat /\ log \in Seq(Receipt)
        /\ recorded \in Seq(Rules) /\ Len(recorded) = Len(log)
    BY LenProperties DEF TypeInv, TypeOK, Typed
  <1>2. CASE UNCHANGED <<log, recorded>>
    BY <1>1, <1>2 DEF Accepted
  <1>3. ASSUME NEW e \in Receipt, log' = Append(log, e), NEW rules,
               recorded' = Append(recorded, rules)
        PROVE  /\ Len(log') = Len(log) + 1
               /\ \A i \in 1..Len(log) : log'[i] = log[i] /\ recorded'[i] = recorded[i]
    <2>1. Len(log') = Len(log) + 1 /\ \A i \in 1..Len(log) : log'[i] = log[i]
      BY <1>1, <1>3, AppendProperties
    <2>2. \A i \in 1..Len(log) : recorded'[i] = recorded[i]
      BY <1>1, <1>3
    <2> QED  BY <2>1, <2>2
  <1>4. CASE \E e \in Receipt : \E rules : log' = Append(log, e) /\ recorded' = Append(recorded, rules)
    BY <1>1, <1>3, <1>4 DEF Accepted
  <1> QED  BY <1>2, <1>4, Filing

\* The filing of an accepted receipt, and of a rollback that proved itself.
LEMMA AcceptedGrowsBy ==
    ASSUME TypeInv, Typed, Promote
    PROVE  \/ /\ Accepted' = Accepted
              /\ \A r \in Runs : ~ Files(r, "accepted")
           \/ \E r \in Runs :
                 /\ Files(r, "accepted") /\ Execute(r)
                 /\ Accepted' = Accepted \cup {Len(log) + 1}
                 /\ log'[Len(log) + 1].run = r /\ log'[Len(log) + 1].tree = Tree(r)
                 /\ log'[Len(log) + 1].current = live[r].current
                 /\ recorded'[Len(log) + 1] = seen[r]
                 /\ \A q \in Runs : Files(q, "accepted") => q = r
  <1>1. /\ TypeOK /\ Held /\ Len(log) \in Nat /\ log \in Seq(Receipt) /\ [Next]_vars
        /\ recorded \in Seq(Rules) /\ Len(recorded) = Len(log)
    BY LenProperties DEF TypeInv, TypeOK, Typed, Promote
  <1>2. ASSUME NEW r \in Runs, Files(r, "accepted")
        PROVE  /\ Execute(r)
               /\ log' = Append(log, [run |-> r, outcome |-> "accepted", rev |-> request[r].rev,
                        tree |-> Tree(r), current |-> live[r].current,
                        restored |-> IF live[r].rollback = None THEN None
                                     ELSE live[r].rollback.succeeded])
    <2>1. pc[r] = "accept" /\ Accept(r) /\ ~ Raise(r)
      BY <1>1, <1>2, AcceptedStep
    <2>2. live[r] # None
      BY <1>1, <2>1 DEF Held, Fits
    <2>3. File(r, "accepted", live[r])
      BY <2>1 DEF Accept, Finish
    <2> QED  BY <2>1, <2>2, <2>3 DEF File, Execute
  <1>3. CASE \A r \in Runs : ~ Files(r, "accepted")
    <2>1. CASE UNCHANGED <<log, recorded>>
      BY <1>3, <2>1 DEF Accepted
    <2>2. ASSUME NEW r \in Runs, NEW e \in Receipt, log' = Append(log, e),
                 outcome'[r] = e.outcome, outcome[r] = None
          PROVE  Accepted' = Accepted
      <3>1. e.outcome # "accepted"
        BY <1>3, <2>2 DEF Files
      <3>2. /\ Len(log') = Len(log) + 1 /\ log'[Len(log) + 1] = e
            /\ \A i \in 1..Len(log) : log'[i] = log[i]
        BY <1>1, <2>2, AppendProperties
      <3>3. Accepted' \subseteq Accepted
        BY <1>1, <3>1, <3>2 DEF Accepted
      <3>4. Accepted \subseteq Accepted'
        BY <1>1, <3>2 DEF Accepted
      <3> QED  BY <3>3, <3>4
    <2> QED  BY <1>3, <2>1, <2>2, Filing
  <1>4. ASSUME NEW r \in Runs, Files(r, "accepted")
        PROVE  /\ Execute(r)
               /\ Accepted' = Accepted \cup {Len(log) + 1}
               /\ log'[Len(log) + 1].run = r /\ log'[Len(log) + 1].tree = Tree(r)
               /\ log'[Len(log) + 1].current = live[r].current
               /\ recorded'[Len(log) + 1] = seen[r]
               /\ \A q \in Runs : Files(q, "accepted") => q = r
    <2> DEFINE e == [run |-> r, outcome |-> "accepted", rev |-> request[r].rev,
                     tree |-> Tree(r), current |-> live[r].current,
                     restored |-> IF live[r].rollback = None THEN None
                                  ELSE live[r].rollback.succeeded]
    <2>1. Execute(r) /\ log' = Append(log, e)
      BY <1>2, <1>4
    <2>2. /\ e.run = r /\ e.outcome = "accepted" /\ e.tree = Tree(r)
          /\ e.current = live[r].current
      OBVIOUS
    <2> HIDE DEF e
    <2>3. ~ UNCHANGED log
      <3>1. ASSUME UNCHANGED log
            PROVE  FALSE
        <4>1. Len(Append(log, e)) = Len(log) + 1
          BY <1>1
        <4> QED  BY <1>1, <2>1, <3>1, <4>1
      <3> QED  BY <3>1
    <2>4. PICK q \in Runs, f \in Receipt :
                 /\ Execute(q) /\ f.run = q /\ log' = Append(log, f)
                 /\ recorded' = Append(recorded,
                        IF f.outcome = "rolled-back" THEN RulesDigest(host'.loaded, TRUE)
                        ELSE seen[q])
      BY <2>3, Filing
    <2>5. /\ Len(log') = Len(log) + 1 /\ log'[Len(log) + 1] = e
          /\ \A i \in 1..Len(log) : log'[i] = log[i]
      BY <1>1, <2>1
    <2>6. f = e
      BY <1>1, <2>4, <2>5, AppendProperties
    <2>7. recorded'[Len(log) + 1] = seen[r]
      <3>1. q = r /\ f.outcome # "rolled-back"
        BY <2>2, <2>4, <2>6
      <3>2. recorded' = Append(recorded, seen[r])
        BY <2>4, <3>1
      <3> QED  BY <1>1, <3>2
    <2>8. Accepted' = Accepted \cup {Len(log) + 1}
      BY <1>1, <2>2, <2>5 DEF Accepted
    <2>9. ASSUME NEW s \in Runs, Files(s, "accepted")
          PROVE  s = r
      <3>1. s # r => outcome'[s] = outcome[s]
        BY <2>1, ExecuteFrame DEF Same
      <3>2. outcome[s] = None /\ outcome'[s] = "accepted" /\ None # "accepted"
        BY <2>9, NoneAssumption DEF Files, Outcomes
      <3> QED  BY <3>1, <3>2
    <2> QED  BY <2>1, <2>2, <2>5, <2>7, <2>8, <2>9
  <1> QED  BY <1>3, <1>4

\* A read-back is taken by observe(), of the host that step leaves.
LEMMA ReadBacks ==
    ASSUME TypeInv, TypeInv', DeployedInv', [Next]_vars,
           NEW r \in Runs, live'[r] # live[r], live'[r] # None
    PROVE  /\ Surely(r)' => Fresh'
           /\ live'[r].tree = TreeAt(host'.store, host'.pointer)
           /\ live'[r].current = host'.pointer
  <1>1. TypeOK /\ Held
    BY DEF TypeInv
  <1>2. PICK q \in Runs : Execute(q)
    BY DEF Next, Merge, ByHand, HandEdit, HandUndo, HandActivate, Workflow,
           Dispatch, Admit, Review, vars
  <1>3. q = r
    BY <1>2, ExecuteFrame DEF Same
  <1>4. Observe(r) /\ ~ Raise(r)
    <2>1. ~ Raise(r)
      BY <1>1 DEF Raise, Stop, TypeOK
    <2>2. CASE Reassert(r) \/ Preconditions(r) \/ Kill(r) \/ Fetch(r) \/ Reload(r)
               \/ Accept(r) \/ Rollback(r)
      BY <2>1, <2>2 DEF Reassert, Preconditions, Kill, Fetch, Reload, Accept, Rollback
    <2>3. CASE Check(r) \/ Rehearse(r) \/ Stage(r) \/ Judge(r)
      BY <1>1, <2>1, <2>3 DEF Check, Rehearse, Stage, Judge, Stop, TypeOK
    <2> QED  BY <1>2, <1>3, <2>1, <2>2, <2>3 DEF Execute
  <1>5. PICK sound \in BOOLEAN, record \in Exercises(r) :
            live' = [live EXCEPT ![r] = ReadBack(host', sound, record)]
    BY <1>4 DEF Observe
  <1>6. pc'[r] = "judge" /\ hands' = hands
    BY <1>1, <1>4, ReachMoves DEF Observe
  <1>7. /\ live'[r].at = hands /\ live'[r].current = host'.pointer
        /\ live'[r].tree = TreeAt(host'.store, host'.pointer)
    BY <1>1, <1>5 DEF ReadBack, TypeOK
  <1>8. Deployed(r)'
    BY DEF DeployedInv
  <1> QED  BY <1>6, <1>7, <1>8 DEF Deployed

-----------------------------------------------------------------------------
(* The invariant, part by part, over a step of the promotions. *)

LEMMA TypedPromote ==
    ASSUME TypeInv, TypeInv', Typed, Promote
    PROVE  Typed'
  <1>1. host'.loaded \in Digests \cup {None}
    BY DEF TypeInv, TypeOK, Host
  <1>2. RulesDigest(host'.loaded, TRUE) \in Rules
    BY <1>1, DigestTyped
  <1>3. seen' \in [Runs -> Rules]
    BY <1>2 DEF Typed, Promote
  <1>4. recorded' \in Seq(Rules) /\ Len(recorded') = Len(log')
    <2>1. CASE UNCHANGED <<log, recorded>>
      BY <2>1 DEF Typed
    <2>2. ASSUME NEW r \in Runs, NEW e \in Receipt, log' = Append(log, e),
                 recorded' = Append(recorded,
                        IF e.outcome = "rolled-back" THEN RulesDigest(host'.loaded, TRUE)
                        ELSE seen[r])
          PROVE  recorded' \in Seq(Rules) /\ Len(recorded') = Len(log')
      <3>1. PICK rules \in Rules : recorded' = Append(recorded, rules)
        BY <1>2, <2>2 DEF Typed
      <3>2. recorded \in Seq(Rules) /\ Len(recorded) = Len(log) /\ log \in Seq(Receipt)
        BY DEF Typed, TypeInv, TypeOK
      <3>3. recorded' \in Seq(Rules) /\ Len(recorded') = Len(recorded) + 1
        BY <3>1, <3>2, AppendProperties
      <3>4. Len(log') = Len(log) + 1
        BY <2>2, <3>2, AppendProperties
      <3> QED  BY <3>2, <3>3, <3>4
    <2> QED  BY <2>1, <2>2, Filing
  <1>5. since' \subseteq Runs \cup {"hand"}
    BY DEF Typed, Promote, Since
  <1> QED  BY <1>3, <1>4, <1>5 DEF Typed

\* A step that is nobody's call neither moves a run across its stage() nor decides one.
LEMMA OutsideSteps ==
    ASSUME TypeInv, Next, \A r \in Runs : ~ Execute(r)
    PROVE  /\ UNCHANGED <<staged, prior, live, outcome, log>>
           /\ \A r \in Runs : \/ pc'[r] = pc[r]
                              \/ pc[r] \in Beginning \ {"stage"} /\ pc'[r] \in Beginning
           /\ \/ UNCHANGED <<host, hands>>
              \/ hands' = hands + 1
  <1>1. TypeOK
    BY DEF TypeInv
  <1>2. CASE Merge
    BY <1>2 DEF Merge
  <1>3. CASE \E d \in Dirs : ByHand(d)
    BY <1>3 DEF ByHand, HandEdit, HandUndo, HandActivate
  <1>4. ASSUME NEW r \in Runs, Workflow(r)
        PROVE  /\ UNCHANGED <<staged, prior, live, outcome, log, host, hands>>
               /\ \A s \in Runs : \/ pc'[s] = pc[s]
                                  \/ pc[s] \in Beginning \ {"stage"} /\ pc'[s] \in Beginning
    BY <1>1, <1>4 DEF Workflow, Dispatch, Admit, Review, Beginning, Queueing, TypeOK
  <1> QED  BY <1>2, <1>3, <1>4 DEF Next

\* A step of run r to a state between its stage() and its verdict.
LEMMA OnTheWay ==
    ASSUME TypeInv, NEW r \in Runs, Execute(r)
    PROVE  /\ pc'[r] \in {"reload", "observe"} => live'[r] = live[r] /\ (Stage(r) \/ Reload(r))
           /\ pc'[r] \in {"judge", "accept"} =>
                 \/ pc[r] = "observe"
                 \/ pc[r] \in {"judge", "accept"} /\ UNCHANGED <<staged, prior, live>>
  <1>1. TypeOK
    BY DEF TypeInv
  <1>2. CASE pc'[r] \in {"finished", "rollback"}
    BY <1>2
  <1>3. CASE pc'[r] \notin {"finished", "rollback"}
    <2>1. /\ ~ Raise(r)
          /\ \A states, release, found : ~ Stop(r, states, release, found)
      BY <1>1, <1>3, StopLeaves DEF Raise
    <2>2. CASE Reassert(r) \/ Preconditions(r) \/ Kill(r)
      BY <1>1, <2>2 DEF Reassert, Preconditions, Kill, TypeOK
    <2>3. CASE Fetch(r) \/ Check(r) \/ Rehearse(r)
      BY <1>1, <2>1, <2>3, ReachMoves DEF Fetch, Check, Rehearse
    <2>4. CASE Stage(r) \/ Reload(r)
      BY <1>1, <2>1, <2>4, ReachMoves DEF Stage, Reload
    <2>5. CASE Observe(r)
      BY <1>1, <2>1, <2>5, ReachMoves DEF Observe
    <2>6. CASE Judge(r) \/ Accept(r)
      BY <1>1, <2>1, <2>6 DEF Judge, Accept, Finish, TypeOK
    <2>7. CASE Rollback(r)
      BY <1>1, <2>7 DEF Rollback, Finish, TypeOK
    <2> QED  BY <2>2, <2>3, <2>4, <2>5, <2>6, <2>7 DEF Execute
  <1> QED  BY <1>2, <1>3

LEMMA ObservedPromote ==
    ASSUME Known, Known', Typed, Observed, Promote
    PROVE  Observed'
  <1>1. TypeInv /\ TypeInv' /\ DeployedInv' /\ Next /\ [Next]_vars
    BY DEF Known, Promote
  <1> SUFFICES ASSUME NEW r \in Runs
               PROVE  /\ pc'[r] \in {"reload", "observe"} => live'[r] = None
                      /\ pc'[r] \in {"judge", "accept"} /\ Surely(r)' =>
                            seen'[r] = RulesDigest(live'[r].tree, TRUE)
    BY DEF Observed, RulesDigest
  <1>2. seen'[r] = IF live'[r] # live[r] THEN RulesDigest(host'.loaded, TRUE) ELSE seen[r]
    BY DEF Promote
  <1>3. ASSUME pc'[r] = pc[r], UNCHANGED <<staged, prior, live>>
        PROVE  /\ pc'[r] \in {"reload", "observe"} => live'[r] = None
               /\ pc'[r] \in {"judge", "accept"} /\ Surely(r)' =>
                     seen'[r] = RulesDigest(live'[r].tree, TRUE)
    BY <1>2, <1>3 DEF Observed, Surely
  <1>4. CASE \A s \in Runs : ~ Execute(s)
    <2>1. UNCHANGED <<staged, prior, live>>
      BY <1>1, <1>4, OutsideSteps
    <2>2. pc'[r] = pc[r] \/ pc'[r] \in Beginning
      BY <1>1, <1>4, OutsideSteps, Zenon
    <2> QED  BY <1>3, <2>1, <2>2 DEF Beginning
  <1>5. ASSUME NEW s \in Runs, Execute(s), s # r
        PROVE  /\ pc'[r] \in {"reload", "observe"} => live'[r] = None
               /\ pc'[r] \in {"judge", "accept"} /\ Surely(r)' =>
                     seen'[r] = RulesDigest(live'[r].tree, TRUE)
    <2>1. Same(r)
      BY <1>1, <1>5, ExecuteFrame
    <2> QED  BY <1>2, <2>1 DEF Same, Observed, Surely
  <1>6. CASE Execute(r)
    <2>1. ASSUME pc'[r] \in {"reload", "observe"}
          PROVE  live'[r] = None
      <3>1. live'[r] = live[r] /\ pc[r] \in {"stage", "reload"}
        BY <1>1, <1>6, <2>1, OnTheWay DEF Stage, Reload
      <3>2. pc[r] = "stage" => live[r] = None
        BY <1>1 DEF TypeInv, Held, Fits, Beginning
      <3> QED  BY <3>1, <3>2 DEF Observed
    <2>2. ASSUME pc'[r] \in {"judge", "accept"}, Surely(r)'
          PROVE  seen'[r] = RulesDigest(live'[r].tree, TRUE)
      <3>1. CASE pc[r] = "observe"
        <4>1. live[r] = None
          BY <3>1 DEF Observed
        <4>2. live'[r] # None
          BY <1>1, <2>2 DEF TypeInv, Held, Fits
        <4>3. Fresh' /\ live'[r].tree = TreeAt(host'.store, host'.pointer)
          BY <1>1, <2>2, <4>1, <4>2, ReadBacks
        <4> QED  BY <1>2, <4>1, <4>2, <4>3 DEF Fresh
      <3>2. CASE pc[r] \in {"judge", "accept"} /\ UNCHANGED <<staged, prior, live>>
        BY <1>2, <2>2, <3>2 DEF Observed, Surely
      <3> QED  BY <1>1, <1>6, <2>2, <3>1, <3>2, OnTheWay
    <2> QED  BY <2>1, <2>2
  <1> QED  BY <1>4, <1>5, <1>6

\* What is kept of a run that has ended does not change any more.
LEMMA EndedStays ==
    ASSUME TypeInv, Next, NEW r \in Runs, pc[r] \in Ended
    PROVE  staged'[r] = staged[r] /\ live'[r] = live[r] /\ prior'[r] = prior[r]
  <1>1. CASE \A s \in Runs : ~ Execute(s)
    BY <1>1, OutsideSteps
  <1>2. ASSUME NEW s \in Runs, Execute(s)
        PROVE  Same(r)
    <2>1. pc[s] \in Executing
      BY <1>2, ExecuteHolds
    <2>2. s # r
      BY <2>1 DEF Executing, Ended
    <2> QED  BY <1>2, <2>2, ExecuteFrame
  <1> QED  BY <1>1, <1>2 DEF Same

\* Run r's read-back, when it accepts, is sure of the evaluators if LoadedAt says so.
LEMMA SureWhenLoaded ==
    ASSUME TypeInv, DeployedInv, NEW r \in Runs, pc[r] = "accept"
    PROVE  /\ LoadedAt(r) = live[r].at => Surely(r)
           /\ LoadedAt(r) = hands => live[r].at = hands
  <1>1. Deployed(r) /\ live[r] # None /\ TypeOK
    BY DEF DeployedInv, TypeInv, Held, Fits
  <1>2. live[r].at \in Nat /\ prior[r].at \in Nat /\ hands \in Nat
    BY <1>1, PromotionAssumption DEF TypeOK, LiveState, Prior
  <1>3. prior[r].at <= live[r].at /\ live[r].at <= hands /\ live[r].rollback # None
    BY <1>1 DEF Deployed
  <1>4. LoadedAt(r) = live[r].at => Surely(r)
    BY <1>3 DEF LoadedAt, Surely
  <1>5. LoadedAt(r) = hands => live[r].at = hands
    BY <1>2, <1>3 DEF LoadedAt
  <1> QED  BY <1>4, <1>5

LEMMA TruthfulPromote ==
    ASSUME Known, Typed, Observed, Truthful, Promote
    PROVE  Truthful'
  <1>1. TypeInv /\ TypeOK /\ Next /\ [Next]_vars /\ DeployedInv /\ Settled
    BY DEF Known, TypeInv, ChainInv, Promote
  <1>2. ASSUME NEW i \in Accepted, Loaded(i)'
        PROVE  recorded'[i] = Names[log'[i].tree]
    <2>1. log'[i] = log[i] /\ recorded'[i] = recorded[i]
      BY <1>1, Grows
    <2>2. Loaded(i)
      <3>1. ASSUME NEW s \in Runs, s = log[i].run
            PROVE  LoadedAt(s) = live[s].at
        <4>1. pc[s] \in Ended
          BY <1>1, <3>1 DEF Settled
        <4>2. staged'[s] = staged[s] /\ live'[s] = live[s] /\ prior'[s] = prior[s]
          BY <1>1, <4>1, EndedStays
        <4>3. LoadedAt(s)' = live'[s].at
          BY <1>2, <2>1, <3>1 DEF Loaded
        <4> QED  BY <4>2, <4>3 DEF LoadedAt
      <3> QED  BY <3>1 DEF Loaded
    <2> QED  BY <2>1, <2>2 DEF Truthful
  <1>3. ASSUME NEW r \in Runs, Files(r, "accepted"), NEW i \in Nat, log'[i].run = r,
               log'[i].tree = Tree(r), recorded'[i] = seen[r], Loaded(i)'
        PROVE  recorded'[i] = Names[log'[i].tree]
    <2>1. pc[r] = "accept" /\ UNCHANGED <<staged, live, prior>>
      BY <1>1, <1>3, AcceptedStep DEF Accept
    <2>2. live[r] # None /\ live[r].tree = Tree(r)
      BY <2>1 DEF Known, TypeInv, Held, Fits, DeployedInv, Deployed
    <2>4. LoadedAt(r) = live[r].at
      <3>1. LoadedAt(r)' = live'[r].at
        BY <1>3 DEF Loaded
      <3> QED  BY <2>1, <3>1 DEF LoadedAt
    <2>5. seen[r] = RulesDigest(live[r].tree, TRUE)
      BY <1>1, <2>1, <2>4, SureWhenLoaded DEF Observed
    <2>3. Tree(r) \in Digests /\ Tree(r) # HandEdited /\ Tree(r) # None
      BY <1>1, TreeTyped, PromotionAssumption DEF Tree, TypeOK, Request
    <2> QED  BY <1>3, <2>2, <2>3, <2>5 DEF RulesDigest
  <1>4. ASSUME NEW i \in Accepted', i \notin Accepted, Loaded(i)'
        PROVE  recorded'[i] = Names[log'[i].tree]
    <2>1. PICK r \in Runs : /\ Files(r, "accepted") /\ i = Len(log) + 1
                            /\ log'[i].run = r /\ log'[i].tree = Tree(r)
                            /\ recorded'[i] = seen[r]
      BY <1>1, <1>4, AcceptedGrowsBy
    <2>2. i \in Nat
      BY <1>1, <2>1, Grows
    <2> QED  BY <1>3, <1>4, <2>1, <2>2
  <1> QED  BY <1>2, <1>4 DEF Truthful

\* Which runs pass their stage() in a step.
Staging == {r \in Runs : pc[r] = "stage" /\ pc'[r] # "stage"}

LEMMA ExecuteStages ==
    ASSUME TypeInv, OneHolder, NEW r \in Runs, Execute(r)
    PROVE  Staging = IF pc[r] = "stage" THEN {r} ELSE {}
  <1>1. ASSUME NEW s \in Runs, s # r
        PROVE  pc'[s] = pc[s]
    BY <1>1, ExecuteFrame DEF Same
  <1>2. pc[r] = "stage" => pc'[r] # "stage"
    BY ExecuteMoves DEF Beginning
  <1> QED  BY <1>1, <1>2 DEF Staging

\* A step of a run that did not stage yet leaves the host alone, apart from stage().
LEMMA EarlyStep ==
    ASSUME TypeInv, NEW r \in Runs, Execute(r), pc[r] \notin Live \cup {"stage"}
    PROVE  UNCHANGED host
  <1>1. Interrupted(r) = {host}
    BY DEF Interrupted, Live
  <1>2. CASE Reassert(r) \/ Preconditions(r) \/ Kill(r) \/ Fetch(r) \/ Check(r) \/ Rehearse(r)
    BY <1>1, <1>2 DEF Reassert, Preconditions, Kill, Fetch, Check, Rehearse, Raise
  <1>3. ~(Stage(r) \/ Reload(r) \/ Observe(r) \/ Judge(r) \/ Accept(r) \/ Rollback(r))
    BY DEF Live, Stage, Reload, Observe, Judge, Accept, Rollback
  <1> QED  BY <1>2, <1>3 DEF Execute

LEMMA MarkedPromote ==
    ASSUME Known, Marked, Promote
    PROVE  Marked'
  <1>1. TypeInv /\ TypeOK /\ OneHolder /\ [Next]_vars /\ Next /\ since' = Since
    BY DEF Known, TypeInv, DeployedInv, Promote
  <1>2. ASSUME NEW r \in Runs, r \in since', r \notin since
        PROVE  r \in Staging
    BY <1>1, <1>2, NamesAssumption DEF Since, Staging
  <1>3. ASSUME \A r \in Runs : ~ Execute(r)
        PROVE  Marked'
    <2>1. /\ \A r \in Runs : \/ pc'[r] = pc[r]
                             \/ pc[r] \in Beginning \ {"stage"} /\ pc'[r] \in Beginning
          /\ UNCHANGED outcome
      BY <1>1, <1>3, OutsideSteps
    <2>2. \A r \in Runs : ~ Files(r, "accepted") /\ ~ Files(r, "rolled-back")
      BY <2>1, NoneAssumption DEF Files, Outcomes
    <2>3. since \subseteq since'
      BY <1>1, <2>2 DEF Since
    <2>4. Staging = {}
      BY <2>1 DEF Staging
    <2>5. \A r \in Runs : r \in since' => r \in since
      BY <1>2, <2>4
    <2>6. \A p \in Live : p \notin Beginning
      BY DEF Live, Beginning
    <2> QED  BY <2>1, <2>3, <2>5, <2>6 DEF Marked
  <1>4. ASSUME NEW r \in Runs, Execute(r)
        PROVE  Marked'
    <2>1. ASSUME NEW s \in Runs, s \in since'
          PROVE  pc'[s] \notin Beginning
      <3>1. CASE s \in since
        <4>1. pc[s] \notin Beginning
          BY <3>1 DEF Marked
        <4>2. s = r => pc'[s] \notin Beginning
          BY <1>1, <1>4, <4>1, ExecuteMoves
        <4>3. s # r => pc'[s] = pc[s]
          BY <1>1, <1>4, ExecuteFrame DEF Same
        <4> QED  BY <4>1, <4>2, <4>3
      <3>2. CASE s \notin since
        <4>1. s = r /\ pc[r] = "stage"
          BY <1>1, <1>2, <1>4, <2>1, <3>2, ExecuteStages
        <4> QED  BY <1>1, <1>4, <4>1, ExecuteMoves
      <3> QED  BY <3>1, <3>2
    <2>2. ASSUME NEW s \in Runs, pc'[s] \in Live
          PROVE  s \in since'
      <3>1. s = r
        <4>1. pc[r] \in Holding /\ (s # r => pc'[s] = pc[s])
          BY <1>1, <1>4, ExecuteHolds, ExecuteFrame DEF Same, Holding
        <4> QED  BY <1>1, <2>2, <4>1 DEF OneHolder, Holding, Executing, Live
      <3>2. s \in since \/ s \in Staging
        <4>1. pc[r] \in Live \/ pc[r] = "stage"
          BY <1>1, <1>4, <2>2, <3>1, ExecuteMoves DEF Stage
        <4> QED  BY <1>1, <1>4, <3>1, <4>1, ExecuteStages DEF Marked
      <3>3. ASSUME NEW q \in Runs, NEW result \in Outcomes, Files(q, result)
            PROVE  q # s
        <4>1. outcome'[q] = result /\ result # None
          BY <3>3, NoneAssumption DEF Files
        <4>2. Fits(pc'[q], reached'[q], staged'[q], live'[q], outcome'[q])
          <5>1. TypeInv'
            BY <1>1, TypeNext
          <5> QED  BY <5>1 DEF TypeInv, Held
        <4>3. pc'[q] \in Ended
          BY <4>1, <4>2 DEF Fits
        <4> QED  BY <2>2, <4>3 DEF Ended, Live
      <3>4. \A q \in Runs : Files(q, "accepted") => q = r
        <4>1. ASSUME NEW q \in Runs, q # r
              PROVE  outcome'[q] = outcome[q]
          BY <1>1, <1>4, <4>1, ExecuteFrame DEF Same
        <4> QED  BY <4>1, NoneAssumption DEF Files, Outcomes
      <3>5. \A q \in Runs : ~ Files(q, "accepted")
        BY <3>1, <3>3, <3>4 DEF Outcomes
      <3>6. ~ Files(s, "rolled-back")
        BY <3>3 DEF Outcomes
      <3> QED  BY <1>1, <3>2, <3>5, <3>6 DEF Since, Staging
    <2> QED  BY <2>1, <2>2 DEF Marked
  <1> QED  BY <1>3, <1>4

LEMMA PointedPromote ==
    ASSUME Known, Known', Pointed, Promote
    PROVE  Pointed'
  <1>1. TypeInv /\ TypeInv' /\ TypeOK /\ OneHolder /\ [Next]_vars /\ Next /\ DeployedInv'
    BY DEF Known, TypeInv, DeployedInv, Promote
  <1> SUFFICES ASSUME NEW r \in Runs, pc'[r] \in {"judge", "accept"}, live'[r].at = hands'
               PROVE  live'[r].current = host'.pointer
    BY DEF Pointed
  <1>2. live'[r] # None
    BY <1>1 DEF TypeInv, Held, Fits
  <1>3. CASE live'[r] # live[r]
    BY <1>1, <1>2, <1>3, ReadBacks
  <1>4. CASE live'[r] = live[r]
    <2>1. ASSUME \A s \in Runs : ~ Execute(s)
          PROVE  live[r].current = host'.pointer
      <3>1. pc[r] = pc'[r] /\ (UNCHANGED <<host, hands>> \/ hands' = hands + 1)
        BY <1>1, <2>1, OutsideSteps DEF Beginning
      <3>2. live[r].at <= hands /\ live[r].at \in Nat /\ hands \in Nat
        BY <1>1, <1>2, <1>4, <3>1, PromotionAssumption
           DEF Known, DeployedInv, Deployed, TypeOK, LiveState
      <3>3. UNCHANGED <<host, hands>>
        BY <1>4, <3>1, <3>2
      <3> QED  BY <1>4, <3>1, <3>3 DEF Pointed
    <2>2. ASSUME NEW s \in Runs, Execute(s)
          PROVE  live[r].current = host'.pointer
      <3>1. s = r /\ hands' = hands
        <4>1. pc[s] \in Holding /\ (s # r => pc'[r] = pc[r]) /\ hands' = hands
          BY <1>1, <2>2, ExecuteHolds, ExecuteFrame DEF Same, Holding
        <4> QED  BY <1>1, <4>1 DEF OneHolder, Holding, Executing
      <3>2. ~ Raise(r)
        BY <1>1, StopLeaves DEF Raise
      <3>3. CASE Judge(r) \/ Accept(r)
        <4>1. UNCHANGED host /\ pc[r] \in {"judge", "accept"}
          BY <3>2, <3>3 DEF Judge, Accept
        <4> QED  BY <1>4, <3>1, <4>1 DEF Pointed
      <3>4. CASE Observe(r)
        <4>1. pc[r] = "observe" /\ \E sound \in BOOLEAN, record \in Exercises(r) :
                live' = [live EXCEPT ![r] = ReadBack(host', sound, record)]
          BY <3>2, <3>4 DEF Observe
        <4> QED  BY <1>1, <1>4, <4>1 DEF ReadBack, TypeOK
      <3>5. CASE Reassert(r) \/ Preconditions(r) \/ Fetch(r) \/ Check(r) \/ Rehearse(r)
                 \/ Reload(r) \/ Stage(r) \/ Rollback(r) \/ Kill(r)
        <4>1. pc'[r] \notin {"judge", "accept"}
          BY <1>1, <3>2, <3>5, StopLeaves, ReachMoves
             DEF Reassert, Preconditions, Fetch, Check, Rehearse, Reload, Stage, Rollback, Kill,
                 Finish, TypeOK
        <4> QED  BY <4>1
      <3> QED  BY <2>2, <3>1, <3>3, <3>4, <3>5 DEF Execute
    <2> QED  BY <1>4, <2>1, <2>2
  <1> QED  BY <1>3, <1>4

\* With no acceptance in the step, the receipt to compare with is the same one.
LEMMA SameReceipt ==
    ASSUME Known, Typed, Promote, Accepted' = Accepted, Accepted # {}
    PROVE  /\ LastReceipt' = LastReceipt
           /\ log'[LastReceipt] = log[LastReceipt]
           /\ recorded'[LastReceipt] = recorded[LastReceipt]
  <1>1. TypeInv /\ TypeOK
    BY DEF Known, TypeInv
  <1>2. LastReceipt \in 1..Len(log)
    BY <1>1, LastIsAccepted
  <1>3. LastReceipt' = LastReceipt
    BY DEF LastReceipt
  <1> QED  BY <1>1, <1>2, <1>3, Grows

\* An accepted promotion leaves the host as its receipt says, unless somebody
\* changed it by hand since the evaluators were last surely reloaded.
LEMMA UntouchedAccept ==
    ASSUME Known, Known', Typed, Observed, Marked, Pointed, Promote,
           NEW r \in Runs, Files(r, "accepted"), Execute(r),
           Accepted' = Accepted \cup {Len(log) + 1},
           log'[Len(log) + 1].current = live[r].current,
           recorded'[Len(log) + 1] = seen[r],
           \A q \in Runs : Files(q, "accepted") => q = r
    PROVE  Untouched'
  <1>1. /\ TypeInv /\ TypeOK /\ TypeOK' /\ [Next]_vars /\ since' = Since
        /\ Len(log) \in Nat /\ Accepted \subseteq 1..Len(log)
    BY Grows DEF Known, TypeInv, Promote
  <1>2. LastReceipt' = Len(log) + 1
    <2>1. /\ Len(log) + 1 \in Accepted' /\ \A j \in Accepted' : j <= Len(log) + 1
          /\ \A i \in Accepted' : i \in Int
      BY <1>1
    <2>2. ASSUME NEW i \in Accepted', \A j \in Accepted' : j <= i
          PROVE  i = Len(log) + 1
      <3>1. Len(log) + 1 <= i /\ i <= Len(log) + 1 /\ i \in Int
        BY <2>1, <2>2
      <3> QED  BY <1>1, <3>1
    <2>3. (CHOOSE i \in Accepted' : \A j \in Accepted' : j <= i) = Len(log) + 1
      BY <2>1, <2>2
    <2> QED  BY <2>1, <2>3 DEF LastReceipt
  <1>3. CASE LoadedAt(r) # hands
    <2>1. since' = {"hand"}
      BY <1>1, <1>3 DEF Since
    <2> QED  BY <2>1, NamesAssumption DEF Untouched
  <1>4. CASE LoadedAt(r) = hands
    <2>1. since' = {}
      BY <1>1, <1>4 DEF Since
    <2>2. pc[r] = "accept" /\ UNCHANGED host
      BY <1>1, AcceptedStep DEF Accept
    <2>4. live[r].at = hands /\ Surely(r)
      BY <1>4, <2>2, SureWhenLoaded DEF Known
    <2>3. /\ live[r] # None /\ live[r].tree = Tree(r)
          /\ live[r].tree = TreeAt(host.store, host.pointer) /\ Fresh
          /\ live[r].current = host.pointer
      BY <2>2, <2>4 DEF Known, TypeInv, Held, Fits, DeployedInv, Deployed, Pointed
    <2>5. host.loaded = Tree(r) /\ seen[r] = RulesDigest(Tree(r), TRUE)
      BY <2>2, <2>3, <2>4 DEF Fresh, Observed
    <2>6. /\ Recorded(LastReceipt, host.pointer)'
          /\ RulesDigest(host.loaded, TRUE)' = recorded'[LastReceipt']
      BY <1>2, <2>2, <2>3, <2>5 DEF Recorded, RulesDigest
    <2> QED  BY <2>1, <2>6 DEF Untouched
  <1> QED  BY <1>3, <1>4

\* A step of the run that is at work, when it accepts nothing.
LEMMA UntouchedExecute ==
    ASSUME Known, Known', Typed, Marked, Marked', Untouched, Promote,
           NEW r \in Runs, Execute(r), Accepted' = Accepted, Accepted # {},
           \A q \in Runs : ~ Files(q, "accepted")
    PROVE  Untouched'
  <1>1. /\ TypeInv /\ TypeOK /\ TypeInv' /\ OneHolder /\ Captured /\ Unstaged
        /\ [Next]_vars /\ since' = Since /\ UNCHANGED hands /\ pc[r] \in Executing
    BY ExecuteHolds DEF Known, TypeInv, ChainInv, Promote
  <1> DEFINE L == LastReceipt
             settled == {q \in Runs : Files(q, "rolled-back") /\ log'[Len(log')].restored = TRUE}
  <1>2. /\ LastReceipt' = L /\ log'[L] = log[L] /\ recorded'[L] = recorded[L]
    BY SameReceipt
  <1>3. since' = (since \cup Staging) \ settled
    BY <1>1 DEF Since, Staging
  <1>4. ASSUME NEW s \in Runs, pc'[s] \in Live
        PROVE  s = r
    BY <1>1, <1>4, ExecuteFrame DEF Same, OneHolder, Holding, Live, Executing
  <1>5. ASSUME NEW q \in settled
        PROVE  q = r /\ pc[r] = "rollback" /\ pc'[r] \in Ended
    <2>1. outcome[q] = None /\ outcome'[q] = "rolled-back" /\ "rolled-back" # None
      BY NoneAssumption DEF Files, Outcomes
    <2>2. q = r
      BY <1>1, <2>1, ExecuteFrame DEF Same
    <2>3. \A result : Entered(r, result) => outcome'[r] = result
      BY <1>1 DEF Entered, TypeOK
    <2>4. Rollback(r)
      BY <1>1, <2>1, <2>2, <2>3, ExecuteEnters DEF TypeOK
    <2>5. pc'[r] \in Ended
      BY <1>1, <2>1, <2>2 DEF TypeInv, Held, Fits
    <2> QED  BY <2>2, <2>4, <2>5 DEF Rollback
  <1> HIDE DEF settled
  <1>6. CASE settled # {}
    <2>1. PICK q \in settled : TRUE
      BY <1>6
    <2>2. /\ r \in settled /\ pc[r] = "rollback" /\ pc'[r] \in Ended
          /\ settled = {r}
      BY <1>5, <2>1
    <2>3. Files(r, "rolled-back") /\ log'[Len(log')].restored = TRUE
      BY <2>2 DEF settled
    <2>4. /\ host'.pointer = prior[r].pointer
          /\ host'.loaded = TreeAt(host'.store, host'.pointer)
      BY <1>1, <2>3, ProvedRollbackStep
    <2>5. prior[r].pointer = staged[r].previous /\ host'.store = host.store /\ pc[r] \in Live
      BY <1>1, <2>2, ExecuteHost DEF Captured, Live
    <2>6. r \in since /\ Staging = {}
      BY <1>1, <2>2, <2>5, ExecuteStages DEF Marked
    <2>7. \A s \in Runs : pc'[s] \notin Live
      BY <1>4, <2>2 DEF Live, Ended
    <2>8. ASSUME since' = {}
          PROVE  /\ Recorded(L, host.pointer)'
                 /\ RulesDigest(host.loaded, TRUE)' = recorded'[L]
      <3>1. since = {r}
        BY <1>3, <2>2, <2>6, <2>8
      <3>2. Recorded(L, staged[r].previous)
        BY <2>5, <3>1 DEF Untouched
      <3> QED  BY <1>2, <2>4, <2>5, <3>2 DEF Recorded, RulesDigest
    <2> QED  BY <1>2, <2>7, <2>8 DEF Untouched
  <1>7. CASE settled = {} /\ pc[r] = "stage"
    <2>1. since' = since \cup {r}
      BY <1>1, <1>3, <1>7, ExecuteStages
    <2>2. ASSUME pc'[r] \in Live, since' = {r}
          PROVE  Recorded(L, staged[r].previous)'
      <3>1. r \notin since
        BY <1>7 DEF Marked, Beginning
      <3>2. since = {}
        BY <2>1, <2>2, <3>1
      <3>3. Recorded(L, host.pointer)
        BY <3>2 DEF Untouched
      <3>4. staged'[r] = [current |-> r, previous |-> host.pointer]
        <4>1. staged[r] = None /\ staged'[r] # None
          BY <1>1, <1>7, <2>2 DEF TypeInv, Held, Fits, Beginning
        <4> QED  BY <1>1, <4>1, ExecuteMoves
      <3>5. host.pointer # r
        BY <1>1, <1>7 DEF Unstaged, Beginning
      <3>6. TreeAt(host'.store, host.pointer) = TreeAt(host.store, host.pointer)
        <4>1. \/ host'.store = host.store
              \/ host'.store = [host.store EXCEPT ![r] = Tree(r)]
          BY <1>1, ExecuteHost
        <4>2. host.store \in [Dirs -> Digests \cup {None}] /\ host.pointer \in Dirs \cup {None}
          BY <1>1 DEF TypeOK, Host
        <4> QED  BY <3>5, <4>1, <4>2 DEF TreeAt
      <3> QED  BY <1>2, <3>3, <3>4, <3>6 DEF Recorded, RulesDigest
    <2> QED  BY <1>2, <1>4, <2>1, <2>2 DEF Untouched
  <1>8. CASE settled = {} /\ pc[r] # "stage"
    <2>1. since' = since
      BY <1>1, <1>3, <1>8, ExecuteStages
    <2>2. ASSUME since = {}
          PROVE  UNCHANGED host
      BY <1>1, <1>8, <2>2, EarlyStep DEF Marked
    <2>3. ASSUME since' = {}
          PROVE  /\ Recorded(L, host.pointer)'
                 /\ RulesDigest(host.loaded, TRUE)' = recorded'[L]
      BY <1>2, <2>1, <2>2, <2>3 DEF Untouched, Recorded, RulesDigest
    <2>4. ASSUME pc'[r] \in Live, since' = {r}
          PROVE  Recorded(L, staged[r].previous)'
      <3>1. pc[r] \in Live
        BY <1>1, <1>8, <2>4, ExecuteMoves DEF Stage
      <3>2. staged'[r] = staged[r]
        BY <1>1, <1>8, <2>4, ExecuteMoves DEF TypeInv, Held, Fits
      <3>3. host'.store = host.store
        BY <1>1, <1>8, ExecuteHost
      <3>4. Recorded(L, staged[r].previous)
        BY <2>1, <2>4, <3>1 DEF Untouched
      <3> QED  BY <1>2, <3>2, <3>3, <3>4 DEF Recorded, RulesDigest
    <2> QED  BY <1>2, <1>4, <2>3, <2>4 DEF Untouched
  <1> QED  BY <1>6, <1>7, <1>8

\* A merge, a step of the workflow, a change by hand.
LEMMA UntouchedOutside ==
    ASSUME Known, Typed, Marked, Untouched, Promote, \A r \in Runs : ~ Execute(r)
    PROVE  Untouched'
  <1>1. /\ TypeInv /\ Next /\ since' = Since
        /\ TypeOK /\ hands \in Nat
    BY PromotionAssumption DEF Known, TypeInv, TypeOK, Promote
  <1>2. /\ UNCHANGED <<staged, live, outcome, log>>
        /\ \A r \in Runs : \/ pc'[r] = pc[r]
                           \/ pc[r] \in Beginning \ {"stage"} /\ pc'[r] \in Beginning
        /\ \/ UNCHANGED <<host, hands>>
           \/ hands' = hands + 1
    BY <1>1, OutsideSteps
  <1>3. \A r \in Runs : ~ Files(r, "accepted") /\ ~ Files(r, "rolled-back")
    BY <1>2, NoneAssumption DEF Files, Outcomes
  <1>4. CASE hands' = hands + 1
    <2>1. "hand" \in since'
      BY <1>1, <1>3, <1>4 DEF Since
    <2> QED  BY <2>1, NamesAssumption DEF Untouched
  <1>5. CASE UNCHANGED <<host, hands>>
    <2>1. since' = since
      BY <1>1, <1>2, <1>3, <1>5 DEF Since
    <2>2. Accepted' = Accepted
      BY <1>2 DEF Accepted
    <2>3. \A r \in Runs : pc'[r] \in Live => pc[r] \in Live
      BY <1>2 DEF Live, Beginning
    <2>4. CASE Accepted # {}
      <3>1. LastReceipt' = LastReceipt /\ recorded'[LastReceipt] = recorded[LastReceipt]
        BY <2>2, <2>4, SameReceipt
      <3>2. \A p : Recorded(LastReceipt, p) =>
                /\ p = log'[LastReceipt'].current
                /\ RulesDigest(TreeAt(host'.store, p), TRUE) = recorded'[LastReceipt']
        BY <1>2, <1>5, <3>1 DEF Recorded
      <3> QED  BY <1>2, <1>5, <2>1, <2>3, <2>4, <3>1, <3>2 DEF Untouched, Recorded, RulesDigest
    <2> QED  BY <2>2, <2>4 DEF Untouched
  <1> QED  BY <1>2, <1>4, <1>5

LEMMA UntouchedPromote ==
    ASSUME Known, Known', Typed, Observed, Marked, Marked', Pointed, Untouched, Promote
    PROVE  Untouched'
  <1>1. TypeInv
    BY DEF Known
  <1>2. CASE \A r \in Runs : ~ Execute(r)
    BY <1>2, UntouchedOutside
  <1>3. ASSUME NEW r \in Runs, Execute(r), Accepted' = Accepted,
               \A q \in Runs : ~ Files(q, "accepted")
        PROVE  Untouched'
    <2>1. CASE Accepted = {}
      BY <1>3, <2>1 DEF Untouched
    <2> QED  BY <1>3, <2>1, UntouchedExecute
  <1> QED  BY <1>1, <1>2, <1>3, AcceptedGrowsBy, UntouchedAccept

-----------------------------------------------------------------------------
(* The operator's artifacts. *)

\* What was compared does not change with what is filed afterwards.
LEMMA ComparedOnce ==
    ASSUME NEW tree, NEW observation, NEW document,
           document # None => log'[document] = log[document] /\ recorded'[document] = recorded[document]
    PROVE  Compared(tree, observation, document)' = Compared(tree, observation, document)
  <1>1. LiveVsReceipt(observation, document)' = LiveVsReceipt(observation, document)
    BY DEF LiveVsReceipt
  <1>2. ReceiptVsDesired(tree, document)' = ReceiptVsDesired(tree, document)
    BY DEF ReceiptVsDesired
  <1>3. /\ Incomparable(tree, observation, document)' = Incomparable(tree, observation, document)
        /\ DesiredVsLive(tree, observation)' = DesiredVsLive(tree, observation)
    BY DEF Incomparable, DesiredVsLive
  <1> QED  BY <1>1, <1>2, <1>3 DEF Compared

LEMMA FetchedPromote ==
    ASSUME TypeInv, Typed, Fetched, Promote
    PROVE  Fetched'
  <1>1. /\ Len(log) \in Nat /\ Len(log') \in Nat /\ Len(log) <= Len(log')
        /\ \A i \in 1..Len(log) : log'[i] = log[i] /\ recorded'[i] = recorded[i]
    BY Grows
  <1>2. UNCHANGED <<desired, reading, receipt, report>>
    BY DEF Promote, artifacts
  <1>3. 1..Len(log) \subseteq 1..Len(log')
    BY <1>1
  <1>4. Compared(desired, reading, receipt)' = Compared(desired, reading, receipt)
    BY <1>1, <1>2, ComparedOnce DEF Fetched, Compared
  <1> QED  BY <1>1, <1>2, <1>3, <1>4 DEF Fetched

\* A step of the operator: what is fetched is what there is at that moment.
LEMMA FetchedAlone ==
    ASSUME Known, Typed, Untouched, Fetched, UNCHANGED <<vars, seen, recorded, since>>,
           \/ CheckOut
           \/ \E up \in BOOLEAN : Look(up)
           \/ \E i \in 1..Len(log) : PickUp(i)
           \/ Compare
           \/ UNCHANGED artifacts
    PROVE  Fetched'
  <1>1. /\ TypeOK /\ UNCHANGED <<log, recorded>>
    BY DEF Known, TypeInv, vars
  <1>2. \A tree, observation, document :
            Compared(tree, observation, document)' = Compared(tree, observation, document)
    BY <1>1, ComparedOnce
  <1>3. CASE CheckOut
    <2>1. desired' \in Digests /\ UNCHANGED <<reading, receipt, report>> /\ report = None
      BY <1>1, <1>3, PromotionAssumption DEF CheckOut, TypeOK
    <2> QED  BY <1>1, <2>1 DEF Fetched
  <1>4. ASSUME NEW up \in BOOLEAN, Look(up)
        PROVE  Fetched'
    <2>1. /\ reading'.tree = TreeAt(host.store, host.pointer) /\ reading'.current = host.pointer
          /\ reading'.rules = RulesDigest(host.loaded, up)
          /\ reading'.after = since /\ reading'.last = LastReceipt
          /\ UNCHANGED <<desired, receipt, report>> /\ report = None
      BY <1>4 DEF Look
    <2>2. host.pointer \in Dirs \cup {None}
      BY <1>1 DEF TypeOK, Host
    <2>3. reading'.tree \in Digests \cup {None} /\ reading'.current \in Dirs \cup {None}
      BY <1>1, <2>1, <2>2, TreeAtTyped
    <2>4. ASSUME LastReceipt # None, since = {}
          PROVE  /\ LastReceipt \in 1..Len(log)
                 /\ host.pointer = log[LastReceipt].current
                 /\ RulesDigest(host.loaded, up) = recorded[LastReceipt]
      <3>1. Accepted # {}
        BY <2>4 DEF LastReceipt
      <3>2. LastReceipt \in 1..Len(log)
        BY <1>1, <3>1, LastIsAccepted
      <3>3. /\ Recorded(LastReceipt, host.pointer)
            /\ RulesDigest(host.loaded, TRUE) = recorded[LastReceipt]
        BY <2>4, <3>1 DEF Untouched
      <3> QED  BY <3>2, <3>3 DEF Recorded, RulesDigest
    <2>5. /\ reading'.last # None /\ reading'.after = {} =>
                /\ reading'.last \in 1..Len(log)
                /\ reading'.current = log[reading'.last].current
                /\ reading'.rules = recorded[reading'.last]
      BY <2>1, <2>4
    <2> QED  BY <1>1, <2>1, <2>3, <2>5 DEF Fetched
  <1>5. ASSUME NEW i \in 1..Len(log), PickUp(i)
        PROVE  Fetched'
    <2>1. receipt' = i /\ UNCHANGED <<desired, reading, report>> /\ report = None
      BY <1>5 DEF PickUp
    <2> QED  BY <1>1, <2>1 DEF Fetched
  <1>6. CASE Compare
    <2>1. UNCHANGED <<desired, reading, receipt>> /\ report' = Compared(desired, reading, receipt)
      BY <1>6 DEF Compare
    <2>2. report' = Compared(desired, reading, receipt)'
      BY <1>2, <2>1 DEF Compared
    <2> QED  BY <1>1, <2>1, <2>2 DEF Fetched
  <1>7. CASE UNCHANGED artifacts
    <2>1. UNCHANGED <<desired, reading, receipt, report>>
      BY <1>7 DEF artifacts
    <2>2. Compared(desired, reading, receipt)' = Compared(desired, reading, receipt)
      BY <1>1, <2>1, ComparedOnce
    <2> QED  BY <1>1, <2>1, <2>2 DEF Fetched
  <1> QED  BY <1>3, <1>4, <1>5, <1>6, <1>7

-----------------------------------------------------------------------------
LEMMA InitDrift == DriftInit => DriftInv
  <1> SUFFICES ASSUME DriftInit
               PROVE  DriftInv
    OBVIOUS
  <1>1. Init /\ TypeInv /\ TypeOK
    BY TypeInit DEF DriftInit, TypeInv
  <1>2. RulesDigest(host.loaded, TRUE) \in Rules
    BY <1>1, DigestTyped DEF TypeOK, Host
  <1>3. Typed
    <2>1. recorded = [i \in 1..Len(log) |-> RulesDigest(host.loaded, TRUE)] /\ Len(log) \in Nat
      BY <1>1, LenProperties DEF DriftInit, TypeOK
    <2>2. recorded \in [1..Len(log) -> Rules]
      BY <1>2, <2>1
    <2>3. recorded \in Seq(Rules)
      BY <2>1, <2>2, SeqDef
    <2>4. Len(recorded) = Len(log)
      BY <2>1, <2>3, LenProperties
    <2> QED  BY <2>3, <2>4 DEF DriftInit, Typed, Rules
  <1>4. \A r \in Runs : pc[r] = "undispatched" /\ live[r] = None
    BY <1>1 DEF Init
  <1>5. Observed /\ Marked /\ Pointed /\ Fetched
    BY <1>4 DEF DriftInit, Observed, Marked, Pointed, Fetched, Live
  <1>6. CASE Accepted = {}
    BY <1>3, <1>5, <1>6 DEF DriftInv, Truthful, Untouched
  <1>7. CASE Accepted # {}
    <2>1. /\ host = [pointer |-> Initial, loaded |-> Rendered[0],
                     store |-> [d \in Dirs |-> IF d = Initial THEN Rendered[0] ELSE None]]
          /\ log = <<[run |-> Initial, outcome |-> "accepted", rev |-> 0,
                      tree |-> Rendered[0], current |-> Initial, restored |-> TRUE]>>
      BY <1>1, <1>7 DEF Init, Accepted
    <2>2. Rendered[0] \in Digests /\ Rendered[0] # None /\ Initial \in Dirs /\ Initial # None
      BY PromotionAssumption DEF Revisions, Dirs
    <2>3. /\ host.loaded = Rendered[0] /\ host.pointer = Initial
          /\ TreeAt(host.store, host.pointer) = Rendered[0]
      BY <2>1, <2>2 DEF TreeAt
    <2>4. /\ Len(log) = 1 /\ log[1].tree = Rendered[0] /\ log[1].current = Initial
      BY <2>1
    <2>5. recorded[1] = Names[Rendered[0]]
      BY <2>2, <2>3, <2>4 DEF DriftInit, RulesDigest
    <2>6. Accepted \subseteq {1}
      BY <2>4 DEF Accepted
    <2>7. LastReceipt = 1
      BY <1>1, <1>7, <2>6, LastIsAccepted
    <2>8. Truthful
      BY <2>4, <2>5, <2>6 DEF Truthful
    <2>9. Untouched
      BY <1>4, <2>2, <2>3, <2>4, <2>5, <2>7 DEF Untouched, Recorded, RulesDigest, Live
    <2> QED  BY <1>3, <1>5, <2>8, <2>9 DEF DriftInv
  <1> QED  BY <1>6, <1>7

LEMMA DriftNextInv ==
    ASSUME Known, Known', DriftInv, [DriftNext]_driftVars
    PROVE  DriftInv'
  <1>1. /\ TypeInv /\ TypeInv' /\ Typed /\ Observed /\ Truthful /\ Marked /\ Pointed
        /\ Untouched /\ Fetched
    BY DEF Known, DriftInv
  <1>2. CASE Promote
    <2>1. Typed' /\ Observed' /\ Truthful'
      BY <1>1, <1>2, TypedPromote, ObservedPromote, TruthfulPromote
    <2>2. Marked' /\ Pointed'
      BY <1>1, <1>2, MarkedPromote, PointedPromote
    <2>3. Untouched' /\ Fetched'
      BY <1>1, <1>2, <2>2, UntouchedPromote, FetchedPromote
    <2> QED  BY <2>1, <2>2, <2>3 DEF DriftInv
  <1>3. ASSUME UNCHANGED <<vars, seen, recorded, since>>,
               \/ CheckOut
               \/ \E up \in BOOLEAN : Look(up)
               \/ \E i \in 1..Len(log) : PickUp(i)
               \/ Compare
               \/ UNCHANGED artifacts
        PROVE  DriftInv'
    <2>1. Fetched'
      BY <1>1, <1>3, FetchedAlone
    <2>2. UNCHANGED <<host, hands, pc, request, staged, live, log, prior>>
      BY <1>3 DEF vars
    <2>3. /\ UNCHANGED <<seen, recorded, since>>
          /\ Accepted' = Accepted /\ LastReceipt' = LastReceipt
      BY <1>3, <2>2 DEF Accepted, LastReceipt
    <2>4. Typed' /\ Marked'
      BY <1>1, <2>2, <2>3 DEF Typed, Marked
    <2>5. Observed'
      BY <1>1, <2>2, <2>3 DEF Observed, Surely, RulesDigest
    <2>6. Truthful' /\ Pointed'
      BY <1>1, <2>2, <2>3 DEF Truthful, Loaded, LoadedAt, Pointed
    <2>7. Untouched'
      BY <1>1, <2>2, <2>3 DEF Untouched, Recorded, RulesDigest, TreeAt
    <2> QED  BY <2>1, <2>4, <2>5, <2>6, <2>7 DEF DriftInv
  <1>4. CASE UNCHANGED driftVars
    BY <1>3, <1>4 DEF driftVars
  <1> QED  BY <1>2, <1>3, <1>4 DEF DriftNext, CheckOut, Look, PickUp, Compare

\* What the operator holds, what receipts record and what is left on the host, for
\* any number of runs, changes by hand and orders of fetching.
THEOREM DriftInvariance == DriftSpec => [](Known /\ DriftInv)
  <1>1. DriftSpec => []Known
    BY DriftImplementsPromotion, PromotionsAreKnown, PTL
  <1> QED  BY <1>1, InitDrift, DriftNextInv, PTL DEF DriftSpec

\* The tree, the reading and the receipt the operator fetched are what compare()
\* takes them for, and every filed receipt has its recorded rules.
THEOREM DriftTypes == DriftSpec => []DriftTypeOK
  <1>1. Known /\ DriftInv => DriftTypeOK
    <2> SUFFICES ASSUME Known, DriftInv
                 PROVE  DriftTypeOK
      OBVIOUS
    <2>1. \A tree, observation, document : Compared(tree, observation, document) \in Facts
      BY DEF Compared, Facts, Incomparable, DesiredVsLive, LiveVsReceipt, ReceiptVsDesired
    <2>2. report # None => report \in Facts
      BY <2>1 DEF DriftInv, Fetched
    <2> QED  BY <2>2 DEF DriftTypeOK, Known, TypeInv, DriftInv, Typed, Fetched
  <1> QED  BY <1>1, DriftInvariance, PTL

\* A clean comparison with an accepted receipt is about the host, although the tree,
\* the reading and the receipt may each be of another moment: an accepted receipt
\* records the rules of the very tree it names, because its run read that tree in
\* evaluators that had loaded it - or it recorded an edit they had loaded and that was
\* undone before the read-back.
THEOREM CleanIsDeployed == DriftSpec => []CleanMeansDeployed
  <1>1. DriftInv => CleanMeansDeployed
    <2> SUFFICES ASSUME DriftInv, report # None, Clean(report), receipt \in Accepted
                 PROVE  /\ reading.tree = desired
                        /\ Loaded(receipt) => reading.rules = Names[desired]
      BY DEF CleanMeansDeployed
    <2>1. report = Compared(desired, reading, receipt)
      BY DEF DriftInv, Fetched
    <2>2. /\ Incomparable(desired, reading, receipt) = {}
          /\ DesiredVsLive(desired, reading) = {}
          /\ LiveVsReceipt(reading, receipt) = {}
          /\ ReceiptVsDesired(desired, receipt) = {}
      BY <2>1 DEF Clean, Compared
    <2>3. desired # None /\ reading # None /\ receipt # None
      BY <2>2 DEF Incomparable
    <2>4. reading.tree = desired
      BY <2>2, <2>3 DEF DesiredVsLive
    <2>5. log[receipt].tree = desired
      BY <2>2, <2>3 DEF ReceiptVsDesired
    <2>6. reading.rules = recorded[receipt]
      BY <2>2, <2>3 DEF LiveVsReceipt
    <2> QED  BY <2>4, <2>5, <2>6 DEF DriftInv, Truthful
  <1> QED  BY <1>1, DriftInvariance, PTL

\* compare() blames a change outside promotion only when there may have been one: a
\* host that promotions alone left as the last accepted receipt says agrees with it.
THEOREM NoAlarmWithoutCause == DriftSpec => []NoFalseAlarm
  <1>1. DriftInv => NoFalseAlarm
    <2> SUFFICES ASSUME DriftInv, report # None, reading # None, receipt # None,
                        receipt = reading.last, reading.after = {}
                 PROVE  report.live_vs_receipt \subseteq {"up"}
      BY DEF NoFalseAlarm
    <2>1. report.live_vs_receipt = LiveVsReceipt(reading, receipt)
      BY DEF DriftInv, Fetched, Compared
    <2>2. reading.current = log[receipt].current /\ reading.rules = recorded[receipt]
      BY DEF DriftInv, Fetched
    <2> QED  BY <2>1, <2>2 DEF LiveVsReceipt
  <1> QED  BY <1>1, DriftInvariance, PTL
=============================================================================
