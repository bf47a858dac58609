----------------------------- MODULE Promotion -----------------------------
(***************************************************************************)
(* Promotions of the control plane to its one production host.             *)
(*                                                                         *)
(* A run is one dispatch of promote.yml: it waits for the workflow's       *)
(* concurrency group and for a reviewer, reasserts its revision against    *)
(* the tip of main, and then executes promote.promote(), which drives the  *)
(* promotion facility through FETCHED .. ACCEPTED and files a receipt.     *)
(* The facility (dotmac-deployment-foundation) is external: its calls are  *)
(* modelled from the contract promote.py and ADR-0010 state, and each call *)
(* may return, raise, or be cut off by the job's timeout, before or after  *)
(* it changed the host.                                                    *)
(*                                                                         *)
(* A release directory is named by the run that staged it.  A tree is its  *)
(* digest.  Conditions 2 to 5 of the verification are one fact of the      *)
(* read-back here (sound); conditions 1 and 6, which depend on what the    *)
(* promotion itself did to the host, are computed.                         *)
(***************************************************************************)
EXTENDS Integers, Sequences

CONSTANTS Runs,        \* the dispatches of promote.yml
          Initial,     \* the release directory an earlier promotion left
          None,        \* Python's None
          Digests,     \* tree digests
          HandEdited,  \* the digest of a tree somebody edited on the host
          Rendered,    \* [revision -> the digest of the tree it renders]
          MaxRev,      \* bound: the last revision merged to main
          MaxHands,    \* bound: changes made to the host by hand, and one edit more undone
          Defects      \* the precondition a dispatch may fail

Dirs == Runs \cup {Initial}
Revisions == 0..MaxRev

ASSUME PromotionAssumption ==
    /\ MaxRev \in Nat /\ MaxHands \in Nat
    /\ HandEdited \in Digests
    /\ Rendered \in [Revisions -> Digests]
    /\ \A v \in Revisions : Rendered[v] # HandEdited
    /\ Initial \notin Runs
    /\ None \notin Dirs /\ None \notin Digests /\ None \notin BOOLEAN
    /\ "complete" \notin Defects

VARIABLES
    tip,       \* the tip of protected main
    host,      \* [pointer, loaded, store]: active release, what the evaluators run, bytes
    hands,     \* how many changes were made by hand
    pc,        \* where each run is
    request,   \* [defect, rev, first]: what the dispatch asked for
    reached,   \* promote(): the states reached so far
    staged,    \* promote(): StagedRelease, or None
    live,      \* promote(): the read-back, or None
    previous,  \* promote(): previous_digest
    outcome,   \* PromotionOutcome.outcome, or None while there is none
    trouble,   \* the ROLLBACK-* finding of the outcome, or None
    log,       \* the receipts filed, oldest first
    prior      \* history: [pointer, tree, at] as the run's stage() call found the host

vars == <<tip, host, hands, pc, request, reached, staged, live, previous,
          outcome, trouble, log, prior>>
session == <<request, previous>>

-----------------------------------------------------------------------------
(* Data. *)

STATES == <<"FETCHED", "VALIDATED", "REHEARSED", "STAGED", "RELOADED",
            "VERIFIED", "ACCEPTED">>

\* Mutant: the rollback window opens one state late.
RollbackFromReloaded == 4

\* _ROLLBACK_FROM is the zero-based index of STAGED.
RollbackFrom == 3

Outcomes == {"accepted", "rolled-back", "failed"}
Troubles == {"ROLLBACK-IMPOSSIBLE", "ROLLBACK-RAISED", "ROLLBACK-UNOBSERVED"}

Request == [defect : Defects \cup {"complete"}, rev : Revisions, first : BOOLEAN]
StagedRelease == [current : Dirs, previous : Dirs \cup {None}]
Host == [pointer : Dirs \cup {None}, loaded : Digests \cup {None},
         store : [Dirs -> Digests \cup {None}]]
Prior == [pointer : Dirs \cup {None}, tree : Digests \cup {None}, at : 0..(MaxHands + 1)]
RollbackRecord == [exercised : BOOLEAN, restored : Dirs \cup {None},
                   digest : Digests \cup {None}, succeeded : BOOLEAN]
LiveState == [tree : Digests \cup {None}, current : Dirs \cup {None}, sound : BOOLEAN,
              rollback : RollbackRecord \cup {None}, at : Nat]
Receipt == [run : Dirs, outcome : Outcomes,
            rev : Revisions, tree : Digests, current : Dirs \cup {None},
            restored : BOOLEAN \cup {None}]

\* None is no other value.
ASSUME NoneAssumption ==
    /\ None \notin StagedRelease \cup RollbackRecord \cup LiveState
    /\ None \notin Outcomes \cup Troubles

Queueing == {"queued"}
Reviewing == {"waiting"}
Executing == {"asserting", "preconditions", "fetch", "check", "rehearse", "stage",
              "reload", "observe", "judge", "accept", "rollback"}
Holding == Reviewing \cup Executing
Ended == {"superseded", "rejected", "refused", "finished", "killed"}

Tree(r) == Rendered[request[r].rev]

\* The tree release directory d was written with.
Original(d) == IF d = Initial THEN Rendered[0] ELSE Tree(d)

\* The tree the evaluators' mounts resolve to while the pointer is p.
TreeAt(store, p) == IF p = None THEN None ELSE store[p]

Accepted == {i \in 1..Len(log) : log[i].outcome = "accepted"}

\* The digest the last accepted receipt recorded: what a caller has to offer
\* as previous_digest.
LastAccepted ==
    IF Accepted = {} THEN None
    ELSE log[CHOOSE i \in Accepted : \A j \in Accepted : j <= i].tree

-----------------------------------------------------------------------------
(* promote.yml: dispatch, the concurrency group, review, the tip. *)

Init ==
    /\ tip = 0
    /\ hands = 0
    /\ \/ \* A host that has never held a release.
          /\ host = [pointer |-> None, loaded |-> None,
                     store |-> [d \in Dirs |-> None]]
          /\ log = <<>>
       \/ \* A host an accepted promotion left running.
          /\ host = [pointer |-> Initial, loaded |-> Rendered[0],
                     store |-> [d \in Dirs |-> IF d = Initial THEN Rendered[0] ELSE None]]
          /\ log = <<[run |-> Initial, outcome |-> "accepted", rev |-> 0,
                      tree |-> Rendered[0], current |-> Initial,
                      restored |-> TRUE]>>
    /\ pc = [r \in Runs |-> "undispatched"]
    /\ request = [r \in Runs |-> [defect |-> "complete", rev |-> 0, first |-> FALSE]]
    /\ reached = [r \in Runs |-> <<>>]
    /\ staged = [r \in Runs |-> None]
    /\ live = [r \in Runs |-> None]
    /\ previous = [r \in Runs |-> None]
    /\ outcome = [r \in Runs |-> None]
    /\ trouble = [r \in Runs |-> None]
    /\ prior = [r \in Runs |-> [pointer |-> None, tree |-> None, at |-> 0]]

\* A pull request is merged to protected main.
Merge ==
    /\ tip < MaxRev
    /\ tip' = tip + 1
    /\ UNCHANGED <<host, hands, pc, request, reached, staged, live, previous,
                   outcome, trouble, log, prior>>

\* A run enters the group's queue.  Its SHA is the tip, or an older one when it
\* is a re-run of an earlier dispatch.  GitHub keeps one pending run per group:
\* a newer one supersedes the one already pending.
Dispatch(r) ==
    /\ pc[r] = "undispatched"
    /\ \E q \in Request :
        /\ q.rev <= tip
        /\ request' = [request EXCEPT ![r] = q]
    /\ pc' = [s \in Runs |-> IF s = r THEN "queued"
                             ELSE IF pc[s] \in Queueing THEN "superseded" ELSE pc[s]]
    /\ UNCHANGED <<tip, host, hands, reached, staged, live, previous, outcome,
                   trouble, log, prior>>

\* The group is free: the pending run takes it and waits for its reviewer.
Admit(r) ==
    /\ pc[r] = "queued"
    /\ \A s \in Runs : pc[s] \notin Holding
    /\ pc' = [pc EXCEPT ![r] = "waiting"]
    /\ UNCHANGED <<tip, host, hands, reached, staged, live, outcome, trouble, log,
                   prior, session>>

\* The pre-dispatch gate finds the runner, and the environment's required reviewer
\* approves the job; or either of them turns it away.
Review(r) ==
    /\ pc[r] = "waiting"
    /\ \E verdict \in {"asserting", "rejected"} : pc' = [pc EXCEPT ![r] = verdict]
    /\ UNCHANGED <<tip, host, hands, reached, staged, live, outcome, trouble, log,
                   prior, session>>

\* Mutant: the tip was compared once, when the run was dispatched.
ReassertNothing(r) ==
    /\ pc[r] = "asserting"
    /\ pc' = [pc EXCEPT ![r] = "preconditions"]
    /\ UNCHANGED <<tip, host, hands, reached, staged, live, outcome, trouble, log,
                   prior, session>>

\* The job compares its SHA with the tip of main at this moment.
Reassert(r) ==
    /\ pc[r] = "asserting"
    /\ pc' = [pc EXCEPT ![r] = IF request[r].rev = tip THEN "preconditions" ELSE "refused"]
    /\ UNCHANGED <<tip, host, hands, reached, staged, live, outcome, trouble, log,
                   prior, session>>

-----------------------------------------------------------------------------
(* The facility (external): what its calls do to the host.                 *)

\* Mutant: roll back to the release the last accepted receipt names.
RollbackToLastAccepted(r) ==
    IF Accepted = {} THEN staged[r].previous
    ELSE log[CHOOSE i \in Accepted : \A j \in Accepted : j <= i].current

\* The only release promote() ever rolls back to.
RollbackTarget(r) == staged[r].previous

\* The host as a call of stage() finds it.
Found == [pointer |-> host.pointer, tree |-> TreeAt(host.store, host.pointer), at |-> hands]

\* stage() writes the whole tree to a new directory, then swaps the pointer.
Written(r) == [host EXCEPT !.store[r] = Tree(r)]
Activated(r) == [Written(r) EXCEPT !.pointer = r]

\* The evaluators take whatever their mounts resolve to.
Reloaded == [host EXCEPT !.loaded = TreeAt(host.store, host.pointer)]

\* The pointer is put back to directory d and the evaluators reloaded.
Restored(d) == [host EXCEPT !.pointer = d, !.loaded = TreeAt(host.store, d)]

\* The hosts a call of run r that did not return may have left behind.
Interrupted(r) ==
    {host} \cup
    CASE pc[r] = "stage" -> {Written(r), Activated(r)}
      [] pc[r] = "reload" -> {Reloaded}
      [] pc[r] = "observe" -> IF staged[r].previous = None THEN {}
                              ELSE {Restored(staged[r].previous)}
      [] pc[r] = "rollback" -> {Restored(RollbackTarget(r)),
                                [host EXCEPT !.pointer = RollbackTarget(r)]}
      [] OTHER -> {}

\* The rollback records an observe() of run r may carry: no rollback was
\* exercised, one was and failed, one was and the bytes read back have an order
\* to digest them in, or have not.
Exercises(r) ==
    LET before == staged[r].previous
    IN  {None, [exercised |-> TRUE, restored |-> None, digest |-> None, succeeded |-> FALSE]}
        \cup [exercised : {TRUE}, restored : {before},
              digest : {None, TreeAt(host.store, before)}, succeeded : {TRUE}]

\* An honest read-back of host h.
ReadBack(h, sound, rollback) ==
    [tree |-> TreeAt(h.store, h.pointer), current |-> h.pointer, sound |-> sound,
     rollback |-> rollback, at |-> hands]

-----------------------------------------------------------------------------
(* live_verify.verify(): the conditions of run r's read-back that are unmet. *)

\* Mutant: a rollback that succeeded is proof enough.
RollbackUnmetWithoutDigest(r) ==
    LET record == live[r].rollback
    IN  record = None \/ ~record.exercised \/ ~record.succeeded

RollbackUnmet(r) ==
    LET record == live[r].rollback
    IN  \/ record = None
        \/ ~record.exercised
        \/ ~record.succeeded
        \/ /\ ~request[r].first
           /\ \/ record.restored = None
              \/ previous[r] = None
              \/ record.digest # previous[r]

\* Mutant: the tree on the host is not one of the conditions.
RepairedOnCountersAlone(r) ==
    /\ live[r].sound
    /\ ~RollbackUnmet(r)

Repaired(r) ==
    /\ live[r].tree = Tree(r)
    /\ live[r].sound
    /\ ~RollbackUnmet(r)

-----------------------------------------------------------------------------
(* The receipt, and _stop(). *)

File(r, result, reading) ==
    log' = Append(log, [run |-> r, outcome |-> result, rev |-> request[r].rev,
                        tree |-> Tree(r),
                        current |-> IF reading = None THEN None ELSE reading.current,
                        restored |-> IF reading = None \/ reading.rollback = None
                                     THEN None ELSE reading.rollback.succeeded])

Finish(r, result, finding, reading) ==
    /\ pc' = [pc EXCEPT ![r] = "finished"]
    /\ outcome' = [outcome EXCEPT ![r] = result]
    /\ trouble' = [trouble EXCEPT ![r] = finding]
    /\ File(r, result, reading)

\* Stop run r, having reached states, staged release and read reading: roll back
\* if and only if something was staged and there is a pointer to go back to.
Stop(r, states, release, reading) ==
    /\ reached' = [reached EXCEPT ![r] = states]
    /\ staged' = [staged EXCEPT ![r] = release]
    /\ live' = [live EXCEPT ![r] = reading]
    /\ \/ /\ Len(states) <= RollbackFrom \/ release = None
          /\ Finish(r, "failed", None, reading)
       \/ /\ Len(states) > RollbackFrom /\ release # None
          /\ release.previous = None
          /\ Finish(r, "failed", "ROLLBACK-IMPOSSIBLE", reading)
       \/ /\ Len(states) > RollbackFrom /\ release # None
          /\ release.previous # None
          /\ pc' = [pc EXCEPT ![r] = "rollback"]
          /\ UNCHANGED <<outcome, trouble, log>>

\* A call raised: the exception is the failure of the stage it was.
Raise(r) ==
    /\ host' \in Interrupted(r)
    /\ Stop(r, reached[r], staged[r], live[r])

\* Mutant: the last state is appended with every other.
ReachTwice(r, next) ==
    /\ reached' = [reached EXCEPT ![r] = @ \o <<STATES[Len(@) + 1], "ACCEPTED">>]
    /\ pc' = [pc EXCEPT ![r] = next]
    /\ UNCHANGED <<outcome, trouble, log>>

\* A call returned and its state was appended.
Reach(r, next) ==
    /\ reached' = [reached EXCEPT ![r] = Append(@, STATES[Len(@) + 1])]
    /\ pc' = [pc EXCEPT ![r] = next]
    /\ UNCHANGED <<outcome, trouble, log>>

-----------------------------------------------------------------------------
(* promote(), one action per call and per decision between two calls. *)

\* _preconditions(): a refusal touches nothing and files nothing.
Preconditions(r) ==
    /\ pc[r] = "preconditions"
    /\ \/ /\ request[r].defect = "complete"
          /\ pc' = [pc EXCEPT ![r] = "fetch"]
          /\ previous' = [previous EXCEPT ![r] = LastAccepted]
          /\ UNCHANGED outcome
       \/ /\ request[r].defect # "complete"
          /\ pc' = [pc EXCEPT ![r] = "refused"]
          /\ outcome' = [outcome EXCEPT ![r] = "failed"]
          /\ UNCHANGED previous
    /\ UNCHANGED <<tip, host, hands, request, reached, staged, live, trouble, log, prior>>

Fetch(r) ==
    /\ pc[r] = "fetch"
    /\ \/ Reach(r, "check") /\ UNCHANGED <<host, staged, live>>
       \/ Raise(r)
    /\ UNCHANGED <<tip, hands, session, prior>>

\* VALIDATED is appended before the results are looked at.
Check(r) ==
    /\ pc[r] = "check"
    /\ \/ Reach(r, "rehearse") /\ UNCHANGED <<host, staged, live>>
       \/ Stop(r, Append(reached[r], "VALIDATED"), None, None) /\ UNCHANGED host
       \/ Raise(r)
    /\ UNCHANGED <<tip, hands, session, prior>>

\* The rehearsal happens on a disposable host: conditions 1, 2, 4 and 5 hold of
\* it or they do not, and REHEARSED is appended either way.
Rehearse(r) ==
    /\ pc[r] = "rehearse"
    /\ \/ Reach(r, "stage") /\ UNCHANGED <<host, staged, live>>
       \/ Stop(r, Append(reached[r], "REHEARSED"), None, None) /\ UNCHANGED host
       \/ Raise(r)
    /\ UNCHANGED <<tip, hands, session, prior>>

\* The directory's previous pointer is captured before the swap.
Stage(r) ==
    /\ pc[r] = "stage"
    /\ prior' = [prior EXCEPT ![r] = Found]
    /\ LET release == [current |-> r, previous |-> host.pointer]
           lost == release.previous = None /\ ~request[r].first
       IN  \/ /\ host' = Activated(r)
              /\ ~lost
              /\ Reach(r, "reload")
              /\ staged' = [staged EXCEPT ![r] = release]
              /\ UNCHANGED live
           \/ /\ host' = Activated(r)
              /\ lost
              /\ Stop(r, Append(reached[r], "STAGED"), release, None)
           \/ Raise(r)
    /\ UNCHANGED <<tip, hands, session>>

Reload(r) ==
    /\ pc[r] = "reload"
    /\ \/ /\ host' = Reloaded
          /\ Reach(r, "observe")
          /\ UNCHANGED <<staged, live>>
       \/ Raise(r)
    /\ UNCHANGED <<tip, hands, session, prior>>

\* observe() exercises a rollback and comes back to the release, then reads.
Observe(r) ==
    /\ pc[r] = "observe"
    /\ \/ \E sound \in BOOLEAN, record \in Exercises(r) :
            /\ host' = IF record = None \/ staged[r].previous = None THEN host
                       ELSE Restored(r)
            /\ live' = [live EXCEPT ![r] = ReadBack(host', sound, record)]
            /\ Reach(r, "judge")
            /\ UNCHANGED staged
       \/ Raise(r)
    /\ UNCHANGED <<tip, hands, session, prior>>

\* Mutant: an unmet condition is observed again instead of stopping the run.
JudgeUntilRepaired(r) ==
    /\ pc[r] = "judge"
    /\ pc' = [pc EXCEPT ![r] = IF Repaired(r) THEN "accept" ELSE "observe"]
    /\ reached' = [reached EXCEPT ![r] = IF Repaired(r) THEN @ ELSE SubSeq(@, 1, 5)]
    /\ UNCHANGED <<tip, host, hands, staged, live, outcome, trouble, log, session, prior>>

\* The verdict over the read-back, which is older than this step.
Judge(r) ==
    /\ pc[r] = "judge"
    /\ \/ /\ Repaired(r)
          /\ pc' = [pc EXCEPT ![r] = "accept"]
          /\ UNCHANGED <<reached, staged, live, outcome, trouble, log>>
       \/ /\ ~Repaired(r)
          /\ Stop(r, reached[r], staged[r], live[r])
    /\ UNCHANGED <<tip, host, hands, session, prior>>

Accept(r) ==
    /\ pc[r] = "accept"
    /\ \/ /\ reached' = [reached EXCEPT ![r] = Append(@, "ACCEPTED")]
          /\ Finish(r, "accepted", None, live[r])
          /\ UNCHANGED <<host, staged, live>>
       \/ Raise(r)
    /\ UNCHANGED <<tip, hands, session, prior>>

\* The rollback half of _stop().  A read-back that carries a rollback record
\* makes the outcome rolled-back, whatever the record says.
Rollback(r) ==
    /\ pc[r] = "rollback"
    /\ LET release == RollbackTarget(r)
           done == [exercised |-> TRUE, restored |-> release,
                    digest |-> TreeAt(host.store, release), succeeded |-> TRUE]
           undone == [exercised |-> TRUE, restored |-> None, digest |-> None,
                      succeeded |-> FALSE]
       IN  \/ /\ host' = Restored(release)
              /\ Finish(r, "rolled-back", None, ReadBack(host', TRUE, done))
           \/ /\ host' = host
              /\ Finish(r, "rolled-back", None, ReadBack(host', TRUE, undone))
           \/ /\ host' \in Interrupted(r)
              /\ Finish(r, "failed", "ROLLBACK-UNOBSERVED", live[r])
           \/ /\ host' \in Interrupted(r)
              /\ Finish(r, "failed", "ROLLBACK-RAISED", live[r])
    /\ UNCHANGED <<tip, hands, reached, staged, live, session, prior>>

\* The job's timeout, or its runner going away, cuts the run off in the middle
\* of whatever it was doing.
Kill(r) ==
    /\ pc[r] \in Executing
    /\ host' \in Interrupted(r)
    /\ prior' = IF pc[r] = "stage" THEN [prior EXCEPT ![r] = Found] ELSE prior
    /\ pc' = [pc EXCEPT ![r] = "killed"]
    /\ UNCHANGED <<tip, hands, reached, staged, live, outcome, trouble, log, session>>

-----------------------------------------------------------------------------
(* Drift: somebody changes the host outside promotion. *)

HandEdit(d) ==
    /\ hands < MaxHands
    /\ host.store[d] \notin {None, HandEdited}
    /\ host' = [host EXCEPT !.store[d] = HandEdited]
    /\ hands' = hands + 1
    /\ UNCHANGED <<tip, pc, reached, staged, live, outcome, trouble, log, prior, session>>

\* An edit is taken back: the directory holds what it was written with.  What the
\* evaluators loaded of the edit, they go on running.
HandUndo(d) ==
    /\ hands \in 1..MaxHands
    /\ host.store[d] = HandEdited
    /\ host' = [host EXCEPT !.store[d] = Original(d)]
    /\ hands' = hands + 1
    /\ UNCHANGED <<tip, pc, reached, staged, live, outcome, trouble, log, prior, session>>

HandActivate(d) ==
    /\ hands < MaxHands
    /\ host.store[d] # None /\ d # host.pointer
    /\ host' = Restored(d)
    /\ hands' = hands + 1
    /\ UNCHANGED <<tip, pc, reached, staged, live, outcome, trouble, log, prior, session>>

-----------------------------------------------------------------------------
Workflow(r) == Dispatch(r) \/ Admit(r) \/ Review(r)

Execute(r) ==
    \/ Reassert(r) \/ Preconditions(r) \/ Fetch(r) \/ Check(r) \/ Rehearse(r)
    \/ Stage(r) \/ Reload(r) \/ Observe(r) \/ Judge(r) \/ Accept(r)
    \/ Rollback(r) \/ Kill(r)

ByHand(d) == HandEdit(d) \/ HandUndo(d) \/ HandActivate(d)

Next ==
    \/ Merge
    \/ \E r \in Runs : Workflow(r) \/ Execute(r)
    \/ \E d \in Dirs : ByHand(d)

Spec == Init /\ [][Next]_vars

\* The group admits the pending run when it is free; a review ends, by a verdict
\* or by GitHub's own limit on waiting; and a job that is executing goes on: each
\* call returns or raises, or timeout-minutes ends the job.
FairSpec ==
    /\ Spec
    /\ \A r \in Runs : WF_vars(Admit(r)) /\ WF_vars(Review(r)) /\ WF_vars(Execute(r))

-----------------------------------------------------------------------------
(* Properties. *)

TypeOK ==
    /\ tip \in Revisions
    /\ hands \in 0..(MaxHands + 1)
    /\ host \in Host
    /\ pc \in [Runs -> {"undispatched"} \cup Queueing \cup Holding \cup Ended]
    /\ request \in [Runs -> Request]
    /\ reached \in [Runs -> {SubSeq(STATES, 1, n) : n \in 0..7}]
    /\ staged \in [Runs -> StagedRelease \cup {None}]
    /\ live \in [Runs -> LiveState \cup {None}]
    /\ previous \in [Runs -> Digests \cup {None}]
    /\ outcome \in [Runs -> Outcomes \cup {None}]
    /\ trouble \in [Runs -> Troubles \cup {None}]
    /\ log \in Seq(Receipt)
    /\ prior \in [Runs -> Prior]

\* The run's outcome is decided, and its receipt filed, in this step.
Files(r, result) == outcome[r] = None /\ outcome'[r] = result

\* When run r last had the evaluators reloaded with nothing between that and its
\* read-back but its own calls: at the read-back itself, where the way back from
\* the exercised rollback reloads; on a host with no release to go back to, at
\* its stage() at the latest.
LoadedAt(r) == IF staged[r].previous = None THEN prior[r].at ELSE live[r].at

\* No stage of promote() is skipped on the way to ACCEPTED, and none left half
\* done: the active directory holds the tree the run rendered, unless somebody
\* changed the host by hand after the read-back; and the evaluators run it, unless
\* somebody did since they were last surely reloaded - which a first promotion's
\* are not after an edit that was loaded, and undone before the read-back.
AcceptedIsDeployed ==
    [][\A r \in Runs :
         Files(r, "accepted") =>
            /\ reached'[r] = STATES
            /\ live[r].at = hands => TreeAt(host.store, host.pointer) = Tree(r)
            /\ LoadedAt(r) = hands => host.loaded = Tree(r)]_vars

\* A rolled-back outcome whose rollback record says it succeeded leaves the host
\* on the very release that was active when stage() was called, loaded by the
\* evaluators: the pointer captured at staging is the only rollback target.
ProvedRollbackRestores ==
    [][\A r \in Runs :
         Files(r, "rolled-back") /\ log'[Len(log')].restored = TRUE =>
            /\ host'.pointer = prior[r].pointer
            /\ host'.loaded = TreeAt(host'.store, host'.pointer)]_vars

\* The release run r replaced was written as this tree, and was this tree when the
\* run's stage() found it, or an edit of it that was undone before the read-back.
Replaces(r, tree) ==
    /\ prior[r].pointer # None
    /\ Original(prior[r].pointer) = tree
    /\ \/ prior[r].tree = tree
       \/ prior[r].tree = HandEdited /\ prior[r].at # live[r].at

\* An accepted run that is not a first promotion replaced a release directory that
\* had been written with the very tree the receipt accepted before it records, and
\* that held it, byte for byte, when the run's stage() found it; if it held an edit
\* by hand then, somebody changed the host between that stage() and the read-back.
\* After a run that was killed or could not roll back, nothing is accepted until the
\* host is back on an accepted tree (condition 6 compares with previous_digest).
ChainUnbroken ==
    \A i \in Accepted :
       LET r == log[i].run
           earlier == {j \in Accepted : j < i}
       IN  r \in Runs /\ ~request[r].first =>
             \E j \in earlier : (\A k \in earlier : k <= j) /\ Replaces(r, log[j].tree)

\* Accepted revisions never go back, whatever is queued, re-run or merged while
\* a run waits for its reviewer: the tip check happens under the group's lock.
RevisionsNeverGoBack ==
    \A i, j \in Accepted : i < j => log[i].rev <= log[j].rev

\* A run that fails having staged a release says in its findings why the host
\* was not put back.
FailureAfterStagingIsNamed ==
    \A r \in Runs :
       outcome[r] = "failed" /\ staged[r] # None => trouble[r] # None

\* A dispatched run comes to an end - superseded, rejected, refused, finished or
\* killed - whichever of its calls raise: no failure path keeps the concurrency
\* group from the runs behind it.
DispatchedRunEnds == \A r \in Runs : pc[r] = "queued" ~> pc[r] \in Ended

-----------------------------------------------------------------------------
(* What the repository says of promotions, and its code does not do. *)

\* promote.py, _stop: "a rollback that did not complete has left the host in a
\* state a human has to look at, and recording it as a tidy rollback is the
\* report that stops anyone looking".
RolledBackIsRestored ==
    [][\A r \in Runs :
         Files(r, "rolled-back") => host'.pointer = prior[r].pointer]_vars
=============================================================================
