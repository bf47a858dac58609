---------------------------- MODULE Supersession ----------------------------
(***************************************************************************)
(* Changes of the private inventory: private-inventory-discover.yml reports *)
(* what the store holds, a request is reviewed and merged to main, and a    *)
(* dispatch of private-inventory-supersede.yml applies it.                  *)
(*                                                                         *)
(* The store is external: OpenBao KV version 2, which keeps every version,  *)
(* numbers them, and honours the `cas` of a write.  An operator also writes *)
(* to it by hand (provisioning an entry is a human operation), and that     *)
(* write carries no cas.                                                    *)
(***************************************************************************)
EXTENDS InventoryDocuments, Sequences

CONSTANTS Runs,          \* dispatches of private-inventory-supersede.yml
          Operator,      \* who writes by hand
          Shape,         \* how the store holds the document
          Inventories,   \* what the store may hold at first
          Declarations,  \* what the public inventory may declare
          Changes,       \* what a reviewed request may ask for
          MaxCommits,    \* bound: commits on main
          MaxByHand      \* bound: writes by hand

ASSUME SupersessionAssumption ==
    /\ Operator \notin Runs
    /\ Shape \in Shapes
    /\ Inventories \subseteq Document
    /\ Declarations \subseteq Entries
    /\ Changes \subseteq [kind : {"retire", "migrate-capture"}, name : Names,
                          shape : Shapes, retire : Entries, federations : SUBSET Ids]
    /\ MaxCommits \in Nat /\ MaxByHand \in Nat
    /\ None \notin SupersessionRequest /\ None \notin Document

VARIABLES
    versions,  \* the store: [doc, by], oldest first; the KV version is its length
    main,      \* protected main: [declared, request], oldest first
    report,    \* the last discovery: [doc, kv, digest], or None
    draft,     \* the document an operator is about to write, or None
    hands,     \* how many documents were written by hand
    pc,        \* where each run is
    sha,       \* the commit the run checked out
    ask,       \* the commit that merged the request the run applies
    kv,        \* steps.read.outputs.kv_version
    v1,        \* work/v1.json, or None
    v2         \* work/v2.json, whose digest is EXPECTED_DIGEST, or None

vars == <<versions, main, report, draft, hands, pc, sha, ask, kv, v1, v2>>
job == <<sha, ask, kv, v1, v2>>
world == <<versions, main, report, draft, hands>>

Executing == {"read", "apply", "write", "confirm"}
Holding == {"waiting"} \cup Executing
Ended == {"superseded", "rejected", "failed", "succeeded"}

Stored == versions[Len(versions)].doc
Request(r) == main[ask[r]].request
Declared(r) == main[sha[r]].declared

Init ==
    /\ \E d \in Inventories : versions = <<[doc |-> d, by |-> Operator]>>
    /\ \E e \in Declarations : main = <<[declared |-> e, request |-> None]>>
    /\ report = None
    /\ draft = None
    /\ hands = 0
    /\ pc = [r \in Runs |-> "undispatched"]
    /\ sha = [r \in Runs |-> 1]
    /\ ask = [r \in Runs |-> 1]
    /\ kv = [r \in Runs |-> 0]
    /\ v1 = [r \in Runs |-> None]
    /\ v2 = [r \in Runs |-> None]

-----------------------------------------------------------------------------
(* People: discovery, review, and the operator's own writes.               *)

\* The version, the shape, and what inventory-digest says: a digest of a
\* document the accepted contract describes, an error for any other.
Discover ==
    /\ report' = [doc |-> Stored, kv |-> Len(versions),
                  digest |-> IF Stored.format = Accepted THEN Stored ELSE None]
    /\ report' # report
    /\ UNCHANGED <<versions, main, draft, hands, pc, job>>

\* A request for what was discovered is merged, with or without a change of the
\* public inventory.  (Discovery reports no digest of a capture; its author has
\* it from somewhere.)
Author ==
    /\ Len(main) < MaxCommits
    /\ report # None /\ report.doc.format # "torn"
    /\ \E c \in Changes, e \in Declarations :
        main' = Append(main, [declared |-> e, request |->
            [kind |-> c.kind, name |-> c.name, shape |-> c.shape, retire |-> c.retire,
             federations |-> c.federations, format |-> report.doc.format,
             version |-> report.doc.version, digest |-> report.doc]])
    /\ UNCHANGED <<versions, report, draft, hands, pc, job>>

\* The public inventory alone changes.
Redeclare ==
    /\ Len(main) < MaxCommits
    /\ \E e \in Declarations :
        /\ e # main[Len(main)].declared
        /\ main' = Append(main, [declared |-> e, request |-> None])
    /\ UNCHANGED <<versions, report, draft, hands, pc, job>>

\* inventory-supersede: the operator's document succeeds the one just read.
Draft ==
    /\ draft = None
    /\ hands < MaxByHand
    /\ Stored.format = Accepted
    /\ \E e \in Declarations :
        LET following == [Stored EXCEPT !.version = @ + 1, !.entries = e]
        IN  /\ ~Unsafe(Stored, following, Stored)
            /\ draft' = following
    /\ UNCHANGED <<versions, main, report, hands, pc, job>>

\* The write itself comes later, and carries no cas.
WriteByHand ==
    /\ draft # None
    /\ versions' = Append(versions, [doc |-> draft, by |-> Operator])
    /\ draft' = None
    /\ hands' = hands + 1
    /\ UNCHANGED <<main, report, pc, job>>

-----------------------------------------------------------------------------
(* The workflow.                                                           *)

\* A first dispatch checks out the tip, a re-run the commit it had before.
Dispatch(r) ==
    /\ pc[r] = "undispatched"
    /\ \E i \in 1..Len(main) : \E j \in 1..i :
        /\ main[j].request # None
        /\ sha' = [sha EXCEPT ![r] = i]
        /\ ask' = [ask EXCEPT ![r] = j]
    /\ pc' = [s \in Runs |-> IF s = r THEN "queued"
                             ELSE IF pc[s] = "queued" THEN "superseded" ELSE pc[s]]
    /\ UNCHANGED <<world, kv, v1, v2>>

Admit(r) ==
    /\ pc[r] = "queued"
    /\ \A s \in Runs : pc[s] \notin Holding
    /\ pc' = [pc EXCEPT ![r] = "waiting"]
    /\ UNCHANGED <<world, job>>

\* The pre-dispatch gate and the environment's reviewer.
Review(r) ==
    /\ pc[r] = "waiting"
    /\ \E verdict \in {"read", "rejected"} : pc' = [pc EXCEPT ![r] = verdict]
    /\ UNCHANGED <<world, job>>

\* Mutant: cas names the version the write is going to make.
ReadNextVersion(r) ==
    /\ pc[r] = "read"
    /\ Request(r).shape = Shape /\ Request(r).format = Stored.format
    /\ kv' = [kv EXCEPT ![r] = Len(versions) + 1]
    /\ v1' = [v1 EXCEPT ![r] = Stored]
    /\ pc' = [pc EXCEPT ![r] = "apply"]
    /\ UNCHANGED <<world, sha, ask, v2>>

\* Confirms the storage shape and classifies the document, before anything
\* loads it.
Read(r) ==
    /\ pc[r] = "read"
    /\ \/ /\ Request(r).shape = Shape
          /\ Request(r).format = Stored.format
          /\ kv' = [kv EXCEPT ![r] = Len(versions)]
          /\ v1' = [v1 EXCEPT ![r] = Stored]
          /\ pc' = [pc EXCEPT ![r] = "apply"]
       \/ /\ Request(r).shape # Shape \/ Request(r).format # Stored.format
          /\ pc' = [pc EXCEPT ![r] = "failed"]
          /\ UNCHANGED <<kv, v1>>
    /\ UNCHANGED <<world, sha, ask, v2>>

\* The step's tools accept what the request makes of v1.json, and it resolves
\* against the public inventory of the commit the run checked out.
Applies(r) ==
    /\ \/ Retirable(Request(r), v1[r])
       \/ Migratable(Request(r), v1[r], Declared(r))
    /\ Resolves(Result(Request(r), v1[r]), Declared(r))

\* Mutant: the tools' exit status does not stop the step.
ApplyUnchecked(r) ==
    /\ pc[r] = "apply"
    /\ v2' = [v2 EXCEPT ![r] = Result(Request(r), v1[r])]
    /\ pc' = [pc EXCEPT ![r] = "write"]
    /\ UNCHANGED <<world, sha, ask, kv, v1>>

Apply(r) ==
    /\ pc[r] = "apply"
    /\ \/ /\ Applies(r)
          /\ v2' = [v2 EXCEPT ![r] = Result(Request(r), v1[r])]
          /\ pc' = [pc EXCEPT ![r] = "write"]
       \/ /\ ~Applies(r)
          /\ pc' = [pc EXCEPT ![r] = "failed"]
          /\ UNCHANGED v2
    /\ UNCHANGED <<world, sha, ask, kv, v1>>

\* Mutant: the write is not conditional on the version that was read.
StoreWithoutCas(r) ==
    \E d \in {v2[r], Torn} : versions' = Append(versions, [doc |-> d, by |-> r])

\* The store takes the write when cas names its version, whole or truncated.
Store(r) ==
    /\ kv[r] = Len(versions)
    /\ \E d \in {v2[r], Torn} : versions' = Append(versions, [doc |-> d, by |-> r])

Write(r) ==
    /\ pc[r] = "write"
    /\ \/ Store(r) /\ pc' = [pc EXCEPT ![r] = "confirm"]
       \/ /\ kv[r] # Len(versions)
          /\ pc' = [pc EXCEPT ![r] = "failed"]
          /\ UNCHANGED versions
    /\ UNCHANGED <<main, report, draft, hands, job>>

\* Mutant: inventory-digest without --expect, a reporter and not a gate.
ConfirmAnyDigest(r) ==
    /\ pc[r] = "confirm"
    /\ pc' = [pc EXCEPT ![r] = IF Stored.format = Accepted THEN "succeeded" ELSE "failed"]
    /\ UNCHANGED <<world, job>>

\* Reads the stored bytes back and compares their digest with the expected one.
Confirm(r) ==
    /\ pc[r] = "confirm"
    /\ pc' = [pc EXCEPT ![r] = IF Stored = v2[r] THEN "succeeded" ELSE "failed"]
    /\ UNCHANGED <<world, job>>

\* A step fails or the job's timeout ends it, and the response to a write that
\* took effect may be what was lost.
Break(r) ==
    /\ pc[r] \in Executing
    /\ pc' = [pc EXCEPT ![r] = "failed"]
    /\ UNCHANGED versions \/ (pc[r] = "write" /\ Store(r))
    /\ UNCHANGED <<main, report, draft, hands, job>>

-----------------------------------------------------------------------------
People == Discover \/ Author \/ Redeclare \/ Draft \/ WriteByHand

Workflow(r) ==
    \/ Dispatch(r) \/ Admit(r) \/ Review(r)
    \/ Read(r) \/ Apply(r) \/ Write(r) \/ Confirm(r) \/ Break(r)

Next == People \/ \E r \in Runs : Workflow(r)

Spec == Init /\ [][Next]_vars

-----------------------------------------------------------------------------
(* Properties.                                                             *)

Commit == [declared : Entries, request : SupersessionRequest \cup {None}]
Version == [doc : Document, by : Runs \cup {Operator}]

TypeOK ==
    /\ versions \in Seq(Version) /\ versions # <<>>
    /\ main \in Seq(Commit) /\ main # <<>>
    /\ report \in {None} \cup [doc : Document, kv : Nat, digest : Document \cup {None}]
    /\ draft \in Document \cup {None}
    /\ hands \in 0..MaxByHand
    /\ pc \in [Runs -> {"undispatched", "queued"} \cup Holding \cup Ended]
    /\ sha \in [Runs -> 1..Len(main)]
    /\ ask \in [Runs -> 1..Len(main)]
    /\ kv \in [Runs -> 0..Len(versions)]
    /\ v1 \in [Runs -> Document \cup {None}]
    /\ v2 \in [Runs -> Document \cup {None}]

\* A request is single-use by construction: however often it is dispatched,
\* re-run after a lost response or raced, the workflow stores its result a
\* second time only over something the operator wrote in between.
SingleUse ==
    \A i, j \in 1..Len(versions) :
        /\ i < j
        /\ versions[i].by \in Runs /\ versions[j].by \in Runs
        /\ ask[versions[i].by] = ask[versions[j].by]
        => \E k \in i + 1 .. j - 1 : versions[k].by = Operator

\* A run that succeeds wrote the version next to the one its request was reviewed
\* against, and the store holds what that request asks for at that moment: a
\* truncated write, or another document landing before the read-back, fails it.
SuccessIsStored ==
    [][\A r \in Runs :
         pc[r] # "succeeded" /\ pc'[r] = "succeeded" =>
            /\ Stored = Result(Request(r), Request(r).digest)
            /\ versions[kv[r]].doc = Request(r).digest
            /\ versions[kv[r] + 1].by = r]_vars

\* An entry leaves the inventory through the workflow only when the request that
\* was reviewed names it, and none comes back through it: whatever is written by
\* hand between a run's read and its write is never overwritten.
OnlyReviewedEntriesLeave ==
    \A i \in 2..Len(versions) :
        LET r == versions[i].by
            before == versions[i - 1].doc
            after == versions[i].doc
        IN  r \in Runs /\ after # Torn /\ Request(r).kind = "retire" =>
                \A g \in Groups :
                    /\ after.entries[g] \subseteq before.entries[g]
                    /\ before.entries[g] \ after.entries[g] = Request(r).retire[g]
=============================================================================
