------------------------ MODULE Supersession_proofs ------------------------
(***************************************************************************)
(* For every set of dispatches, inventories and requests: the types, and    *)
(* that Supersession implements the register of InventoryRegister.          *)
(*                                                                         *)
(* The argument: both logs only grow, so what a run read stays at the place *)
(* it read it from (Confirmed), and the cas of its write makes that place   *)
(* the last one.  What it writes there is the result of its own request for *)
(* that document, which the tools compared with the digest the request was  *)
(* reviewed against (Resulting).                                            *)
(***************************************************************************)
EXTENDS SupersessionImplements, TLAPS

\* The request of a run that was dispatched is one that was merged.
Asked == \A r \in Runs : pc[r] # "undispatched" => Request(r) # None

\* What a run read is what the store holds at the version it read.
Confirmed ==
    \A r \in Runs : pc[r] \in {"apply", "write", "confirm"} =>
        kv[r] \in 1..Len(versions) /\ v1[r] = versions[kv[r]].doc

\* What a run is about to write is what its request makes of the document it
\* was reviewed against.
Resulting ==
    \A r \in Runs : pc[r] \in {"write", "confirm"} =>
        v1[r] = Request(r).digest /\ v2[r] = Result(Request(r), v1[r])

\* The operator's write in hand is within the bound.
Drafted == draft # None => hands < MaxByHand

SupersessionInv == TypeOK /\ Drafted /\ Asked /\ Confirmed /\ Resulting

-----------------------------------------------------------------------------
(* Data. *)

LEMMA TornIsADocument == Torn \in Document
BY DEF Torn, Document, Entries, Groups

\* A request makes a document of a document.
LEMMA ResultIsADocument ==
    ASSUME NEW q \in SupersessionRequest, NEW d \in Document
    PROVE  Result(q, d) \in Document
<1>1. CASE q.kind = "retire"
    <2>1. [g \in Groups |-> d.entries[g] \ q.retire[g]] \in Entries
        BY DEF Document, Entries, SupersessionRequest
    <2>2. d.version + 1 \in Nat
        BY DEF Document
    <2>3. Result(q, d) = [d EXCEPT !.version = d.version + 1,
                                   !.entries = [g \in Groups |-> d.entries[g] \ q.retire[g]]]
        BY <1>1 DEF Result
    <2> QED BY <2>1, <2>2, <2>3 DEF Document
<1>2. CASE q.kind # "retire"
    <2>1. [d.entries EXCEPT
               !["targets"] = d.entries["targets"] \ q.federations,
               !["federations"] = d.entries["targets"] \cap q.federations] \in Entries
        BY DEF Document, Entries, Groups
    <2>2. q.name \in Names
        BY DEF SupersessionRequest
    <2>3. d.version + 1 \in Nat
        BY DEF Document
    <2> DEFINE split == [d.entries EXCEPT
               !["targets"] = d.entries["targets"] \ q.federations,
               !["federations"] = d.entries["targets"] \cap q.federations]
    <2>4. Result(q, d) = [d EXCEPT !.format = Accepted, !.name = q.name,
                                   !.version = d.version + 1, !.entries = split]
        BY <1>2 DEF Result
    <2>5. split \in Entries
        BY <2>1
    <2> HIDE DEF split
    <2> QED BY <2>2, <2>3, <2>4, <2>5 DEF Document
<1> QED BY <1>1, <1>2

\* A log keeps what it holds when something is appended.
LEMMA Appending ==
    ASSUME NEW S, NEW s \in Seq(S), NEW e \in S, s # <<>>
    PROVE  /\ Append(s, e) \in Seq(S) /\ Append(s, e) # <<>>
           /\ Len(s) \in Nat \ {0}
           /\ Len(Append(s, e)) = Len(s) + 1
           /\ Append(s, e)[Len(s) + 1] = e
           /\ \A i \in 1..Len(s) : Append(s, e)[i] = s[i]
OBVIOUS

\* What the tools let through is a result of the document the request names.
LEMMA AppliesToItsDigest ==
    ASSUME NEW r \in Runs, Applies(r)
    PROVE  v1[r] = Request(r).digest
BY DEF Applies, Retirable, Migratable

-----------------------------------------------------------------------------
(* The logs only grow. *)

MainGrows == main' = main \/ \E c \in Commit : main' = Append(main, c)
StoreGrows == versions' = versions \/ \E v \in Version : versions' = Append(versions, v)

LEMMA Kept ==
    ASSUME TypeOK, MainGrows, StoreGrows
    PROVE  /\ main' \in Seq(Commit) /\ main' # <<>>
           /\ versions' \in Seq(Version) /\ versions' # <<>>
           /\ Len(main) \in Nat /\ Len(main') \in Nat /\ Len(main) <= Len(main')
           /\ Len(versions) \in Nat /\ Len(versions') \in Nat
           /\ Len(versions) <= Len(versions')
           /\ \A i \in 1..Len(main) : main'[i] = main[i]
           /\ \A i \in 1..Len(versions) : versions'[i] = versions[i]
<1>1. /\ main \in Seq(Commit) /\ main # <<>>
      /\ versions \in Seq(Version) /\ versions # <<>>
    BY DEF TypeOK
<1>2. /\ main' \in Seq(Commit) /\ main' # <<>>
      /\ Len(main) \in Nat /\ Len(main') \in Nat /\ Len(main) <= Len(main')
      /\ \A i \in 1..Len(main) : main'[i] = main[i]
    <2>1. CASE main' = main
        BY <1>1, <2>1
    <2>2. ASSUME NEW c \in Commit, main' = Append(main, c)
          PROVE  <1>2
        BY <1>1, <2>2, Appending
    <2> QED BY <2>1, <2>2 DEF MainGrows
<1>3. /\ versions' \in Seq(Version) /\ versions' # <<>>
      /\ Len(versions) \in Nat /\ Len(versions') \in Nat
      /\ Len(versions) <= Len(versions')
      /\ \A i \in 1..Len(versions) : versions'[i] = versions[i]
    <2>1. CASE versions' = versions
        BY <1>1, <2>1
    <2>2. ASSUME NEW v \in Version, versions' = Append(versions, v)
          PROVE  <1>3
        BY <1>1, <2>2, Appending
    <2> QED BY <2>1, <2>2 DEF StoreGrows
<1> QED BY <1>2, <1>3

\* What the store holds is a document, and what a run asks for is a request.
LEMMA Holdings ==
    ASSUME SupersessionInv
    PROVE  /\ Stored \in Document
           /\ Len(versions) \in 1..Len(versions)
           /\ \A r \in Runs : pc[r] # "undispatched" => Request(r) \in SupersessionRequest
<1>1. /\ versions \in Seq(Version) /\ versions # <<>>
      /\ main \in Seq(Commit)
      /\ ask \in [Runs -> 1..Len(main)]
    BY DEF SupersessionInv, TypeOK
<1>2. Len(versions) \in 1..Len(versions) /\ versions[Len(versions)] \in Version
    BY <1>1
<1>3. ASSUME NEW r \in Runs, pc[r] # "undispatched"
      PROVE  Request(r) \in SupersessionRequest
    <2>1. main[ask[r]] \in Commit
        BY <1>1
    <2>2. Request(r) # None
        BY <1>3 DEF SupersessionInv, Asked
    <2> QED BY <2>1, <2>2 DEF Request, Commit
<1> QED BY <1>2, <1>3 DEF Stored, Version

\* Nothing the runs know changes while people write to main and to the store.
LEMMA JobsKept ==
    ASSUME SupersessionInv, MainGrows, StoreGrows, UNCHANGED <<pc, job>>
    PROVE  /\ sha' \in [Runs -> 1..Len(main')]
           /\ ask' \in [Runs -> 1..Len(main')]
           /\ kv' \in [Runs -> 0..Len(versions')]
           /\ Asked' /\ Confirmed' /\ Resulting'
<1> USE DEF SupersessionInv, job
<1>1. /\ \A i \in 1..Len(main) : i \in 1..Len(main') /\ main'[i] = main[i]
      /\ \A i \in 1..Len(versions) : i \in 1..Len(versions') /\ versions'[i] = versions[i]
      /\ \A i \in 0..Len(versions) : i \in 0..Len(versions')
    BY Kept
<1>2. \A r \in Runs : ask[r] \in 1..Len(main)
    BY DEF TypeOK
<1>3. \A r \in Runs : Request(r)' = Request(r)
    BY <1>1, <1>2 DEF Request
<1>4. Asked'
    BY <1>3 DEF Asked
<1>5. Confirmed'
    BY <1>1 DEF Confirmed
<1>6. Resulting'
    BY <1>3 DEF Resulting
<1> QED BY <1>1, <1>4, <1>5, <1>6 DEF TypeOK

-----------------------------------------------------------------------------
(* The invariant. *)

LEMMA InitInv == Init => SupersessionInv
<1> SUFFICES ASSUME Init PROVE SupersessionInv
    OBVIOUS
<1> USE SupersessionAssumption DEF Init
<1>1. versions \in Seq(Version) /\ versions # <<>>
    BY DEF Version
<1>2. main \in Seq(Commit) /\ main # <<>> /\ Len(main) = 1
    BY DEF Commit
<1>3. TypeOK
    <2>1. kv \in [Runs -> 0..Len(versions)]
        BY <1>1
    <2> QED BY <1>1, <1>2, <2>1 DEF TypeOK
<1>4. Drafted /\ Asked /\ Confirmed /\ Resulting
    BY DEF Drafted, Asked, Confirmed, Resulting
<1> QED BY <1>3, <1>4 DEF SupersessionInv

LEMMA PeopleInv == SupersessionInv /\ People => SupersessionInv'
<1> SUFFICES ASSUME SupersessionInv, People PROVE SupersessionInv'
    OBVIOUS
<1> USE DEF SupersessionInv
<1>1. UNCHANGED <<pc, job>>
    BY DEF People, Discover, Author, Redeclare, Draft, WriteByHand
<1>2. MainGrows
    <2>1. ASSUME NEW c \in Changes, NEW e \in Declarations, report # None,
                 report.doc.format # "torn"
          PROVE  [declared |-> e, request |->
                    [kind |-> c.kind, name |-> c.name, shape |-> c.shape,
                     retire |-> c.retire, federations |-> c.federations,
                     format |-> report.doc.format, version |-> report.doc.version,
                     digest |-> report.doc]] \in Commit
        <3>1. report.doc \in Document
            BY <2>1 DEF TypeOK
        <3>2. report.doc.format \in {Accepted, Capture} /\ report.doc.version \in Nat
            BY <2>1, <3>1 DEF Document
        <3>3. c \in [kind : {"retire", "migrate-capture"}, name : Names,
                     shape : Shapes, retire : Entries, federations : SUBSET Ids]
            BY SupersessionAssumption
        <3>4. e \in Entries
            BY SupersessionAssumption
        <3> QED BY <3>1, <3>2, <3>3, <3>4 DEF Commit, SupersessionRequest
    <2>2. ASSUME NEW e \in Declarations
          PROVE  [declared |-> e, request |-> None] \in Commit
        BY SupersessionAssumption DEF Commit
    <2>3. CASE Author
        BY <2>1, <2>3 DEF Author, MainGrows
    <2>4. CASE Redeclare
        BY <2>2, <2>4 DEF Redeclare, MainGrows
    <2>5. CASE Discover \/ Draft \/ WriteByHand
        BY <2>5 DEF Discover, Draft, WriteByHand, MainGrows
    <2> QED BY <2>3, <2>4, <2>5 DEF People
<1>3. StoreGrows
    <2>1. CASE WriteByHand
        <3>1. draft \in Document
            BY <2>1 DEF WriteByHand, TypeOK
        <3>2. [doc |-> draft, by |-> Operator] \in Version
            BY <3>1 DEF Version
        <3> QED BY <2>1, <3>2 DEF WriteByHand, StoreGrows
    <2>2. CASE Discover \/ Author \/ Redeclare \/ Draft
        BY <2>2 DEF Discover, Author, Redeclare, Draft, StoreGrows
    <2> QED BY <2>1, <2>2 DEF People
<1>4. report' \in {None} \cup [doc : Document, kv : Nat, digest : Document \cup {None}]
    <2>1. Stored \in Document /\ Len(versions) \in Nat
        BY Holdings DEF TypeOK
    <2>2. CASE Discover
        BY <2>1, <2>2 DEF Discover
    <2>3. CASE Author \/ Redeclare \/ Draft \/ WriteByHand
        BY <2>3 DEF Author, Redeclare, Draft, WriteByHand, TypeOK
    <2> QED BY <2>2, <2>3 DEF People
<1>5. draft' \in Document \cup {None} /\ hands' \in 0..MaxByHand
    <2>1. CASE Draft
        <3>1. Stored \in Document
            BY Holdings
        <3>2. ASSUME NEW e \in Declarations
              PROVE  [Stored EXCEPT !.version = @ + 1, !.entries = e] \in Document
            <4>1. e \in Entries /\ Stored.version + 1 \in Nat
                BY <3>1, SupersessionAssumption DEF Document
            <4>2. [Stored EXCEPT !.version = @ + 1, !.entries = e]
                    = [Stored EXCEPT !.version = Stored.version + 1, !.entries = e]
                BY <3>1 DEF Document
            <4> QED BY <3>1, <4>1, <4>2 DEF Document
        <3> QED BY <2>1, <3>2 DEF Draft, TypeOK
    <2>2. CASE WriteByHand
        BY <2>2, SupersessionAssumption DEF WriteByHand, TypeOK, Drafted
    <2>3. CASE Discover \/ Author \/ Redeclare
        BY <2>3 DEF Discover, Author, Redeclare, TypeOK
    <2> QED BY <2>1, <2>2, <2>3 DEF People
<1>6. TypeOK'
    BY <1>1, <1>2, <1>3, <1>4, <1>5, Kept, JobsKept DEF TypeOK, job
<1>7. Drafted'
    BY DEF People, Discover, Author, Redeclare, Draft, WriteByHand, Drafted
<1> QED BY <1>1, <1>2, <1>3, <1>6, <1>7, JobsKept

\* What a run may store is a document, and the result of its own request for the
\* document the store holds.
LEMMA StoreApplies ==
    ASSUME SupersessionInv, NEW r \in Runs, pc[r] = "write", Store(r)
    PROVE  /\ StoreGrows
           /\ Stored = Request(r).digest
           /\ Stored' \in {Result(Request(r), Stored), Torn}
<1> USE DEF SupersessionInv
<1>1. Request(r) \in SupersessionRequest /\ Stored \in Document
    BY Holdings
<1>2. v1[r] = Request(r).digest /\ v2[r] = Result(Request(r), v1[r])
    BY DEF Resulting
<1>3. kv[r] = Len(versions) /\ v1[r] = Stored
    BY DEF Store, Confirmed, Stored
<1>4. PICK d \in {v2[r], Torn} : versions' = Append(versions, [doc |-> d, by |-> r])
    BY DEF Store
<1>5. d \in Document
    BY <1>1, <1>2, <1>3, <1>4, ResultIsADocument, TornIsADocument
<1>6. [doc |-> d, by |-> r] \in Version
    BY <1>5 DEF Version
<1>7. Stored' = d
    BY <1>4, <1>6, Appending DEF Stored, TypeOK
<1> QED BY <1>2, <1>3, <1>4, <1>6, <1>7 DEF StoreGrows

LEMMA WorkflowInv ==
    ASSUME SupersessionInv, NEW r \in Runs, Workflow(r)
    PROVE  SupersessionInv'
<1> USE DEF SupersessionInv
<1>1. UNCHANGED <<main, report, draft, hands>>
    BY DEF Workflow, Dispatch, Admit, Review, Read, Apply, Write, Confirm, Break, world
<1>2. StoreGrows
    <2>1. CASE pc[r] = "write" /\ Store(r)
        BY <2>1, StoreApplies
    <2>2. CASE ~(pc[r] = "write" /\ Store(r))
        BY <2>2 DEF Workflow, Dispatch, Admit, Review, Read, Apply, Write, Confirm, Break,
                    world, StoreGrows
    <2> QED BY <2>1, <2>2
<1>3. MainGrows
    BY <1>1 DEF MainGrows
<1>4. /\ \A i \in 1..Len(main) : i \in 1..Len(main') /\ main'[i] = main[i]
      /\ \A i \in 1..Len(versions) : i \in 1..Len(versions') /\ versions'[i] = versions[i]
      /\ \A i \in 0..Len(versions) : i \in 0..Len(versions')
      /\ main' \in Seq(Commit) /\ main' # <<>>
      /\ versions' \in Seq(Version) /\ versions' # <<>>
    BY <1>2, <1>3, Kept
<1>5. Stored \in Document /\ Len(versions) \in 1..Len(versions)
    BY Holdings
<1>6. Drafted'
    BY <1>1 DEF Drafted
<1>7. CASE Dispatch(r)
    <2> USE <1>7 DEF Dispatch
    <2>1. versions' = versions /\ main' = main /\ UNCHANGED <<kv, v1, v2>>
        BY DEF world
    <2>2. \A s \in Runs : pc'[s] \in {"queued", "superseded", pc[s]}
        BY DEF TypeOK
    <2>3. pc' \in [Runs -> {"undispatched", "queued"} \cup Holding \cup Ended]
        BY DEF TypeOK, Ended
    <2>4. PICK i \in 1..Len(main) : \E j \in 1..i :
             main[j].request # None /\ sha' = [sha EXCEPT ![r] = i]
                                    /\ ask' = [ask EXCEPT ![r] = j]
        OBVIOUS
    <2>5. PICK j \in 1..i : main[j].request # None /\ sha' = [sha EXCEPT ![r] = i]
                                                   /\ ask' = [ask EXCEPT ![r] = j]
        BY <2>4
    <2>6. j \in 1..Len(main)
        BY <2>4, <2>5 DEF TypeOK
    <2>7. TypeOK'
        BY <1>1, <2>1, <2>3, <2>4, <2>5, <2>6 DEF TypeOK
    <2>8. \A s \in Runs : s # r => Request(s)' = Request(s)
        BY <2>1, <2>5 DEF Request, TypeOK
    <2>9. Request(r)' # None
        BY <2>1, <2>5 DEF Request, TypeOK
    <2>10. Asked'
        <3> SUFFICES ASSUME NEW s \in Runs, pc'[s] # "undispatched"
                     PROVE  Request(s)' # None
            BY DEF Asked
        <3>1. CASE s = r
            BY <2>9, <3>1
        <3>2. CASE s # r
            <4>1. pc[s] # "undispatched"
                BY <3>2 DEF TypeOK
            <4> QED BY <2>8, <3>2, <4>1 DEF Asked
        <3> QED BY <3>1, <3>2
    <2>11. \A s \in Runs : pc'[s] \in {"apply", "write", "confirm"} => s # r /\ pc[s] = pc'[s]
        BY DEF TypeOK
    <2>12. Confirmed'
        BY <2>1, <2>11 DEF Confirmed
    <2>13. Resulting'
        BY <2>1, <2>8, <2>11 DEF Resulting
    <2> QED BY <1>6, <2>7, <2>10, <2>12, <2>13
<1>8. CASE UNCHANGED <<sha, ask>> /\ \E at \in Holding \cup Ended :
              pc[r] # "undispatched" /\ pc' = [pc EXCEPT ![r] = at]
    <2>1. \A s \in Runs : Request(s)' = Request(s)
        BY <1>4, <1>8 DEF Request, TypeOK
    <2>2. Asked'
        BY <1>8, <2>1 DEF Asked, TypeOK
    <2>3. /\ pc' \in [Runs -> {"undispatched", "queued"} \cup Holding \cup Ended]
          /\ sha' \in [Runs -> 1..Len(main')] /\ ask' \in [Runs -> 1..Len(main')]
        BY <1>1, <1>8 DEF TypeOK
    <2>4. CASE Admit(r) \/ Review(r) \/ Write(r) \/ Confirm(r) \/ Break(r)
        <3>1. UNCHANGED job
            BY <2>4 DEF Admit, Review, Write, Confirm, Break
        <3>2. \A s \in Runs : pc'[s] \in {"apply", "write", "confirm"} =>
                  pc[s] = pc'[s] \/ (pc[s] = "write" /\ pc'[s] = "confirm")
            BY <2>4 DEF Admit, Review, Write, Confirm, Break, TypeOK
        <3>3. TypeOK'
            BY <1>1, <1>4, <2>3, <3>1 DEF TypeOK, job
        <3>4. Confirmed'
            BY <1>4, <3>1, <3>2 DEF Confirmed, job
        <3>5. Resulting'
            BY <2>1, <3>1, <3>2 DEF Resulting, job
        <3> QED BY <1>6, <2>2, <3>3, <3>4, <3>5
    <2>5. CASE Read(r)
        <3>1. versions' = versions /\ v2' = v2
            BY <2>5 DEF Read, world
        <3>2. CASE pc' = [pc EXCEPT ![r] = "failed"] /\ UNCHANGED <<kv, v1>>
            <4>1. \A s \in Runs : pc'[s] \in {"apply", "write", "confirm"} => pc[s] = pc'[s]
                BY <3>2 DEF TypeOK
            <4>2. TypeOK'
                BY <1>1, <2>3, <3>1, <3>2 DEF TypeOK
            <4>3. Confirmed' /\ Resulting'
                BY <2>1, <3>1, <3>2, <4>1 DEF Confirmed, Resulting
            <4> QED BY <1>6, <2>2, <4>2, <4>3
        <3>3. CASE /\ kv' = [kv EXCEPT ![r] = Len(versions)]
                   /\ v1' = [v1 EXCEPT ![r] = Stored]
                   /\ pc' = [pc EXCEPT ![r] = "apply"]
            <4>1. \A s \in Runs : pc'[s] \in {"apply", "write", "confirm"} =>
                      s = r \/ (s # r /\ pc[s] = pc'[s] /\ kv'[s] = kv[s] /\ v1'[s] = v1[s])
                BY <3>3 DEF TypeOK
            <4>2. pc'[r] = "apply" /\ kv'[r] = Len(versions) /\ v1'[r] = Stored
                BY <3>3 DEF TypeOK
            <4>3. TypeOK'
                <5>1. kv' \in [Runs -> 0..Len(versions')]
                    BY <1>5, <3>1, <3>3 DEF TypeOK
                <5>2. v1' \in [Runs -> Document \cup {None}]
                    BY <1>5, <3>3 DEF TypeOK
                <5> QED BY <1>1, <2>3, <3>1, <5>1, <5>2 DEF TypeOK
            <4>4. Confirmed'
                BY <1>5, <3>1, <4>1, <4>2 DEF Confirmed, Stored
            <4>5. Resulting'
                BY <2>1, <3>1, <4>1, <4>2 DEF Resulting
            <4> QED BY <1>6, <2>2, <4>3, <4>4, <4>5
        <3> QED BY <2>5, <3>2, <3>3 DEF Read
    <2>6. CASE Apply(r)
        <3>1. versions' = versions /\ UNCHANGED <<kv, v1>> /\ pc[r] = "apply"
            BY <2>6 DEF Apply, world
        <3>2. CASE pc' = [pc EXCEPT ![r] = "failed"] /\ UNCHANGED v2
            <4>1. \A s \in Runs : pc'[s] \in {"apply", "write", "confirm"} => pc[s] = pc'[s]
                BY <3>2 DEF TypeOK
            <4>2. TypeOK'
                BY <1>1, <2>3, <3>1, <3>2 DEF TypeOK
            <4>3. Confirmed' /\ Resulting'
                BY <2>1, <3>1, <3>2, <4>1 DEF Confirmed, Resulting
            <4> QED BY <1>6, <2>2, <4>2, <4>3
        <3>3. CASE /\ Applies(r)
                   /\ v2' = [v2 EXCEPT ![r] = Result(Request(r), v1[r])]
                   /\ pc' = [pc EXCEPT ![r] = "write"]
            <4>1. v1[r] = Request(r).digest
                BY <3>3, AppliesToItsDigest
            <4>2. Request(r) \in SupersessionRequest
                BY <3>1, Holdings
            <4>3. Request(r).digest \in Document
                BY <4>2 DEF SupersessionRequest
            <4>4. Result(Request(r), v1[r]) \in Document
                BY <4>1, <4>2, <4>3, ResultIsADocument
            <4>5. TypeOK'
                <5>1. v2' \in [Runs -> Document \cup {None}]
                    BY <3>3, <4>4 DEF TypeOK
                <5> QED BY <1>1, <2>3, <3>1, <5>1 DEF TypeOK
            <4>6. \A s \in Runs : pc'[s] \in {"apply", "write", "confirm"} =>
                      s = r \/ (s # r /\ pc[s] = pc'[s] /\ v2'[s] = v2[s])
                BY <3>3 DEF TypeOK
            <4>7. v2'[r] = Result(Request(r), v1[r])
                BY <3>3 DEF TypeOK
            <4>8. Confirmed'
                BY <3>1, <4>6 DEF Confirmed
            <4>9. Resulting'
                BY <2>1, <3>1, <4>1, <4>6, <4>7 DEF Resulting
            <4> QED BY <1>6, <2>2, <4>5, <4>8, <4>9
        <3> QED BY <2>6, <3>2, <3>3 DEF Apply
    <2>7. CASE Dispatch(r)
        BY <1>7, <2>7
    <2> QED BY <2>4, <2>5, <2>6, <2>7 DEF Workflow
<1>9. ~Dispatch(r) => UNCHANGED <<sha, ask>> /\ \E at \in Holding \cup Ended :
              pc[r] # "undispatched" /\ pc' = [pc EXCEPT ![r] = at]
    BY DEF Workflow, Admit, Review, Read, Apply, Write, Confirm, Break, world, job,
           Holding, Executing, Ended
<1> QED BY <1>7, <1>8, <1>9

LEMMA NextInv == SupersessionInv /\ [Next]_vars => SupersessionInv'
<1> SUFFICES ASSUME SupersessionInv, [Next]_vars PROVE SupersessionInv'
    OBVIOUS
<1>1. CASE People
    BY <1>1, PeopleInv
<1>2. ASSUME NEW r \in Runs, Workflow(r)
      PROVE  SupersessionInv'
    BY <1>2, WorkflowInv
<1>3. CASE UNCHANGED vars
    <2>1. MainGrows /\ StoreGrows /\ UNCHANGED <<pc, job>>
        BY <1>3 DEF vars, job, MainGrows, StoreGrows
    <2>2. TypeOK'
        BY <1>3 DEF SupersessionInv, TypeOK, vars
    <2>3. Drafted'
        BY <1>3 DEF SupersessionInv, Drafted, vars
    <2> QED BY <2>1, <2>2, <2>3, JobsKept DEF SupersessionInv
<1> QED BY <1>1, <1>2, <1>3 DEF Next

\* In every reachable state the variables have their types, what a run read is
\* still in the store where it read it, and what it is about to write is what its
\* request makes of the document the request was reviewed against.
THEOREM Invariance == Spec => []SupersessionInv
<1>1. Init => SupersessionInv
    BY InitInv
<1>2. SupersessionInv /\ [Next]_vars => SupersessionInv'
    BY NextInv
<1> QED BY <1>1, <1>2, PTL DEF Spec

\* The variables of the workflow, its store and main have their types.
THEOREM SupersessionTypes == Spec => []TypeOK
<1>1. SupersessionInv => TypeOK
    BY DEF SupersessionInv
<1> QED BY <1>1, Invariance, PTL

-----------------------------------------------------------------------------
(* The refinement. *)

LEMMA InitRegister == Init => Register!Init
<1> SUFFICES ASSUME Init PROVE Register!Init
    OBVIOUS
<1>1. PICK e \in Declarations : main = <<[declared |-> e, request |-> None]>>
    BY DEF Init
<1>2. \A i \in 1..Len(main) : main[i].request = None
    BY <1>1
<1>3. Merged = {}
    BY <1>2 DEF Merged
<1> QED BY <1>3 DEF Register!Init, Init

\* A commit only adds a request.
LEMMA MergedGrows ==
    ASSUME SupersessionInv, NEW c, main' = Append(main, c)
    PROVE  Merged \subseteq Merged'
<1>1. main \in Seq(Commit) /\ main # <<>>
    BY DEF SupersessionInv, TypeOK
<1>2. \A i \in 1..Len(main) : i \in 1..Len(main') /\ main'[i] = main[i]
    BY <1>1
<1> QED BY <1>2 DEF Merged

LEMMA StepRegister ==
    SupersessionInv /\ [Next]_vars => [Register!Next]_<<Stored, Merged, hands>>
<1> SUFFICES ASSUME SupersessionInv, [Next]_vars
             PROVE  [Register!Next]_<<Stored, Merged, hands>>
    OBVIOUS
<1>1. CASE Author \/ Redeclare
    <2>1. UNCHANGED <<Stored, hands>>
        BY <1>1 DEF Author, Redeclare, Stored
    <2>2. Merged \subseteq Merged'
        BY <1>1, MergedGrows DEF Author, Redeclare
    <2> QED BY <2>1, <2>2 DEF Register!Next, Register!Merge
<1>2. CASE WriteByHand
    BY <1>2 DEF WriteByHand, Merged, Register!Next, Register!ByHand
<1>3. CASE Discover \/ Draft \/ UNCHANGED vars
    BY <1>3 DEF Discover, Draft, vars, Stored, Merged
<1>4. ASSUME NEW r \in Runs, Workflow(r)
      PROVE  [Register!Next]_<<Stored, Merged, hands>>
    <2>1. UNCHANGED <<Merged, hands>>
        BY <1>4 DEF Workflow, Dispatch, Admit, Review, Read, Apply, Write, Confirm, Break,
                    world, Merged
    <2>2. CASE pc[r] = "write" /\ Store(r)
        <3>1. Stored = Request(r).digest /\ Stored' \in {Result(Request(r), Stored), Torn}
            BY <2>2, StoreApplies
        <3>2. Request(r) \in Merged
            <4>1. ask[r] \in 1..Len(main)
                BY DEF SupersessionInv, TypeOK
            <4>2. Request(r) # None
                BY <2>2 DEF SupersessionInv, Asked
            <4> QED BY <4>1, <4>2 DEF Merged, Request
        <3>3. Torn = Register!Torn
            BY DEF Torn, Register!Torn, Groups, Register!Groups
        <3>4. Result(Request(r), Stored) = Register!Result(Request(r), Stored)
            BY DEF Result, Register!Result, Accepted, Register!Accepted, Groups, Register!Groups
        <3>5. Register!Apply(Request(r))
            BY <2>1, <3>1, <3>3, <3>4 DEF Register!Apply
        <3> QED BY <3>2, <3>5 DEF Register!Next
    <2>3. CASE ~(pc[r] = "write" /\ Store(r))
        <3>1. versions' = versions
            BY <1>4, <2>3 DEF Workflow, Dispatch, Admit, Review, Read, Apply, Write,
                              Confirm, Break, world
        <3> QED BY <2>1, <3>1 DEF Stored
    <2> QED BY <2>2, <2>3
<1> QED BY <1>1, <1>2, <1>3, <1>4 DEF Next, People

\* No lost update, for any number of dispatches, requests and writes by hand:
\* Supersession implements the register, in which the workflow replaces a
\* document only by the result of a merged request reviewed against it.
THEOREM NoLostUpdate == Spec => ImplementsRegister
<1>1. Init => Register!Init
    BY InitRegister
<1>2. SupersessionInv /\ [Next]_vars => [Register!Next]_<<Stored, Merged, hands>>
    BY StepRegister
<1> QED BY <1>1, <1>2, Invariance, PTL DEF Spec, ImplementsRegister, Register!Spec

-----------------------------------------------------------------------------
(* The history of the store. *)

\* Request q was reviewed against document d, and may be applied to it.
Stands(q, d) ==
    /\ q.digest = d /\ d.format # "torn"
    /\ q.kind = "retire" => \A g \in Groups : q.retire[g] \subseteq d.entries[g]

Granted == \A r \in Runs : pc[r] \in {"write", "confirm"} => Stands(Request(r), v1[r])

\* A run that waits for its read-back wrote the version after the one it read.
Landed ==
    \A r \in Runs : pc[r] = "confirm" =>
        kv[r] + 1 \in 1..Len(versions) /\ versions[kv[r] + 1].by = r

\* A version a run wrote is what its request makes of the version before it.
WrittenAt(i) ==
    LET r == versions[i].by
        before == versions[i - 1].doc
    IN  r \in Runs =>
        /\ i > 1 /\ pc[r] \in {"confirm"} \cup Ended
        /\ Stands(Request(r), before)
        /\ versions[i].doc \in {Result(Request(r), before), Torn}

Written == \A i \in 1..Len(versions) : WrittenAt(i)

\* Runs only raise the document's version: no document comes back until an
\* operator writes.
Climbing ==
    \A i, k \in 1..Len(versions) :
        /\ i < k /\ versions[k].doc.format # "torn"
        /\ \A m \in i + 1 .. k : versions[m].by \in Runs
        => versions[i].doc.version < versions[k].doc.version

HistoryInv == Granted /\ Landed /\ Written /\ Climbing

LEMMA ResultRaises ==
    ASSUME NEW q \in SupersessionRequest, NEW d \in Document
    PROVE  Result(q, d).version = d.version + 1
BY DEF Result, Document

LEMMA Appended ==
    ASSUME NEW S, NEW s \in Seq(S), NEW e, Append(s, e) \in Seq(S)
    PROVE  e \in S
<1>1. /\ Len(s) \in Nat /\ Len(Append(s, e)) = Len(s) + 1
      /\ Append(s, e)[Len(s) + 1] = e
    OBVIOUS
<1>2. \A i \in 1..Len(Append(s, e)) : Append(s, e)[i] \in S
    OBVIOUS
<1> QED BY <1>1, <1>2

LEMMA VersionsTyped ==
    ASSUME versions \in Seq(Version), NEW i \in 1..Len(versions)
    PROVE  /\ versions[i].doc \in Document /\ versions[i].by \in Runs \cup {Operator}
           /\ versions[i].doc.version \in Nat
<1>1. versions[i] \in Version
    OBVIOUS
<1>2. versions[i].doc \in Document /\ versions[i].by \in Runs \cup {Operator}
    BY <1>1 DEF Version
<1> QED BY <1>2 DEF Document

\* Who may append to the store, and what.
LEMMA WhoWrites ==
    ASSUME SupersessionInv, SupersessionInv', [Next]_vars
    PROVE  /\ MainGrows /\ StoreGrows
           /\ \/ versions' = versions
              \/ \E d \in Document : versions' = Append(versions, [doc |-> d, by |-> Operator])
              \/ \E r \in Runs : /\ pc[r] = "write" /\ Store(r)
                                 /\ pc'[r] \in {"confirm", "failed"}
<1>1. /\ main \in Seq(Commit) /\ main' \in Seq(Commit)
      /\ versions \in Seq(Version) /\ versions' \in Seq(Version)
    BY DEF SupersessionInv, TypeOK
<1>2. MainGrows
    <2>1. main' = main \/ \E c : main' = Append(main, c)
        BY DEF Next, People, Discover, Author, Redeclare, Draft, WriteByHand, Workflow, Dispatch,
               Admit, Review, Read, Apply, Write, Confirm, Break, world, vars
    <2> QED BY <1>1, <2>1, Appended DEF MainGrows
<1>3. \/ versions' = versions
      \/ WriteByHand
      \/ \E r \in Runs : /\ pc[r] = "write" /\ Store(r)
                         /\ pc'[r] \in {"confirm", "failed"}
    <2>1. ASSUME NEW r \in Runs, Workflow(r)
          PROVE  \/ versions' = versions
                 \/ /\ pc[r] = "write" /\ Store(r)
                    /\ pc'[r] \in {"confirm", "failed"}
        <3>1. pc \in [Runs -> {"undispatched", "queued"} \cup Holding \cup Ended]
            BY DEF SupersessionInv, TypeOK
        <3> QED BY <2>1, <3>1 DEF Workflow, Dispatch, Admit, Review, Read, Apply, Write,
                    Confirm, Break, world
    <2> QED BY <2>1 DEF Next, People, Discover, Author, Redeclare, Draft, vars
<1>4. CASE WriteByHand
    <2>1. versions' = Append(versions, [doc |-> draft, by |-> Operator]) /\ draft \in Document
        BY <1>4 DEF WriteByHand, SupersessionInv, TypeOK
    <2>2. StoreGrows
        BY <1>1, <2>1, Appended DEF StoreGrows
    <2> QED BY <1>2, <2>1, <2>2
<1> QED BY <1>2, <1>3, <1>4, StoreApplies DEF StoreGrows

\* What a dispatched run asked for stays, and a run that has written does not
\* write again.
LEMMA RunsKept ==
    ASSUME SupersessionInv, SupersessionInv', [Next]_vars, NEW r \in Runs,
           pc[r] # "undispatched"
    PROVE  /\ Request(r)' = Request(r) /\ ask'[r] = ask[r]
           /\ pc[r] \in {"confirm"} \cup Ended => pc'[r] \in {"confirm"} \cup Ended
           /\ pc'[r] = "confirm" => pc[r] = "confirm" \/ (pc[r] = "write" /\ Store(r))
           /\ pc'[r] \in {"write", "confirm"} =>
                 /\ v1'[r] = v1[r] /\ kv'[r] = kv[r]
                 /\ pc[r] \in {"write", "confirm"} \/ Applies(r)
<1>1. TypeOK /\ MainGrows /\ StoreGrows
    BY WhoWrites DEF SupersessionInv
<1>2. ask'[r] = ask[r]
    BY <1>1 DEF Next, People, Discover, Author, Redeclare, Draft, WriteByHand, Workflow,
       Dispatch, Admit, Review, Read, Apply, Write, Confirm, Break, world, job, vars, TypeOK
<1>3. Request(r)' = Request(r)
    <2>1. ask[r] \in 1..Len(main) /\ main'[ask[r]] = main[ask[r]]
        BY <1>1, Kept DEF TypeOK
    <2> QED BY <1>2, <2>1 DEF Request
<1>4. CASE UNCHANGED <<pc, job>>
    BY <1>2, <1>3, <1>4 DEF job
<1>5. CASE \E s \in Runs : Workflow(s)
    <2>1. PICK s \in Runs : Workflow(s)
        BY <1>5
    <2> USE <1>1 DEF TypeOK, Ended, Holding, Executing, world, job
    <2>2. CASE Dispatch(s)
        BY <1>2, <1>3, <2>2 DEF Dispatch
    <2>3. CASE Admit(s) \/ Review(s) \/ Confirm(s)
        BY <1>2, <1>3, <2>3 DEF Admit, Review, Confirm
    <2>4. CASE Read(s)
        BY <1>2, <1>3, <2>4 DEF Read
    <2>5. CASE Apply(s)
        BY <1>2, <1>3, <2>5 DEF Apply
    <2>6. CASE Write(s) \/ Break(s)
        BY <1>2, <1>3, <2>6 DEF Write, Break
    <2> QED BY <2>1, <2>2, <2>3, <2>4, <2>5, <2>6 DEF Workflow
<1>6. UNCHANGED <<pc, job>> \/ \E s \in Runs : Workflow(s)
    BY DEF Next, People, Discover, Author, Redeclare, Draft, WriteByHand, vars, job
<1> QED BY <1>4, <1>5, <1>6

\* No run is dispatched straight into its write.
LEMMA Started ==
    ASSUME SupersessionInv, [Next]_vars, NEW r \in Runs, pc'[r] \in {"write", "confirm"}
    PROVE  pc[r] # "undispatched"
<1>1. pc \in [Runs -> {"undispatched", "queued"} \cup Holding \cup Ended]
    BY DEF SupersessionInv, TypeOK
<1>2. ASSUME NEW s \in Runs, Workflow(s)
      PROVE  pc[r] # "undispatched"
    <2>1. CASE Dispatch(s)
        BY <1>1, <2>1 DEF Dispatch
    <2>2. CASE Admit(s) \/ Review(s) \/ Read(s) \/ Apply(s)
        BY <1>1, <2>2 DEF Admit, Review, Read, Apply
    <2>3. CASE Write(s) \/ Confirm(s) \/ Break(s)
        BY <1>1, <2>3 DEF Write, Confirm, Break, Executing
    <2> QED BY <1>2, <2>1, <2>2, <2>3 DEF Workflow
<1>3. CASE UNCHANGED pc
    BY <1>3
<1>4. UNCHANGED pc \/ \E s \in Runs : Workflow(s)
    BY DEF Next, People, Discover, Author, Redeclare, Draft, WriteByHand, vars
<1> QED BY <1>2, <1>3, <1>4

\* What the store looks like after a run's write.
LEMMA RunWrites ==
    ASSUME SupersessionInv, HistoryInv, NEW r \in Runs, pc[r] = "write", Store(r)
    PROVE  /\ kv[r] = Len(versions)
           /\ Request(r) \in SupersessionRequest /\ Stored \in Document
           /\ Stands(Request(r), Stored)
           /\ \E d \in {Result(Request(r), Stored), Torn} :
                 versions' = Append(versions, [doc |-> d, by |-> r])
<1>1. Request(r) \in SupersessionRequest /\ Stored \in Document
    BY Holdings
<1>2. kv[r] = Len(versions) /\ v1[r] = Stored
    BY DEF Store, SupersessionInv, Confirmed, Stored
<1>3. v2[r] = Result(Request(r), Stored)
    BY <1>2 DEF SupersessionInv, Resulting
<1>4. Stands(Request(r), Stored)
    BY <1>2 DEF HistoryInv, Granted
<1> QED BY <1>1, <1>2, <1>3, <1>4 DEF Store

LEMMA GrantedNext ==
    ASSUME SupersessionInv, SupersessionInv', HistoryInv, [Next]_vars
    PROVE  Granted' /\ Landed'
<1> USE DEF HistoryInv
<1>1. /\ \A i \in 1..Len(versions) : i \in 1..Len(versions') /\ versions'[i] = versions[i]
      /\ versions \in Seq(Version) /\ versions # <<>>
    BY WhoWrites, Kept DEF SupersessionInv, TypeOK
<1>2. ASSUME NEW r \in Runs, pc'[r] \in {"write", "confirm"}
      PROVE  Stands(Request(r), v1[r])' /\ pc[r] # "undispatched"
    <2>1. pc[r] # "undispatched"
        BY <1>2, Started
    <2>2. Request(r)' = Request(r) /\ v1'[r] = v1[r]
        BY <1>2, <2>1, RunsKept
    <2>3. Stands(Request(r), v1[r])
        <3>1. CASE Applies(r)
            <4>1. Retirable(Request(r), v1[r]) \/ Migratable(Request(r), v1[r], Declared(r))
                BY <3>1 DEF Applies
            <4> QED BY <4>1 DEF Retirable, Migratable, Stands, Accepted, Capture
        <3> QED BY <1>2, <2>1, <3>1, RunsKept DEF Granted
    <2> QED BY <2>1, <2>2, <2>3 DEF Stands
<1>3. Granted'
    BY <1>2 DEF Granted
<1>4. ASSUME NEW r \in Runs, pc'[r] = "confirm"
      PROVE  kv'[r] + 1 \in 1..Len(versions') /\ versions'[kv'[r] + 1].by = r
    <2>1. kv'[r] = kv[r] /\ (pc[r] = "confirm" \/ (pc[r] = "write" /\ Store(r)))
        BY <1>2, <1>4, RunsKept
    <2>2. CASE pc[r] = "confirm"
        BY <1>1, <2>1, <2>2 DEF Landed
    <2>3. CASE pc[r] = "write" /\ Store(r)
        <3>1. PICK d : versions' = Append(versions, [doc |-> d, by |-> r])
            BY <2>3 DEF Store
        <3>2. kv[r] = Len(versions)
            BY <2>3 DEF Store
        <3>3. [doc |-> d, by |-> r] \in Version
            BY <1>1, <3>1, Appended DEF SupersessionInv, TypeOK
        <3>4. Len(versions) + 1 \in 1..Len(versions') /\ versions'[Len(versions) + 1].by = r
            BY <1>1, <3>1, <3>3, Appending
        <3> QED BY <2>1, <3>2, <3>4
    <2> QED BY <2>1, <2>2, <2>3
<1> QED BY <1>3, <1>4 DEF Landed

LEMMA WrittenNext ==
    ASSUME SupersessionInv, SupersessionInv', HistoryInv, [Next]_vars
    PROVE  Written'
<1> USE DEF HistoryInv
<1>1. /\ versions \in Seq(Version) /\ versions # <<>>
      /\ Len(versions) \in Nat \ {0}
      /\ \A i \in 1..Len(versions) : i \in 1..Len(versions') /\ versions'[i] = versions[i]
    BY WhoWrites, Kept DEF SupersessionInv, TypeOK
<1>2. ASSUME NEW i \in 1..Len(versions)
      PROVE  WrittenAt(i)'
    <2> SUFFICES ASSUME versions[i].by \in Runs
                 PROVE  WrittenAt(i)'
        BY <1>1 DEF WrittenAt
    <2> DEFINE r == versions[i].by
    <2>0. r \in Runs
        OBVIOUS
    <2>1. /\ i > 1 /\ pc[r] \in {"confirm"} \cup Ended
          /\ Stands(Request(r), versions[i - 1].doc)
          /\ versions[i].doc \in {Result(Request(r), versions[i - 1].doc), Torn}
        BY DEF Written, WrittenAt
    <2>2. i - 1 \in 1..Len(versions) /\ pc[r] # "undispatched"
        BY <1>1, <2>1 DEF Ended
    <2>3. versions'[i] = versions[i] /\ versions'[i - 1] = versions[i - 1]
        BY <1>1, <2>2
    <2> HIDE DEF r
    <2>4. ASSUME NEW q, q = r
          PROVE  Request(q)' = Request(q) /\ pc'[q] \in {"confirm"} \cup Ended
        <3>1. q \in Runs /\ pc[q] # "undispatched" /\ pc[q] \in {"confirm"} \cup Ended
            BY <2>0, <2>1, <2>2, <2>4
        <3> QED BY <3>1, RunsKept
    <2> QED BY <2>1, <2>3, <2>4 DEF WrittenAt, r
<1>3. CASE versions' = versions
    BY <1>2, <1>3 DEF Written
<1>4. ASSUME NEW v \in Version, versions' = Append(versions, v),
             \A n \in Nat : n = Len(versions) + 1 => WrittenAt(n)'
      PROVE  Written'
    <2>1. Len(versions') = Len(versions) + 1
        BY <1>1, <1>4, Appending
    <2>2. ASSUME NEW n \in 1..Len(versions')
          PROVE  WrittenAt(n)'
        <3>1. n \in 1..Len(versions) \/ n = Len(versions) + 1
            BY <1>1, <2>1
        <3> QED BY <1>1, <1>2, <1>4, <3>1
    <2> QED BY <2>2 DEF Written
<1>5. ASSUME NEW d \in Document, versions' = Append(versions, [doc |-> d, by |-> Operator])
      PROVE  Written'
    <2>1. [doc |-> d, by |-> Operator] \in Version
        BY DEF Version
    <2>2. versions'[Len(versions) + 1] = [doc |-> d, by |-> Operator]
        BY <1>1, <1>5, <2>1, Appending
    <2>3. ASSUME NEW n \in Nat, n = Len(versions) + 1
          PROVE  WrittenAt(n)'
        BY <2>2, <2>3, SupersessionAssumption DEF WrittenAt
    <2> QED BY <1>4, <1>5, <2>1, <2>3
<1>6. ASSUME NEW r \in Runs, pc[r] = "write", Store(r), pc'[r] \in {"confirm", "failed"}
      PROVE  Written'
    <2>1. PICK d \in {Result(Request(r), Stored), Torn} :
             versions' = Append(versions, [doc |-> d, by |-> r])
        BY <1>6, RunWrites
    <2>2. [doc |-> d, by |-> r] \in Version
        BY <1>1, <2>1, Appended DEF SupersessionInv, TypeOK
    <2>3. /\ versions'[Len(versions) + 1] = [doc |-> d, by |-> r]
          /\ versions'[Len(versions)].doc = Stored
        BY <1>1, <2>1, <2>2, Appending DEF Stored
    <2>4. Request(r)' = Request(r) /\ Stands(Request(r), Stored)
        BY <1>6, RunsKept, RunWrites
    <2>5. ASSUME NEW n \in Nat, n = Len(versions) + 1
          PROVE  WrittenAt(n)'
        <3>1. /\ n > 1 /\ versions'[n].by = r /\ versions'[n].doc = d
              /\ versions'[n - 1].doc = Stored
            BY <1>1, <2>3, <2>5
        <3> HIDE DEF Stands
        <3>2. /\ Stands(Request(r)', versions'[n - 1].doc)
              /\ versions'[n].doc \in {Result(Request(r)', versions'[n - 1].doc), Torn}
            BY <2>1, <2>4, <3>1
        <3> QED BY <1>6, <3>1, <3>2 DEF WrittenAt, Ended
    <2> QED BY <1>4, <2>1, <2>2, <2>5
<1> QED BY <1>3, <1>5, <1>6, WhoWrites

LEMMA ClimbingNext ==
    ASSUME SupersessionInv, SupersessionInv', HistoryInv, [Next]_vars
    PROVE  Climbing'
<1>1. /\ versions \in Seq(Version) /\ versions # <<>>
      /\ Len(versions) \in Nat \ {0}
      /\ \A i \in 1..Len(versions) : i \in 1..Len(versions') /\ versions'[i] = versions[i]
    BY WhoWrites, Kept DEF SupersessionInv, TypeOK
<1>2. ASSUME NEW i \in 1..Len(versions), NEW k \in 1..Len(versions), i < k,
             versions[k].doc.format # "torn",
             \A m \in i + 1 .. k : versions'[m].by \in Runs
      PROVE  versions[i].doc.version < versions[k].doc.version
    <2>1. \A m \in i + 1 .. k : m \in 1..Len(versions)
        BY <1>1
    <2>2. \A m \in i + 1 .. k : versions[m].by \in Runs
        BY <1>1, <1>2, <2>1
    <2> QED BY <1>2, <2>2 DEF HistoryInv, Climbing
<1>3. CASE versions' = versions
    BY <1>1, <1>2, <1>3 DEF Climbing
<1>4. ASSUME NEW v \in Version, versions' = Append(versions, v),
             v.by \in Runs /\ v.doc.format # "torn" =>
                /\ Stored \in Document /\ Stored.format # "torn"
                /\ v.doc.version = Stored.version + 1
      PROVE  Climbing'
    <2>1. Len(versions') = Len(versions) + 1 /\ versions'[Len(versions) + 1] = v
        BY <1>1, <1>4, Appending
    <2> SUFFICES ASSUME NEW i \in 1..Len(versions'), NEW k \in 1..Len(versions'), i < k,
                        versions'[k].doc.format # "torn",
                        \A m \in i + 1 .. k : versions'[m].by \in Runs
                 PROVE  versions'[i].doc.version < versions'[k].doc.version
        BY DEF Climbing
    <2>2. i \in 1..Len(versions)
        BY <1>1, <2>1
    <2>3. CASE k \in 1..Len(versions)
        BY <1>1, <1>2, <2>2, <2>3
    <2>4. CASE k = Len(versions) + 1
        <3>1. k \in i + 1 .. k
            BY <1>1, <2>4
        <3>2. v.by \in Runs /\ v.doc.format # "torn"
            BY <2>1, <2>4, <3>1
        <3>3. /\ Stored.version \in Nat /\ Stored = versions[Len(versions)].doc
              /\ Stored.format # "torn" /\ v.doc.version = Stored.version + 1
            BY <1>4, <3>2 DEF Document, Stored
        <3>4. CASE i = Len(versions)
            BY <1>1, <2>1, <2>2, <2>4, <3>3, <3>4
        <3>5. CASE i < Len(versions)
            <4>1. \A m \in i + 1 .. Len(versions) : m \in i + 1 .. k
                BY <1>1, <2>4
            <4>2. Len(versions) \in 1..Len(versions)
                BY <1>1
            <4>3. versions[i].doc.version < Stored.version
                BY <1>2, <2>2, <3>3, <3>5, <4>1, <4>2
            <4>4. versions[i].doc.version \in Nat
                BY <1>1, <2>2, VersionsTyped
            <4> QED BY <1>1, <2>1, <2>2, <2>4, <3>3, <4>3, <4>4
        <3> QED BY <1>1, <2>2, <3>4, <3>5
    <2> QED BY <1>1, <2>1, <2>3, <2>4
<1>5. ASSUME NEW d \in Document, versions' = Append(versions, [doc |-> d, by |-> Operator])
      PROVE  Climbing'
    <2>1. [doc |-> d, by |-> Operator] \in Version
        BY DEF Version
    <2> QED BY <1>4, <1>5, <2>1, SupersessionAssumption
<1>6. ASSUME NEW r \in Runs, pc[r] = "write", Store(r)
      PROVE  Climbing'
    <2>1. PICK d \in {Result(Request(r), Stored), Torn} :
             versions' = Append(versions, [doc |-> d, by |-> r])
        BY <1>6, RunWrites
    <2>2. [doc |-> d, by |-> r] \in Version
        BY <1>1, <2>1, Appended DEF SupersessionInv, TypeOK
    <2>3. d.format # "torn" => d = Result(Request(r), Stored)
        BY <2>1 DEF Torn
    <2>4. /\ Stored \in Document /\ Stored.format # "torn"
          /\ Result(Request(r), Stored).version = Stored.version + 1
        BY <1>6, RunWrites, ResultRaises DEF Stands
    <2> QED BY <1>4, <2>1, <2>2, <2>3, <2>4
<1> QED BY <1>3, <1>5, <1>6, WhoWrites

\* How the store came to hold what it holds.
THEOREM History == Spec => []HistoryInv
<1>1. Init => HistoryInv
    <2> SUFFICES ASSUME Init PROVE HistoryInv
        OBVIOUS
    <2>1. Len(versions) = 1 /\ versions[1].by = Operator
        BY DEF Init
    <2>2. Granted /\ Landed
        BY DEF Init, Granted, Landed
    <2>3. Written
        BY <2>1, SupersessionAssumption DEF Written, WrittenAt
    <2>4. Climbing
        BY <2>1 DEF Climbing
    <2> QED BY <2>2, <2>3, <2>4 DEF HistoryInv
<1>2. SupersessionInv /\ SupersessionInv' /\ HistoryInv /\ [Next]_vars => HistoryInv'
    <2> SUFFICES ASSUME SupersessionInv, SupersessionInv', HistoryInv, [Next]_vars
                 PROVE  HistoryInv'
        OBVIOUS
    <2> QED BY GrantedNext, WrittenNext, ClimbingNext DEF HistoryInv
<1> QED BY <1>1, <1>2, Invariance, PTL DEF Spec

LEMMA SingleUseHolds ==
    ASSUME SupersessionInv, HistoryInv
    PROVE  SingleUse
<1> SUFFICES ASSUME NEW i \in 1..Len(versions), NEW j \in 1..Len(versions), i < j,
                    versions[i].by \in Runs, versions[j].by \in Runs,
                    ask[versions[i].by] = ask[versions[j].by],
                    \A k \in i + 1 .. j - 1 : versions[k].by # Operator
             PROVE  FALSE
    BY DEF SingleUse
<1> DEFINE q == Request(versions[i].by)
<1>1. versions \in Seq(Version) /\ Len(versions) \in Nat
    BY DEF SupersessionInv, TypeOK
<1>2. WrittenAt(i) /\ WrittenAt(j) /\ q = Request(versions[j].by)
    BY DEF HistoryInv, Written, Request
<1>3. /\ i > 1 /\ pc[versions[i].by] # "undispatched"
      /\ Stands(q, versions[i - 1].doc)
      /\ versions[i].doc \in {Result(q, q.digest), Torn}
    BY <1>2 DEF WrittenAt, Stands, Ended
<1>4. Stands(q, versions[j - 1].doc)
    BY <1>2 DEF WrittenAt
<1>5. q \in SupersessionRequest
    BY <1>3, Holdings
<1> HIDE DEF q
<1>6. /\ q.digest = versions[j - 1].doc /\ q.digest.format # "torn"
      /\ q.digest \in Document
    BY <1>4, <1>5 DEF Stands, SupersessionRequest
<1>7. versions[i].doc # Torn
    <2>1. CASE i = j - 1
        BY <1>6, <2>1 DEF Torn
    <2>2. CASE i < j - 1
        <3>1. i + 1 \in i + 1 .. j - 1 /\ i + 1 \in 1..Len(versions)
            BY <1>1, <2>2
        <3>2. versions[i + 1].by \in Runs
            BY <1>1, <3>1, VersionsTyped
        <3>3. WrittenAt(i + 1)
            BY <3>1 DEF HistoryInv, Written
        <3>4. Stands(Request(versions[i + 1].by), versions[(i + 1) - 1].doc)
            BY <3>2, <3>3 DEF WrittenAt
        <3>5. (i + 1) - 1 = i
            BY <1>1
        <3> QED BY <3>4, <3>5 DEF Stands, Torn
    <2> QED BY <1>1, <2>1, <2>2
<1>8. versions[i].doc.version = q.digest.version + 1 /\ q.digest.version \in Nat
    BY <1>3, <1>5, <1>6, <1>7, ResultRaises DEF Document
<1>9. CASE i = j - 1
    BY <1>6, <1>8, <1>9
<1>10. CASE i < j - 1
    <2>1. j - 1 \in 1..Len(versions)
        BY <1>1, <1>10
    <2>2. \A m \in i + 1 .. j - 1 : versions[m].by \in Runs
        <3>1. \A m \in i + 1 .. j - 1 : m \in 1..Len(versions)
            BY <1>1
        <3> QED BY <1>1, <3>1, VersionsTyped
    <2>3. versions[i].doc.version < versions[j - 1].doc.version
        BY <1>6, <1>10, <2>1, <2>2 DEF HistoryInv, Climbing
    <2> QED BY <1>6, <1>8, <2>3
<1> QED BY <1>1, <1>9, <1>10

\* A merged request is applied once, for any number of dispatches, re-runs and
\* lost responses: it names one document, every write of the workflow raises the
\* version, so that document does not come back until an operator writes.
THEOREM RequestsAreSingleUse == Spec => []SingleUse
<1>1. SupersessionInv /\ HistoryInv => SingleUse
    BY SingleUseHolds
<1> QED BY <1>1, Invariance, History, PTL

\* Through the workflow an entry leaves the inventory only when the reviewed
\* request names it, and none comes back: nothing written by hand is overwritten.
THEOREM OnlyReviewedEntriesEverLeave == Spec => []OnlyReviewedEntriesLeave
<1>1. SupersessionInv /\ HistoryInv => OnlyReviewedEntriesLeave
    <2> SUFFICES ASSUME SupersessionInv, HistoryInv, NEW i \in 2..Len(versions),
                        versions[i].by \in Runs, versions[i].doc # Torn,
                        Request(versions[i].by).kind = "retire", NEW g \in Groups
                 PROVE  LET before == versions[i - 1].doc
                            after == versions[i].doc
                        IN  /\ after.entries[g] \subseteq before.entries[g]
                            /\ before.entries[g] \ after.entries[g]
                                 = Request(versions[i].by).retire[g]
        BY DEF OnlyReviewedEntriesLeave
    <2> DEFINE q == Request(versions[i].by)
               before == versions[i - 1].doc
    <2>1. versions \in Seq(Version) /\ Len(versions) \in Nat
        BY DEF SupersessionInv, TypeOK
    <2>2. i \in 1..Len(versions) /\ i - 1 \in 1..Len(versions)
        BY <2>1
    <2>3. Stands(q, before) /\ versions[i].doc = Result(q, before)
        BY <2>2 DEF HistoryInv, Written, WrittenAt
    <2>4. before \in Document
        BY <2>1, <2>2, VersionsTyped
    <2> HIDE DEF q, before
    <2>5. q.kind = "retire" /\ q.retire[g] \subseteq before.entries[g]
        BY <2>3 DEF Stands, q
    <2>6. versions[i].doc.entries[g] = before.entries[g] \ q.retire[g]
        BY <2>3, <2>4, <2>5 DEF Result, Document
    <2> QED BY <2>5, <2>6 DEF q, before
<1> QED BY <1>1, Invariance, History, PTL

\* A run succeeds only while the store holds what its request makes of the
\* document it was reviewed against, in the version the run wrote right after the
\* one it read: a truncated write or a write by hand in between fails it.
THEOREM SuccessIsTheStoredResult == Spec => SuccessIsStored
<1> DEFINE Step == \A r \in Runs :
         pc[r] # "succeeded" /\ pc'[r] = "succeeded" =>
            /\ Stored = Result(Request(r), Request(r).digest)
            /\ versions[kv[r]].doc = Request(r).digest
            /\ versions[kv[r] + 1].by = r
<1>1. SupersessionInv /\ HistoryInv /\ [Next]_vars => Step
    <2> SUFFICES ASSUME SupersessionInv, HistoryInv, [Next]_vars, NEW r \in Runs,
                        pc[r] # "succeeded", pc'[r] = "succeeded"
                 PROVE  /\ Stored = Result(Request(r), Request(r).digest)
                        /\ versions[kv[r]].doc = Request(r).digest
                        /\ versions[kv[r] + 1].by = r
        OBVIOUS
    <2>1. Confirm(r)
        <3>1. pc \in [Runs -> {"undispatched", "queued"} \cup Holding \cup Ended]
            BY DEF SupersessionInv, TypeOK
        <3> QED BY <3>1 DEF Next, People, Discover, Author, Redeclare, Draft, WriteByHand,
                vars, Workflow, Dispatch, Admit, Review, Read, Apply, Write, Confirm, Break
    <2>2. Stored = v2[r] /\ pc[r] = "confirm"
        BY <2>1 DEF Confirm, SupersessionInv, TypeOK
    <2>3. /\ v2[r] = Result(Request(r), v1[r]) /\ v1[r] = Request(r).digest
          /\ v1[r] = versions[kv[r]].doc
        BY <2>2 DEF SupersessionInv, Resulting, Confirmed
    <2>4. versions[kv[r] + 1].by = r
        BY <2>2 DEF HistoryInv, Landed
    <2> QED BY <2>2, <2>3, <2>4
<1> QED BY <1>1, Invariance, History, PTL DEF Spec, SuccessIsStored

=============================================================================
