------------------------- MODULE InventoryDocuments -------------------------
(***************************************************************************)
(* Private inventory documents, the reviewed requests that change them, and *)
(* the checks of validate.py and cli.py between the two.                    *)
(*                                                                         *)
(* A document is its own digest: SHA-256 over the canonical form is taken   *)
(* to be injective.  Resolved values (endpoints, credentials) are left out; *)
(* `mappable` says whether a capture's leaves have shapes the migration     *)
(* can carry.  A capture holds federations among its targets.               *)
(***************************************************************************)
EXTENDS Naturals

CONSTANTS Ids,     \* logical target ids and credential references
          Names,   \* document names
          Shapes,  \* how the store may hold the document
          None     \* Python's None

Accepted == "accepted"   \* ACCEPTED_SCHEMA_VERSION
Capture == "capture"     \* CAPTURE_SCHEMA_VERSION
Groups == {"targets", "federations", "receivers"}
Entries == [Groups -> SUBSET Ids]

\* A capture has no document name.  "torn" is a document a write left truncated.
Document == [format : {Accepted, Capture, "torn"}, name : Names \cup {None},
             version : Nat, entries : Entries, mappable : BOOLEAN]

Torn == [format |-> "torn", name |-> None, version |-> 0,
         entries |-> [g \in Groups |-> {}], mappable |-> FALSE]

\* `retire` names what a retirement removes, `federations` how a migration
\* splits the capture's targets; each is empty in a request of the other kind.
SupersessionRequest ==
    [kind : {"retire", "migrate-capture"}, name : Names, shape : Shapes,
     retire : Entries, federations : SUBSET Ids,
     format : {Accepted, Capture}, version : Nat, digest : Document]

-----------------------------------------------------------------------------
\* supersede_findings(): this is not an in-place succession of one document.
Unsafe(previous, following, expected) ==
    \/ previous # expected
    \/ following.name # previous.name
    \/ following.version # previous.version + 1
    \/ following.entries = previous.entries

\* What apply_supersession() and migrate_capture() make of document d.
Result(q, d) ==
    IF q.kind = "retire"
    THEN [d EXCEPT !.version = d.version + 1,
                   !.entries = [g \in Groups |-> d.entries[g] \ q.retire[g]]]
    ELSE [d EXCEPT !.format = Accepted, !.name = q.name, !.version = d.version + 1,
                   !.entries = [d.entries EXCEPT
                       !["targets"] = d.entries["targets"] \ q.federations,
                       !["federations"] = d.entries["targets"] \cap q.federations]]

\* Mutant: the retirement is applied to whatever the store holds.
RetirableAnyVersion(q, d) ==
    /\ d.format = Accepted
    /\ q.kind = "retire"
    /\ q.name = d.name
    /\ \A g \in Groups : q.retire[g] \subseteq d.entries[g]
    /\ ~Unsafe(d, Result(q, d), d)

\* inventory-apply: d loads through the accepted contract, apply_supersession()
\* finds nothing, and what it produced is a safe supersession.
Retirable(q, d) ==
    /\ d.format = Accepted
    /\ q.kind = "retire"
    /\ q.name = d.name
    /\ q.version = d.version
    /\ q.digest = d
    /\ \A g \in Groups : q.retire[g] \subseteq d.entries[g]
    /\ ~Unsafe(d, Result(q, d), d)

\* inventory-migrate: d loads through the capture contract, and neither
\* migrate_capture() nor migration_findings() finds anything.
Migratable(q, d, declared) ==
    /\ d.format = Capture
    /\ q.kind = "migrate-capture"
    /\ q.format = Capture
    /\ q.version = d.version
    /\ q.digest = d
    /\ q.federations = declared["federations"]
    /\ d.mappable

\* resolution_findings(): both directions, no unresolved public row and no
\* unused private binding.
Resolves(d, declared) == \A g \in Groups : d.entries[g] = declared[g]

=============================================================================
