----------------------- MODULE SupersessionImplements -----------------------
(***************************************************************************)
(* Supersession implements InventoryRegister: a run's read, its tools, its  *)
(* conditional write and its read-back amount to one atomic application of  *)
(* the request, which takes effect when the store takes the write.          *)
(***************************************************************************)
EXTENDS Supersession

Merged == {main[i].request : i \in 1..Len(main)} \ {None}

Register == INSTANCE InventoryRegister WITH doc <- Stored, merged <- Merged

\* No lost update: whatever is written by hand, re-run, raced or cut off, the
\* workflow replaces a document only by the result of a merged request that was
\* reviewed against that very document.
ImplementsRegister == Register!Spec
=============================================================================
