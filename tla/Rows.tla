-------------------------------- MODULE Rows --------------------------------
(***************************************************************************)
(* The tables of a document: rows, in the order the document has them, that *)
(* the code reads into a dict by one of their columns; and what a gate      *)
(* reports of them, a set of codes.                                         *)
(***************************************************************************)
EXTENDS Naturals, Sequences, SequencesExt

CONSTANT None

IsTable(rows) == rows \in Seq(ToSet(rows) \ {None})

Finding(code, wrong) == IF wrong THEN {code} ELSE {}

Keys(rows, column) == {row[column] : row \in ToSet(rows)}

\* The dict's get: None when the key is absent, the last of the rows that share
\* it when it is not.
Get(rows, column, key) ==
    LET i == SelectLastInSeq(rows, LAMBDA row : row[column] = key)
    IN  IF i = 0 THEN None ELSE rows[i]

Repeated(rows, column) == \E i, j \in DOMAIN rows : i < j /\ rows[i][column] = rows[j][column]
=============================================================================
