---------------------------- MODULE RowSelection ----------------------------
(***************************************************************************)
(* What a query selects from rows that have an order: those of a set, in   *)
(* that order (for example src/src/codekg/sqlite_cli.py:489-492, WHERE     *)
(* s.tag = ... ORDER BY s.rowid); and how rows get an order, by sorting.   *)
(***************************************************************************)
EXTENDS SequencesExt

Among(rows, S) ==
  FoldLeft(LAMBDA taken, r : IF r \in S THEN Append(taken, r) ELSE taken, <<>>, rows)

(* The members of a finite set by a strict order, given as its pairs: the n-th
   is the one that n - 1 others precede.                                     *)
Ordered(S, R) ==
  [n \in 1 .. Cardinality(S) |-> CHOOSE r \in S : Cardinality({s \in S : <<s, r>> \in R}) = n - 1]
=============================================================================
