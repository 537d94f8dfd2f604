----------------------------- MODULE TaggedRows -----------------------------
(***************************************************************************)
(* The rows a SqliteCsvImporter takes and what inserting them does to the  *)
(* database: a row belongs to a table, the table decides how a conflict on *)
(* its key is handled (src/src/codekg/sqlite_cli.py:443-494).              *)
(***************************************************************************)
EXTENDS Naturals, RowSelection

CONSTANTS
  Tables, Keys, Values,
  NoValue,         \* there is no row with that key
  ConflictMode     \* per table: "replace", "ignore" or "plain"

ASSUME RowsAssumption ==
  /\ NoValue \notin Values
  /\ ConflictMode \in [Tables -> {"replace", "ignore", "plain"}]

Row      == [table : Tables, key : Keys, value : Values]
Database == [Tables \X Keys -> Values \cup {NoValue}]

Cell(r) == <<r.table, r.key>>

(* INSERT OR REPLACE keeps the last row of a key, INSERT OR IGNORE the first. *)
Put(database, r) ==
  IF ConflictMode[r.table] = "ignore" /\ database[Cell(r)] # NoValue
  THEN database ELSE [database EXCEPT ![Cell(r)] = r.value]

Load(database, rows) == FoldLeft(Put, database, rows)

(* A plain INSERT of a key that is taken fails, and the transaction with it. *)
Clashes(database, rows) ==
  \E i \in DOMAIN rows :
    /\ ConflictMode[rows[i].table] = "plain"
    /\ \/ database[Cell(rows[i])] # NoValue
       \/ \E j \in 1..i - 1 : Cell(rows[j]) = Cell(rows[i])

(* The rows of a table, in their order.                                     *)
OfTable(rows, t) == Among(rows, [table : {t}, key : Keys, value : Values])
=============================================================================
