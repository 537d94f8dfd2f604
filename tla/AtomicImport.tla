---------------------------- MODULE AtomicImport ----------------------------
(***************************************************************************)
(* What a SqliteCsvImporter promises its caller: the rows accepted before  *)
(* it was closed are in the database all together, as if inserted one by   *)
(* one in the order they were written, or not at all; "ok" is answered     *)
(* only when they are, and nothing happens after an answer.                *)
(***************************************************************************)
EXTENDS TaggedRows

VARIABLES rows, database, phase, answer

importVars == <<rows, database, phase, answer>>

Init ==
  /\ rows = <<>>
  /\ database \in Database
  /\ phase = "open"
  /\ answer = "none"

Accept ==
  /\ phase = "open"
  /\ \E r \in Row : rows' = Append(rows, r)
  /\ UNCHANGED <<database, phase, answer>>

Close ==
  /\ phase = "open"
  /\ phase' = "closed"
  /\ UNCHANGED <<rows, database, answer>>

Commit ==
  /\ phase = "closed" /\ answer = "none"
  /\ ~Clashes(database, rows)
  /\ database' = Load(database, rows)
  /\ phase' = "committed"
  /\ UNCHANGED <<rows, answer>>

Answer ==
  /\ answer = "none" /\ phase # "open"
  /\ answer' \in {"ok", "failed"}
  /\ answer' = "ok" => phase = "committed"
  /\ UNCHANGED <<rows, database, phase>>

Reject ==
  /\ phase = "open"
  /\ phase' = "closed" /\ answer' = "failed"
  /\ UNCHANGED <<rows, database>>

Next == Accept \/ Close \/ Commit \/ Answer \/ Reject

Spec == Init /\ [][Next]_importVars
=============================================================================
