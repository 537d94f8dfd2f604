-------------------------- MODULE MCSqliteCsvImport --------------------------
(* Model values for the runs of SqliteCsvImport: a table of each kind, one    *)
(* key, two values; the database is empty or holds a row of every table.    *)
EXTENDS SqliteCsvImport

CONSTANTS v1, v2

OneOfEachKind == {"chunks", "nodes", "owners"}
TheOrder      == <<"nodes", "chunks", "owners">>
TheModes      == [t \in OneOfEachKind |-> IF t = "nodes" THEN "replace" ELSE
                                          IF t = "chunks" THEN "ignore" ELSE "plain"]
OneKey        == {"k"}
TwoValues     == {v1, v2}
EmptyOrFull   == {[c \in OneOfEachKind \X OneKey |-> v] : v \in {NoValue, v1}}
=============================================================================
