----------------------------- MODULE MCServing -----------------------------
(* Model values for the runs of GraphServing.                               *)
EXTENDS GraphServing, TLC
CONSTANTS t1, t2
TwoThreads == {t1, t2}
Bridge == <<"app", "db">>
Interchangeable == Permutations(TwoThreads)
=============================================================================
