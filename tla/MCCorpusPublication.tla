------------------------ MODULE MCCorpusPublication ------------------------
(* Model values for the runs of CorpusPublication: two snapshots, of two     *)
(* files and of one.  Exporters, freezers and generations are               *)
(* interchangeable.                                                         *)
EXTENDS CorpusPublication, TLC

CONSTANTS e1, e2, z1, z2, g1, g2

OneExporter    == {e1}
TwoExporters   == {e1, e2}
TwoFreezers    == {z1, z2}
TwoGenerations == {g1, g2}
FirstOfTwo     == <<1, 2>>
LastOfTwo      == <<1, 2>>
FirstOfThree   == <<1, 1, 3>>
LastOfThree    == <<2, 2, 3>>

Interchangeable == Permutations(TwoExporters) \cup Permutations(TwoFreezers) \cup Permutations(TwoGenerations)
=============================================================================
