------------------------ MODULE MCRegistryActivation ------------------------
(* Model values for the runs of RegistryActivation.  Operators and registries
   are interchangeable: the safety runs use their permutations.             *)
EXTENDS RegistryActivation, TLC

CONSTANTS o1, o2, r1, r2, r3

OneOperator    == {o1}
TwoOperators   == {o1, o2}
TwoRegistries  == {r1, r2}
ThreeRegistries == {r1, r2, r3}

PreviousOnly == {"previous"}
LateRegistry == {r3}
LateTorn     == {Malformed}

Interchangeable == Permutations(TwoOperators) \cup Permutations(TwoRegistries)
=============================================================================
