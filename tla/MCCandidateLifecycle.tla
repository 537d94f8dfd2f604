------------------------ MODULE MCCandidateLifecycle ------------------------
(* Model values for the runs of CandidateLifecycle.                          *)
EXTENDS CandidateLifecycle, TLC

CONSTANTS o1, o2, g1, g2, t1, t2

TwoOperators    == {o1, o2}
OneGeneration   == {g1}
TwoGenerations  == {g1, g2}
FreshTokens     == o1 :> t1 @@ o2 :> t2
OneCandidate    == {<<g1, t1>>}
ThreeCandidates == {<<g1, t1>>, <<g2, t1>>, <<g2, t2>>}
DifferentCounts == [g \in {g1, g2} |-> IF g = g1 THEN 1 ELSE 2]
=============================================================================
