SPECIFICATION Spec
CONSTANTS
  o1 = o1
  o2 = o2
  g1 = g1
  g2 = g2
  t1 = t1
  t2 = t2
  Unowned = Unowned
  Missing = Missing
  Operators <- TwoOperators
  Generations <- TwoGenerations
  Names <- ThreeCandidates
  TokenOf <- FreshTokens
  CountsOf <- DifferentCounts
INVARIANTS StartedIsImported MarkedWasCounted
PROPERTIES ImportsOwnVolume SecondMarkerOnlyByRace
