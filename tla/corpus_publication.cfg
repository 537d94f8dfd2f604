SPECIFICATION Spec
CONSTANTS
  e1 = e1
  e2 = e2
  z1 = z1
  z2 = z2
  g1 = g1
  g2 = g2
  NoGeneration = NoGeneration
  Exporters <- TwoExporters
  Freezers <- TwoFreezers
  Generations <- TwoGenerations
  FileCount = 3
  FirstOf <- FirstOfThree
  LastOf <- LastOfThree
  MaxVersion = 1
  LateInterrupt = FALSE
SYMMETRY Interchangeable
INVARIANTS ManifestComplete DigestDescribesFacts FactsOfOneMoment
PROPERTY FrozenSettles
