SPECIFICATION Spec
CONSTANTS
  o1 = o1
  o2 = o2
  r1 = r1
  r2 = r2
  r3 = r3
  Malformed = Malformed
  NoFile = NoFile
  Operators <- TwoOperators
  Registries <- TwoRegistries
  RollbackSources <- PreviousOnly
  LateEdits <- LateTorn
SYMMETRY Interchangeable
INVARIANTS ActiveWasValidated PowerSafe
