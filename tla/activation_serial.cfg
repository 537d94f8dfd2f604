SPECIFICATION Spec
CONSTANTS
  o1 = o1
  o2 = o2
  r1 = r1
  r2 = r2
  r3 = r3
  Malformed = Malformed
  NoFile = NoFile
  Operators <- OneOperator
  Registries <- ThreeRegistries
  RollbackSources <- PreviousOnly
  LateEdits <- LateRegistry
INVARIANT AcknowledgedIsDurable
PROPERTY RefinesSwitch
