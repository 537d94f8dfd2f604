SPECIFICATION Spec
CONSTANTS
  Absent = Absent
  Torn = Torn
  Exports = {e1, e2}
  Batches = 3
  Workers = 1
  Scripts = 2
  Callables = {f, g}
INVARIANTS ManifestRight ServedGeneration PreviousRestored
PROPERTIES ExportsEnd
CHECK_DEADLOCK FALSE
