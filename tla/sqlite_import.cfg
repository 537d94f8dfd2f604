SPECIFICATION Spec
CONSTANTS
  v1 = v1
  v2 = v2
  NoValue = NoValue
  Tables <- OneOfEachKind
  TableOrder <- TheOrder
  ConflictMode <- TheModes
  Keys <- OneKey
  Values <- TwoValues
  Existing <- EmptyOrFull
  MaxRows = 2
  Corrupt = TRUE
CHECK_DEADLOCK FALSE
INVARIANTS SqlAfterBarrier NoChildLeft
PROPERTIES IsAtomic FinishEnds OrphanEnds
