SPECIFICATION Spec
CONSTANTS
  None = None
  MroCacheCap = 3
  MroLength = 4
  TypeGraphs = {}
  Snapshots <- MCSnapshots
  BatchFiles = 2
  BatchBytes = 2
  WorkerCounts = {1, 2}
  Sources = {}
  BatchRows = 2
  MaxIndexed = 0
  Programs = {}
  Surrounding <- MCSurrounding
  Function <- MCFunction
  Scripts = {}
  SqlCache = 2
  Corpora = {}
  LinkCap = 1
  Selections = {}
  FileSizes = {1, 2, 3}
  MaxFileBytes = 2
  BatchFileLimit = 3
  BatchByteLimit = 2
INVARIANT ShardsEqualOnePass
CHECK_DEADLOCK FALSE
