SPECIFICATION Spec
CONSTANTS
  None = None
  MroCacheCap = 3
  MroLength = 4
  TypeGraphs <- MCTypeGraphs
  Snapshots <- MCSnapshots
  BatchFiles = 2
  BatchBytes = 2
  WorkerCounts = {1, 2}
  Sources <- MCSources
  BatchRows = 2
  MaxIndexed = 2
  Programs <- MCPrograms
  Surrounding <- MCSurrounding
  Function <- MCFunction
  Scripts <- MCScripts
  SqlCache = 2
  Corpora <- MCManifests
  LinkCap = 1
  Selections <- MCSelections
  FileSizes = {1, 2, 3}
  MaxFileBytes = 2
  BatchFileLimit = 3
  BatchByteLimit = 2
INVARIANTS MroRight ShardsAgree IndexConverges SearchHitsLive ReceiverRight SqlNamesRight CorpusLinksRight StagingBounded CorpusGraphWhole
CHECK_DEADLOCK FALSE
