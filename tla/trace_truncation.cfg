SPECIFICATION Spec
CONSTANTS
  None = None
  CandidateLimit = 2
  PageSize = 2
  MaxDepth = 3
  VisitedCap = 14
  EdgeCap = 10
  EvidenceCap = 5
  IntentCap = 5
  PathCap = 2
  WorkCap = 3
  ResponseCap = 2
  Deployments <- MCDeployments
  Targets <- MCTargets
  Limits <- MCLimits
  Questions <- MCQuestions
  AppOf <- MCAppOf
  DbOf <- MCDbOf
  ContextOf <- MCContextOf
  MaxOffset = 3
  PageLimits = {1, 2, 5}
  GraphCap = 2
  ContextCap = 2
  NoDefault = NoDefault
  CandidatePool = 3
  CallDepths = {1, 2, 3}
  Registries <- MCRegistries
  CorpusOf <- MCCorpusOf
  IdentityOrder <- MCIdentityOrder
  RegistryFiles <- MCRegistryFiles
  Indexes <- MCIndexes
  SearchQuestions <- MCSearchQuestions
  CodeGraphs <- MCCodeGraphs
  SymbolQuestions <- MCSymbolQuestions
INVARIANT TruncationReported
CHECK_DEADLOCK FALSE
