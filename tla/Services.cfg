SPECIFICATION Spec
CONSTANTS
  CProjects <- MCCProjects
  RProjects = {"a_b", "e"}
  Underscored <- MCUnderscored
  Selections <- MCSelections
  FileLists <- MCFileLists
  CSizes = {500, 2500}
  BenchReplies <- MCReplies
  MCP_MAX_CALLS_PER_MINUTE = 2
  Minute = 3
  MIGRATION_TIMEOUT = 2
  Requests <- MCRequests
  MaxClock = 7
  MaxSetBacks = 2
  MaxCalls = 4
  Kinds <- MCKinds
  max_concurrent = 1
  max_rpm = 2
  Window = 2
  MaxTicks = 2
  Errors <- MCErrors
  Shape <- MCShape
  Matching <- MCMatching
  Seeds <- MCSeeds
  ErrorLists <- MCErrorLists
  Signatures <- MCSignatures
  Scores = {10, 20, 30}
  MAX_ENTRIES = 2
  MaxLearned = 4
  Outputs <- MCOutputs
  SafeName <- MCSafeName
  Keywords = {"self"}
  Unraw = {"self"}
  MaxIterations = 2
  UnsafeCeilings = {0, 1}
INVARIANTS
  
  AdmissionsLimited
  MemoryKeepsTheBest
  LearnedSurvives
  RepairedCrateCompiles
PROPERTIES
  EveryCallAnswered
CHECK_DEADLOCK FALSE
