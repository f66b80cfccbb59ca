SPECIFICATION Spec
CONSTANTS
  None = None
  MinScore = 75
  MaxCalls = 2
  MaxTokens = None
  Texts <- MCTexts
  Cut <- MCCut
  Incomplete <- MCIncomplete
  Files <- MCFiles
  SourceOf <- MCSourceOf
  Size <- MCSize
  Rank <- MCRank
  MaxSessions = 2
  ModularCalls <- MCModularCalls
  MaxIters = 1
INVARIANTS DeliveredIsWarranted CacheHoldsValidated CheckedCallsWithinBudget
PROPERTIES Termination
CHECK_DEADLOCK FALSE
