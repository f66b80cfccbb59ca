SPECIFICATION Spec
CONSTANTS
  None = None
  MinScore = 60
  MaxCalls = 5
  MaxTokens = 12
  Texts <- MCTexts
  Open <- MCOpen
  MaxRepairIterations = 6
  MaxUnsafeBlocks = 1
  Chunks = 1
  CTokens = 2
INVARIANTS
  ResultWarranted
PROPERTIES
  Termination
