SPECIFICATION Spec
CONSTANTS
  None = None
  MinScore = 60
  MaxCalls = 5
  MaxTokens = 8
  Texts <- MCTexts
  MaxRepairIterations = 4
  CLines = 100
  MaxUnsafeBlocks = 1
  SpecFailures = {0, 1}
  CallsBefore = 3
  TokensBefore = 2
INVARIANTS
  ReportMatchesText
  CeilingKept
  BudgetKept
PROPERTIES
  ImplementsDelivery
  Termination
