SPECIFICATION Spec
CONSTANTS
  None = None
  N = 3
  MaxCalls = 100
  MaxTokens = 8
  Results <- MCResults
INVARIANTS
  RunAccountedFor
PROPERTIES
  BudgetDecidesBetweenWaves
