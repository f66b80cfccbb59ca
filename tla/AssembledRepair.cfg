SPECIFICATION RepairSpec
CONSTANTS
  ExternalCrates <- MCExternalCrates
  Stripped <- MCStripped
  Prefixed <- MCPrefixed
  ModuleTexts <- MCModuleTexts
  ContractReplies <- MCContractReplies
  FunctionReplies <- MCFunctionReplies
INVARIANTS TypesDefinedOnce RulesKeepFunctions NothingWholeIsCut
PROPERTIES OthersUntouched
CHECK_DEADLOCK FALSE
