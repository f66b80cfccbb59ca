SPECIFICATION TestingSpec
CONSTANTS
  Capacity = 1
  Input = 1
  MaxOutput = 2
  Codes = {0}
  Units <- MCUnits
  Texts <- MCTexts
  ExactTexts <- MCExactTexts
  Epsilon = 2
  InputLists <- MCInputLists
  Iterations = 4
  CFiles <- MCCFiles
  MaxCalls = 3
  MaxDepth = 2
INVARIANTS
  OutputsComplete
  ChildReaped
  PassedMeansAgreed
  EveryInputAccounted
  HarnessTriesEveryValue
  RightTranslationMeetsSpecs
  WrongTranslationCaught
PROPERTIES
  ComparisonTerminates
CHECK_DEADLOCK FALSE
