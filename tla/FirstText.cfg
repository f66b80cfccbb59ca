SPECIFICATION Spec
CONSTANTS
  Confs <- MCConfs
  CFiles <- MCCFiles
  PrefixOrder <- MCPrefixOrder
  Replies <- MCReplies
  BodyLines = 100
  Candidates <- MCCandidates
  MaxCost = 5
  Grades <- MCGrades
INVARIANTS EveryFunctionOnce LaterChunksKnowTheEarlier ClientHasTheModel WinnerIsUnbeaten
PROPERTIES StubOnlyAfterTwo Termination
CHECK_DEADLOCK FALSE
