SPECIFICATION ChainSpec
CONSTANTS
  Absent = Absent
  Cut = Cut
  MinScore = 60
  FileModules = {parser, writer}
  Texts <- MCTexts
  MaxRuns = 3
SYMMETRY ModuleSymmetry
INVARIANTS
  DirectoryIsReliable
CHECK_DEADLOCK FALSE
