SPECIFICATION Spec
CONSTANTS
  Nodes = {0, 1, 2, 3}
  Functions = {"read", "parse", "emit", "main"}
INVARIANTS LevelByLevel
PROPERTIES ImplementsSchedule
