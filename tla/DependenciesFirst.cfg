SPECIFICATION Spec
CONSTANTS
  Nodes = {0, 1, 2}
  Functions = {"read", "parse", "main"}
INVARIANTS DependenciesFirst
