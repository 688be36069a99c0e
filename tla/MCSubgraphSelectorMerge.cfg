SPECIFICATION Spec
CONSTANTS
  N = 8
  Graphs <- LateMerge
INVARIANT SubgraphsAcyclic
CHECK_DEADLOCK FALSE
