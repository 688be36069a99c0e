SPECIFICATION Spec
CONSTANTS
  N = 5
  Graphs <- SmallGraphs
INVARIANTS
  SubgraphsAcyclic
  SetsMirror
PROPERTY EveryLayerAssigned
CHECK_DEADLOCK FALSE
