SPECIFICATION ExecuteSpec
CONSTANTS
  Callers = {t1, t2}
  Inputs = {11, 12}
  Outputs = {21, 22, 23}
  Workloads <- Three
  Reads <- Slots
  OutputOf <- Ends
  Size <- Sizes
  WordSize = 2
  Imports <- AllSources
  MaxRuns = 2
  MaxPins = 2
SYMMETRY Handles
INVARIANTS BinsValid HandlesMatchBlocks TensorsFilled HandleRestored OnlyLiveBuffers
CHECK_DEADLOCK FALSE
