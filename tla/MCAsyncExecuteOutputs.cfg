SPECIFICATION ExecuteSpec
CONSTANTS
  Callers = {t1}
  Inputs = {11, 12}
  Outputs = {21, 22, 23}
  Workloads <- Three
  Reads <- Slots
  OutputOf <- Ends
  Size <- Sizes
  WordSize = 2
  Imports <- AllSources
  MaxRuns = 2
  MaxPins = 2
INVARIANT ImportedOutputsFilled
CHECK_DEADLOCK FALSE
