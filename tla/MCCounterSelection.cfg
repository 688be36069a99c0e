CONSTANTS
  a1 = a1
  a2 = a2
  b1 = b1
  A = A
  B = B
  Backends = {A, B}
  ArmCounters = {arm}
  BackendCounters = {a1, a2, b1}
  BackendOf <- MCBackendOf
  Unknown = {unknown}
  Periods = {0, 1, 2, 3}
  LowestPeriod = 2
SPECIFICATION Spec
INVARIANTS BackendsFollowSelection ListedOnce CaptureFindsContext
