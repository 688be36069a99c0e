CONSTANTS
  Writers = {w1, w2, w3}
  Clients = {w3}
  Numbered = {w1, w2, w3}
  NumberOfBuffers = 1
  MaxBufferSize = 1
  Sizes = {0, 1, 2}
  NoBuffer = NoBuffer
  MaxPackets = 2
SPECIFICATION Spec
INVARIANTS PoolAccounting MemoryBounded ReadableInOrder
