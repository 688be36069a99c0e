CONSTANTS
  Writers = {sender, c1}
  Clients = {c1}
  Numbered = {c1}
  Sender = sender
  NumberOfBuffers = 1
  MaxBufferSize = 1
  Sizes = {0, 1}
  MetadataSize = 1
  NoBuffer = NoBuffer
  MaxPackets = 2
  Timeouts = {TRUE}
  MaxSessions = 2
SPECIFICATION Spec
PROPERTIES RefinesBufferManager WireInOrder StopFlushes
CHECK_DEADLOCK FALSE
