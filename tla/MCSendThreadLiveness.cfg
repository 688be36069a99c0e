CONSTANTS
  Writers = {sender, c1}
  Clients = {c1}
  Numbered = {c1}
  Sender = sender
  NumberOfBuffers = 1
  MaxBufferSize = 1
  Sizes = {1}
  MetadataSize = 1
  NoBuffer = NoBuffer
  MaxPackets = 1
  Timeouts = {TRUE, FALSE}
  MaxSessions = 1
SPECIFICATION FairSpec
PROPERTIES CommittedIsTaken SentIsAnnounced StopReturns
CHECK_DEADLOCK FALSE
