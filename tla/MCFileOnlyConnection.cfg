CONSTANTS
  Kinds = {"plain", "metadata", "refused"}
  Timeouts = {TRUE, FALSE}
  NoPacket = NoPacket
  MaxPackets = 4
SPECIFICATION FairSpec
PROPERTIES RefinesPacketDelivery AnsweredInOrder WrittenIsHandled CloseReturns
CHECK_DEADLOCK FALSE
