SPECIFICATION Spec
CONSTANTS
  Base = 3
  SizeWidth = 2
  Modulus = 9
  Word <- LittleEnd
  BufferSize = 4
  Packets <- MCPackets
  Stop = 2
  MaxPackets = 3
INVARIANTS FramingTypeOK DeliveredIsSent
PROPERTIES EverythingDelivered ConnectionEnds
CHECK_DEADLOCK FALSE
