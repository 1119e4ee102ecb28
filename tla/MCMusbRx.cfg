SPECIFICATION FairRxSpec
CONSTANTS
  Payloads = {a, b}
  MaxPackets = 5
  Capacity = 2
INVARIANTS RxTypeOK
PROPERTIES EveryPacketIsRead IsReliableChannel
\* The host may have nothing more to send.
CHECK_DEADLOCK FALSE
