\* Three reports, three NAKs, two retries: a report can be sent again in one poll
\* and in the next one, with either toggle, and a poll can end at either limit.
\* The requests and the packet sizes are those of the source.
CONSTANTS
  NAK_LIMIT = 3
  RETRY_LIMIT = 2
  MaxReports = 3
  Requests <- MCRequests
  FirstRead <- GetDevDescrHead
  MinPacket = 8
  PacketSizes <- Sizes
SPECIFICATION BusSpec
INVARIANTS
  BusTypeOK
  TogglesAgree
  AnswerIsExact
PROPERTIES
  ImplementsChannel
  ImplementsRequest
  TransfersEnd
