SPECIFICATION ConnectionFairSpec
CONSTANTS
  Requests <- AllKinds
  Pipelined <- AllPipelined
  FileSizes = {0, 3}
  BufferSize = 2
  HeaderSize = 2
  PageSize = 2
  MaxKeepalive = 2
  MaxRequests = 3
  MaxClients = 2
  Repeated <- LongSession
  FileChanges = FALSE
INVARIANTS ConnectionTypeOK RequestsKeptApart FramedByLength FilesAccounted WaitsForItsCall EofAnswersAll
PROPERTIES ImplementsSession EveryRequestAnswered
CHECK_DEADLOCK FALSE
