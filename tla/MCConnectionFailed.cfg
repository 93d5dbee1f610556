SPECIFICATION ConnectionSpec
CONSTANTS
  Requests <- FailedKinds
  Pipelined <- FailedKinds
  FileSizes = {2}
  BufferSize = 3
  HeaderSize = 1
  PageSize = 1
  MaxKeepalive = 3
  MaxRequests = 2
  MaxClients = 1
  Repeated = {}
  FileChanges = FALSE
INVARIANT PreconditionFailed412
CHECK_DEADLOCK FALSE
