SPECIFICATION ConnectionSpec
CONSTANTS
  Requests <- PostKinds
  Pipelined <- PostKinds
  FileSizes = {2}
  BufferSize = 3
  HeaderSize = 1
  PageSize = 1
  MaxKeepalive = 3
  MaxRequests = 2
  MaxClients = 1
  Repeated = {}
  FileChanges = FALSE
INVARIANT RequestsKeptApart
CHECK_DEADLOCK FALSE
