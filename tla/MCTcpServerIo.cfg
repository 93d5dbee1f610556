\* Two connections at once and up to five clients, one after another: the
\* connection objects, handles and descriptors are all used again several
\* times, with every failure the kernel may report and SIGINT at any moment.
SPECIFICATION FairSpec
CONSTANTS
  MaxConnections = 3
  MaxEvents = 4
  Timeout = 1
  MaxRx = 0
  MaxClients = 5
  MaxTime = 0
  KernelFails = TRUE
  FcntlFails = TRUE
  Signals = TRUE
INVARIANTS Ownership Capacity ShutdownClosesAll
PROPERTIES InterruptStops ImplementsPool
\* After SIGINT the program ends.
CHECK_DEADLOCK FALSE
