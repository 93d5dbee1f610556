\* Two connections at once, each with input in two parts: handlers that move
\* and free handles while the pass over READY is at them.
SPECIFICATION TcpServerSpec
CONSTANTS
  MaxConnections = 3
  MaxEvents = 4
  Timeout = 1
  MaxRx = 2
  MaxClients = 2
  MaxTime = 0
  KernelFails = TRUE
  FcntlFails = TRUE
  Signals = FALSE
INVARIANTS TcpServerTypeOK MaskIsIowait CursorOnReady WakeupKept
\* A failing epoll_wait ends the program.
CHECK_DEADLOCK FALSE
