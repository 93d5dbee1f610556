\* The time out that does not wait for the time mod_timer set.
SPECIFICATION TcpServerSpec
CONSTANTS
  MaxConnections = 2
  MaxEvents = 3
  Timeout = 2
  MaxRx = 1
  MaxClients = 1
  MaxTime = 3
  KernelFails = FALSE
  FcntlFails = FALSE
  Signals = FALSE
INVARIANT TimerIsDue
