\* The time out of the connections: alarms, stale entries, reused handles,
\* with clients that may say nothing for ever; and the liveness of the loop.
SPECIFICATION FairSpec
CONSTANTS
  MaxConnections = 2
  MaxEvents = 3
  Timeout = 1
  MaxRx = 1
  MaxClients = 2
  MaxTime = 3
  KernelFails = FALSE
  FcntlFails = FALSE
  Signals = FALSE
INVARIANT LifetimeBounded
PROPERTIES EveryConnectionCloses PassEnds InputRead ClientAccepted
