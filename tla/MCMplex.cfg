SPECIFICATION MplexSpec
CONSTANTS
  MaxEvents = 2
  Fds = {1, 2}
  Unpollable = {2}
  Triggers <- MCTriggers
  MaxTime = 1
INVARIANTS MplexTypeOK RingsAgree NoLostWakeup KernelAgrees
PROPERTY MovesOneHandle
