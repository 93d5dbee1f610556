SPECIFICATION RingSpec
CONSTANT MaxEvents = 4
INVARIANT RingInv
PROPERTY ImplementsQueue
