CONSTANTS
  Clients = {c1, c2}
  MaxNested = 1
  MaxEvents = 2
SPECIFICATION FairSpec
INVARIANTS OwnershipIsKnown PeekOnStoppedCpu
PROPERTIES PauseEndsOrDeadlocks
CHECK_DEADLOCK FALSE
