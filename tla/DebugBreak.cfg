CONSTANTS
  c1 = c1
  c2 = c2
  a1 = a1
  Clients <- OneClient
  Addrs <- OneAddr
  StepClocks <- Clocks
  Depth = 2
  MaxStale = 2
  CanPause = FALSE
  CanStep = FALSE
  CanBreak = TRUE
  Serialized = TRUE
SPECIFICATION FairSpec
INVARIANTS PauseCountsHolders
PROPERTIES CallsReturn ResumedRuns
