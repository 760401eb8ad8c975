CONSTANTS
  c1 = c1
  c2 = c2
  a1 = a1
  Clients <- TwoClients
  Addrs <- NoAddr
  StepClocks <- Clocks
  Depth = 2
  MaxStale = 2
  CanPause = TRUE
  CanStep = TRUE
  CanBreak = FALSE
  Serialized = TRUE
SPECIFICATION FairSpec
INVARIANTS TypeOK PauseCountsHolders StoppedWhileHeld CpuPausedAtStep
PROPERTIES StepIsOver CallsReturn ResumedRuns
