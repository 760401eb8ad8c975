CONSTANTS
  t1 = t1
  t2 = t2
  e1 = e1
  e2 = e2
  Threads <- TwoThreads
  Events <- TwoEvents
  Costs <- CostsOneTwo
  FrameLengths <- Frames
  MaxCycle = 4
  HasQueue = TRUE
  QuietStart = TRUE
SPECIFICATION Spec
INVARIANTS TypeOK TargetTracksFront StopsAtFrameEnd
PROPERTIES MaskedIrqHeld ImplementsSchedule
SYMMETRY Symmetric
