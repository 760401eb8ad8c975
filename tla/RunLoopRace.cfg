CONSTANTS
  t1 = t1
  t2 = t2
  e1 = e1
  e2 = e2
  Threads <- OneThread
  Events <- OneEvent
  Costs <- CostsOneTwo
  FrameLengths <- Frames
  MaxCycle = 4
  HasQueue = TRUE
  QuietStart = FALSE
SPECIFICATION AdvancingSpec
INVARIANTS StopsAtFrameEnd
PROPERTIES DueFires NmiTaken
