CONSTANTS
  TilesPerLine = 1
  SpritesPerLine = 1
  CopyDots <- MCCopyDots
  VisibleLines = 3
  TotalLines = 5
  SpriteHeight = 1
  Scrolls <- MCScrolls
  Addrs = {47}
  SpriteLines = {1}
  DotsPerClock = 3
  Lengths = {3}
  InterruptClocks = 5
  DmaClocks = 6
  MaxAccesses = 3
SPECIFICATION Spec
INVARIANTS NmiOncePerVblank ScrollFollowsLine
PROPERTIES LazyIsEager
