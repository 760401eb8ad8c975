CONSTANTS
  Digits = 1
  ByteSize = 2
  Ram = {0, 1, 3, 4}
  Rom <- MCRom
  DataSize = 2
  RamSize = 2097152
  Probes <- MCProbes
SPECIFICATION MCSpec
INVARIANTS
  BinaryExact
  ShiftsUndone
  DecimalAddExact
  DirectPageRule
  StoredIsLoaded
  BlockMoveAgrees
PROPERTIES
  EveryWriteRecomputes
  DebuggerSparesDevices
