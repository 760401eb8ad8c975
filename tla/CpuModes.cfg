CONSTANTS
  ByteSize = 4
  DataFlags = {"Z"}
  Banks = {0, 1}
SPECIFICATION Spec
INVARIANTS
  TypeOK
  ModeConsistent
  StatusRoundTrip
  InterruptReturns
  StackIsLifo
  Stack6502InPageOne
PROPERTIES
  IndexHighOnlyByBlockMove
  EmulationKeepsStackPage
