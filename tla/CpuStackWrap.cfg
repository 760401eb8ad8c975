CONSTANTS
  ByteSize = 8
  DataFlags = {"Z"}
  Banks = {0, 1}
SPECIFICATION Spec
INVARIANT StackWrapsInPageOne
