SPECIFICATION Spec
CONSTANTS
  WordBits = 6
  IntBits = 5
  StackSize = 4
  MemorySize = 2
  Pow2 <- MCPow2
  LabelNames = {}
  BucketRoom = 3
  HeapAddrs = {}
  Programs <- MCPop
PROPERTIES
  PopTakesOne
