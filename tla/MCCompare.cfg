SPECIFICATION Spec
CONSTANTS
  WordBits = 5
  IntBits = 5
  StackSize = 1
  MemorySize = 1
  Pow2 <- MCPow2
  LabelNames = {}
  BucketRoom = 3
  HeapAddrs = {}
  Programs <- MCPrograms
PROPERTIES
  CompareFlagsExact
  SignedJumpsExact
  OverflowReadsAsLess
  UnsignedJumpsBlind
