SPECIFICATION CallsSpec
CONSTANTS
  WordBits = 6
  IntBits = 5
  StackSize = 8
  MemorySize = 1
  Pow2 <- MCPow2
  LabelNames = {}
  BucketRoom = 3
  HeapAddrs = {}
  Programs <- MCPrograms
PROPERTIES
  ReturnDropsLocalsOnly
