SPECIFICATION CallsSpec
CONSTANTS
  WordBits = 6
  IntBits = 5
  StackSize = 4
  MemorySize = 1
  Pow2 <- MCPow2
  LabelNames = {}
  BucketRoom = 3
  HeapAddrs <- MCHeapAddrs
  Programs <- MCPrograms
PROPERTIES
  ImplementsCallReturn
  RetEndsCall
  OnlyCallOverruns
