SPECIFICATION Spec
CONSTANTS
  WordBits = 6
  IntBits = 5
  StackSize = 4
  MemorySize = 2
  Pow2 <- MCPow2
  LabelNames <- MCLabelNames
  BucketRoom = 3
  HeapAddrs <- MCHeapAddrs
  Programs <- MCPrograms
INVARIANTS
  TypeOK
  ContainmentInv
PROPERTIES
  StuckForever
  LabelJumpsLand
