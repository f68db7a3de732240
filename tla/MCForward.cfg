SPECIFICATION FairSessionSpec
CONSTANTS
  WordBits = 6
  IntBits = 5
  StackSize = 4
  MemorySize = 1
  Pow2 <- MCPow2
  LabelNames <- MCLabelNames
  BucketRoom = 4
  HeapAddrs <- MCHeapAddrs
  Programs <- MCPrograms
  WordBytes = 2
  InstBytes = 3
  MaxProgramSize = 5
  Reused <- MCReused
  MaxCalls = 5
INVARIANTS
  SessionTypeOK
  SessionContainment
  MemoryStaysZero
PROPERTIES
  ForwardTerminates
  ForwardAdvances
  RerunRepeats
  SessionLabels
