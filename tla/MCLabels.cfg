SPECIFICATION Spec
CONSTANTS
  Names = {"loop", "end"}
  Hash <- MCHash
  InitialBuckets = 2
  InitialLog2 = 1
  Threshold = 3
  MaxEntries = 9
INVARIANTS
  TypeOK
  Fsck
  DuplicateLookup
  NothingDangles
PROPERTIES
  ImplementsLabelMap
  EachEntryOnce
  CallsReturn
