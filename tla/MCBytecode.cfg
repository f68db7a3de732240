SPECIFICATION Spec
CONSTANTS
  ByteSize = 64
  InitialCapacity = 1
  BucketRoom = 3
  LabelNames <- MCLabelNames
  Programs <- MCPrograms
INVARIANTS
  TypeOK
  BuffersHold
  DecodeAligned
  RoundTrip
  LabelsEncodeOnce
  ResolveLosesTargets
