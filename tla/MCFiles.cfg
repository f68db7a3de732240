SPECIFICATION Spec
CONSTANTS
  Procs = {p1, p2}
  Blobs <- MCBlobs
  ByteSize = 4
  SumSize = 16
  MaxStarts = 3
  MaxErrors = 1
SYMMETRY MCSymmetry
CHECK_DEADLOCK FALSE
INVARIANTS
  TypeOK
  LoadedIsWhole
  OneErrorNoticed
  RunsItsOwn
