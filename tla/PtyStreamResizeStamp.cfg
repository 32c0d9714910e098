CONSTANTS
  Clients = {"c1"}
  Sizes = {80, 100}
  InitSize = 80
  RingCap = 2
  SubCap = 4
  VtCap = 1
  MaxChunk = 1
  MaxSeq = 2
  MaxResizes = 1
  MaxGen = 2
  MayFail = FALSE
  MayDrop = FALSE
  Hasty = FALSE
SPECIFICATION Spec
CHECK_DEADLOCK FALSE
INVARIANT ResizeKeepsPosition
