CONSTANTS
  Clients = {"c1","c2"}
  Sizes = {80, 100}
  InitSize = 80
  RingCap = 2
  SubCap = 4
  VtCap = 1
  MaxChunk = 1
  MaxSeq = 0
  MaxResizes = 2
  MaxGen = 1
  MayFail = FALSE
  MayDrop = FALSE
  Hasty = FALSE
SPECIFICATION Spec
CHECK_DEADLOCK FALSE
INVARIANT SizesAgree
