CONSTANTS
  Clients = {"c1"}
  Sizes = {80, 100}
  InitSize = 80
  RingCap = 2
  SubCap = 3
  VtCap = 1
  MaxChunk = 2
  MaxSeq = 3
  MaxResizes = 1
  MaxGen = 2
  MayFail = FALSE
  MayDrop = TRUE
  Hasty = FALSE
SPECIFICATION FairSpec
CHECK_DEADLOCK FALSE
INVARIANTS SeamExact LaidAsRead ViewExact
PROPERTIES PaneCatchesUp LostClientsUnsubscribed
