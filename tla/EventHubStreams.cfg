CONSTANTS
  Streams = {s1, s2}
  Waits = {}
  Types = {"output"}
  None = None
  QueueCap = 2
  MaxSeq = 4
SPECIFICATION FairSpec
CHECK_DEADLOCK FALSE
INVARIANTS StreamWhole
PROPERTIES LinesInTurn StreamsSettle
