CONSTANTS
  Streams = {}
  Waits = {w1}
  Types = {"output", "exit", "closed", "created"}
  None = None
  QueueCap = 1
  MaxSeq = 5
SPECIFICATION FairSpec
CHECK_DEADLOCK FALSE
INVARIANTS MatchedIsTrue
PROPERTIES WaitsMatch
