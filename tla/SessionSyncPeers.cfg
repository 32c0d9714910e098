CONSTANTS
  Clients = {"c1", "c2"}
  Writers = {"c1", "c2"}
  MaxWin = 2
  Workspaces = {1, 2}
  Names = {"n"}
  AgentStates = {"working"}
  Tiling = TRUE
  AttachedAtStart = {"c1", "c2"}
  StartRestored = FALSE
  Verbs = {"new", "close"}
  Edits = {"move"}
  MaxVersion = 3
  MaxEdits = 1
SPECIFICATION FairSpec
CHECK_DEADLOCK FALSE
INVARIANTS PeersSettle
PROPERTIES TrafficEnds
