CONSTANTS
  Clients = {"c1", "c2"}
  Writers = {"c1", "c2"}
  MaxWin = 1
  Workspaces = {1, 2}
  Names = {"n"}
  AgentStates = {"working"}
  Tiling = FALSE
  AttachedAtStart = {"c1", "c2"}
  StartRestored = FALSE
  Verbs = {}
  Edits = {"switch", "minimize"}
  MaxVersion = 1
  MaxEdits = 2
SPECIFICATION Spec
CHECK_DEADLOCK FALSE
INVARIANTS PeersConverge
