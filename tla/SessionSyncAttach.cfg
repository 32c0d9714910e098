CONSTANTS
  Clients = {"c1"}
  Writers = {"c1"}
  MaxWin = 1
  Workspaces = {1}
  Names = {"n"}
  AgentStates = {"working"}
  Tiling = FALSE
  AttachedAtStart = {}
  StartRestored = FALSE
  Verbs = {"rename"}
  Edits = {}
  MaxVersion = 2
  MaxEdits = 0
SPECIFICATION Spec
CHECK_DEADLOCK FALSE
INVARIANTS SkippedSyncsAreInTheReply
