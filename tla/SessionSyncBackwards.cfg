CONSTANTS
  Clients = {"c1"}
  Writers = {"c1"}
  MaxWin = 1
  Workspaces = {1}
  Names = {"n"}
  AgentStates = {"working"}
  Tiling = FALSE
  AttachedAtStart = {"c1"}
  StartRestored = FALSE
  Verbs = {"rename"}
  Edits = {}
  MaxVersion = 3
  MaxEdits = 0
SPECIFICATION Spec
CHECK_DEADLOCK FALSE
PROPERTIES NeverBackwards
