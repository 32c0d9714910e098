CONSTANTS
  Clients = {"c1"}
  Writers = {"c1"}
  MaxWin = 1
  Workspaces = {1, 2}
  Names = {"n"}
  AgentStates = {"working"}
  Tiling = FALSE
  AttachedAtStart = {"c1"}
  StartRestored = FALSE
  Verbs = {"close", "switch"}
  Edits = {"move", "leave"}
  MaxVersion = 3
  MaxEdits = 1
SPECIFICATION Spec
CHECK_DEADLOCK FALSE
PROPERTIES FocusEventsNameWindows
