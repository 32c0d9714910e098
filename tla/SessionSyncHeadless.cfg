CONSTANTS
  Clients = {"c1"}
  Writers = {"c1"}
  MaxWin = 2
  Workspaces = {1, 2}
  Names = {"n"}
  AgentStates = {"working"}
  Tiling = FALSE
  AttachedAtStart = {}
  StartRestored = TRUE
  Verbs = {"new", "close", "rename", "label", "agent", "focus", "cycle", "move", "switch", "minimize"}
  Edits = {"focus", "switch", "leave", "minimize"}
  MaxVersion = 3
  MaxEdits = 2
SPECIFICATION Spec
CHECK_DEADLOCK FALSE
INVARIANTS PictureFollows FocusIsOpen WindowsAreTheDaemons
PROPERTIES OwnedMovesWithVersion
