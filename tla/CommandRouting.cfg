CONSTANTS
  Requests = {r1, r2}
  TUIs = {t1}
  None = None
  MaxSteps = 1
  Made = {"owned", "command", "script", "keys", "literal", "config"}
  Over = {"binary", "json"}
SPECIFICATION FairSpec
CHECK_DEADLOCK FALSE
INVARIANTS ReadBackSees AnimationsComeBack
PROPERTIES RequestsEnd Answered
