CONSTANTS
  Daemons = {d1, d2}
  Killers = {k1}
  Sessions = {s1}
  None = None
  MaxEdits = 1
  MaxDeaths = 0
SPECIFICATION Spec
CHECK_DEADLOCK FALSE
PROPERTIES StartableAfterKill
