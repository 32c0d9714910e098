CONSTANTS
  Daemons = {d1}
  Killers = {k1, k2}
  Sessions = {s1}
  None = None
  MaxEdits = 1
  MaxDeaths = 0
SPECIFICATION Spec
CHECK_DEADLOCK FALSE
INVARIANTS SavedMeansSaved
