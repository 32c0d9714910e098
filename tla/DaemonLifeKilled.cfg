CONSTANTS
  Daemons = {d1, d2, d3}
  Killers = {k1}
  Sessions = {s1}
  None = None
  MaxEdits = 1
  MaxDeaths = 1
SPECIFICATION Spec
CHECK_DEADLOCK FALSE
INVARIANTS OneServer ServesEverything SavedMeansSaved ListensWhereClientsLook
PROPERTIES SavedStays StartersAnswered
