CONSTANTS
  Names = {n1, n2}
  Slots = {s1, s2}
  None = None
  Torn = Torn
  Bad = Bad
  Unusable = Unusable
  MaxStamp = 3
  MaxStarts = 2
  MaxFaults = 1
  Restores = {TRUE, FALSE}
  Reuse = FALSE
SPECIFICATION Spec
CHECK_DEADLOCK FALSE
INVARIANTS QuietMeansSaved StoppedIsSaved KilledStaysKilled
PROPERTIES SavesAreAtomic
