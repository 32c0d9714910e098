CONSTANTS
  Names = {n1}
  Slots = {s1, s2}
  None = None
  Torn = Torn
  Bad = Bad
  Unusable = Unusable
  MaxStamp = 4
  MaxStarts = 2
  MaxFaults = 0
  Restores = {FALSE}
  Reuse = TRUE
SPECIFICATION Spec
CHECK_DEADLOCK FALSE
INVARIANT QuietMeansSaved
