CONSTANTS
  Names = {n1}
  Slots = {s1}
  None = None
  Torn = Torn
  Bad = Bad
  Unusable = Unusable
  MaxStamp = 4
  MaxStarts = 3
  MaxFaults = 2
  Restores = {TRUE}
  Reuse = FALSE
SPECIFICATION FairSpec
CHECK_DEADLOCK FALSE
PROPERTIES RestoreKeeps EventuallySaved ComesUpAndGoesDown
