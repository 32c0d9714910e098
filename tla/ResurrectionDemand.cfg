CONSTANTS
  Names = {n1}
  Slots = {s1}
  None = None
  Torn = Torn
  Bad = Bad
  Unusable = Unusable
  MaxStamp = 4
  MaxStarts = 2
  MaxFaults = 0
  Restores = {FALSE}
  Reuse = FALSE
SPECIFICATION Spec
CHECK_DEADLOCK FALSE
PROPERTY ChangesStay
