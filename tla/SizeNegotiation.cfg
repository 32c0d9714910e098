CONSTANTS
  Clients = {c1, c2}
  Sizes = {60, 80, 100}
  InitSize = 80
  Placeholder = 80
  MaxResizes = 1
SPECIFICATION Spec
SYMMETRY Symmetry
CHECK_DEADLOCK FALSE
INVARIANTS SmallestAfterAll NoOneClamped
