SPECIFICATION Spec
CONSTANTS
  Batches = {b1}
  Pages = {}
  Widths = {2}
  FreeLevels = {1, 4}
  None = None
PROPERTIES
  BackoffShrinks
CHECK_DEADLOCK FALSE
