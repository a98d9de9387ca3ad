CONSTANTS
  Capacity = 2
  MaxTexts = 4
  MaxBatch = 2
SPECIFICATION Spec
PROPERTY CancelledEnds
CHECK_DEADLOCK FALSE
