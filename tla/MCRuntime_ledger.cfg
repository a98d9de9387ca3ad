CONSTANTS
  a = a  b = b  c = c
  NoModel = NoModel
  NoBudget = NoBudget
  Models <- ThreeModels
  Footprint <- ThreeFootprints
  MaxInstances = 2
  MaxBytes = 4
  U64Max = 4
  Unloads = {u1, u2}
SPECIFICATION FairSpec
INVARIANTS LimitsHeld
PROPERTIES CapacityKept TeardownsKept ClaimsSettle UnloadedIsReleased
CHECK_DEADLOCK FALSE
