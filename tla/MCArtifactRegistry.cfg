CONSTANTS
  Calls = {c1, c2, c3, c4}
  Paths = {p}
  Versions = {v1, v2, junk}
  Containers = {v1, v2}
  Absent = Absent
  None = None
SPECIFICATION Spec
SYMMETRY Symmetry
INVARIANTS LoadedWasInspected OneIdentifier MetadataFollows
CHECK_DEADLOCK FALSE
