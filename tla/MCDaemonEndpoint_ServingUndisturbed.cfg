CONSTANTS
  Daemons = {d1, d2, d3}
  Clients = {c1}
  Nothing = Nothing
  File = File
SPECIFICATION Spec
PROPERTY ServingUndisturbed
CHECK_DEADLOCK FALSE
