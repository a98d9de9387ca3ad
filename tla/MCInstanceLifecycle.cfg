CONSTANTS
  NoRequest = NoRequest
  Calls = {p}
  Streams = {s}
  Cancellers = {c1}
  Unloads = {u1, u2}
SPECIFICATION FairSpec
INVARIANTS NoneEscapesUnload DrainedMeansQuiet RepliesStayTrue
PROPERTIES RequestsEndOnce TeardownImplemented UnloadReturns CallsReturn
CHECK_DEADLOCK FALSE
