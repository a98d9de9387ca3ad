SPECIFICATION BackendsSpec
CONSTANT Workers = {w1, w2}
CONSTANT Ports = {p1, p2}
CONSTANT NoPort = NoPort
CONSTANT Secrets = {s1, s2}
CONSTANT NoSecret = NoSecret
CONSTANT Foreign = {"refuses"}
INVARIANT ChannelIsOwn
INVARIANT FileServesTheStart
INVARIANT FailedStartLeavesNothing
SYMMETRY Symmetry
CHECK_DEADLOCK FALSE
