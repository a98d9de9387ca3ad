CONSTANTS
  Daemons = {d1, d2, d3}
  Clients = {c1, c2}
  Nobody = Nobody
SPECIFICATION FairSpec
PROPERTIES BindSettles ConnectedIsHeard PromiseKept
CHECK_DEADLOCK FALSE
