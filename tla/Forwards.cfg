\* Forwards of two sandboxes, and stop, one after the other or at once.
CONSTANTS
  Pids = {1, 2, 3}
  Ids = {"s:8080", "t:9090"}
  Ports = {8080, 9090}
  PortOf <- MCPortOf
  Orders = {TRUE, FALSE}
  Faults = TRUE
  Racing = {1, 2}
  Nobody = nobody
SPECIFICATION Spec
INVARIANTS RegistryTrue SessionsRevoked
PROPERTIES SignalsForward SignalledEnds
VIEW Effective
