CONSTANTS
  Pids = {1, 2}
  Clients = {c1, c2}
  Users = {u1, u2}
  Operators = {u1}
  Timeout = 2
SPECIFICATION Spec
INVARIANTS AtMostOneDaemon RunningIsFindable
PROPERTIES StopMeansStopped NotRunningIsTrue CommandReturns
