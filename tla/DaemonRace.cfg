CONSTANTS
  Pids = {1, 2}
  Clients = {c1, c2}
  Users = {u1}
  Operators = {u1}
  Timeout = 1
SPECIFICATION Spec
INVARIANT SingleDaemon
