SPECIFICATION Spec
CONSTANTS
  Conns = 2
  Runs = 2
  TaskId = {t1, t2, t3}
  Key = {k1, k2, k3}
  None = None
PROPERTIES
  Termination
  ImplementsServer
