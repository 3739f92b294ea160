\* Four connections: the first ends while the fourth is accepted, so that keys
\* and poll indices are reused within a run; two runs on the same slabs.
SPECIFICATION Spec
CONSTANTS
  Conns = 4
  Runs = 2
  None = None
INVARIANTS
  NeedsAreConns
  ItemsMatchConns
  RunsAreClean
PROPERTIES
  Termination
  ImplementsServer
