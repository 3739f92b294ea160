SPECIFICATION Spec
CONSTANTS
  Conns = 3
  Runs = 2
  TaskId = {t1, t2, t3, t4}
  Key = {k1, k2, k3, k4}
  None = None
SYMMETRY SlotSymmetry
INVARIANTS
  NoPanic
  SleepersAreArmed
  ClonesAreBound
  ObjectsAreOwned
  RunsAreClean
