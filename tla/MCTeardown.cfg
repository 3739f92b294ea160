\* Two connections, so that the listen task and a connection sleep while the
\* other one is polled; two runs, either of which a fault interrupts in
\* every counted call.
SPECIFICATION TearSpec
CONSTANTS
  Conns = 2
  Runs = 2
  TaskId = {t1, t2, t3}
  Key = {k1, k2, k3}
  None = None
INVARIANTS
  TearTypeOK
  NoUseAfterFree
  ReturnIsClean
  CountsSurvive
  LeaksUntilAllAccepted
  AssertionFailsOnlyAfter
