\* One call of run() in suspense, and a second task that may make or keep
\* the inner call busy.
SPECIFICATION ReSpec
CONSTANTS
  TaskId = {t1, t2}
  MaxClones = 1
  MaxDepth = 1
  None = None
INVARIANTS
  SuspendedTaskStays
