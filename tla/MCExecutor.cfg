\* Three slots: a task being polled and two that wait behind it, so that
\* queue order shows; two clones of a waker, so that one can outlive another.
SPECIFICATION Safety
CONSTANTS
  TaskId = {t1, t2, t3}
  MaxClones = 2
  None = None
INVARIANTS
  TypeOK
  QueueIsAwake
  RefsCountClones
  WakersHaveTasks
  NoDanglingUse
  PolledTaskStays
PROPERTIES
  NeverParksWithWork
  PolledInWakeOrder
