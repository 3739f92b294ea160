SPECIFICATION Spec
CONSTANTS
  TaskId = {t1, t2, t3}
  MaxClones = 1
  None = None
PROPERTIES
  WokenIsPolled
  ParksUnlessWoken
  ImplementsScheduler
