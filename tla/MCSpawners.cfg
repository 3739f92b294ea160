\* Two executors that swap two spawners, one of them dropped and its address
\* taken by the third; one spare address to move to; full and not full.
SPECIFICATION Spec
CONSTANTS
  Exec = {e1, e2, e3}
  Spawner = {s1, s2}
  Address = {a1, a2, a3}
  TasksMax = 1
  None = None
INVARIANTS
  SetMeansHome
  UnsetMeansHomeless
  WildMeansForsaken
