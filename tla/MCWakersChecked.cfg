\* Another thread does with a checked waker whatever it likes.
SPECIFICATION Spec
CONSTANTS
  Thread = {o, p}
  Owner = o
  CheckedOps = {"clone", "wake", "wake_by_ref", "drop"}
  Clone = {c1, c2}
  None = None
INVARIANT
  CountIsExact
CHECK_DEADLOCK FALSE
