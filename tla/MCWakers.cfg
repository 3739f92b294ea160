\* Two threads beside the owner, so that two foreign updates can overlap.
\* Another thread does with a checked waker only what does not consume it.
\* The clients may stop using the waker: a state without a step is no error.
SPECIFICATION Spec
CONSTANTS
  Thread = {o, p, q}
  Owner = o
  CheckedOps = {"clone", "wake_by_ref"}
  Clone = {c1, c2, c3, c4}
  None = None
INVARIANT
  CountIsExact
CHECK_DEADLOCK FALSE
