\* Three objects compete for two registrations, so that keys are reused while
\* another object is open; two futures, so that they meet on a listener; two
\* wakers, so that a future can change tasks.
SPECIFICATION Spec
CONSTANTS
  Handle = {h1, h2, h3}
  Future = {f1, f2}
  Waker = {w1, w2}
  Key = {k1, k2}
  None = None
INVARIANTS
  TypeOK
  SlabsMatchHandles
  PendingIsArmedOrWoken
  NoWakerWithoutFuture
PROPERTY
  PollWakesAll
