------------------------------- MODULE Wakers -------------------------------
(***************************************************************************)
(* The wakers BoxRcExecutor can use (src/src/waker.rs), and threads: one   *)
(* waker, its clones and its strong count.                                 *)
(*                                                                         *)
(*   rc      raw_waker: an Rc.  "Using such a waker from another thread    *)
(*           would cause undefined behavior" (README.md:35): its clones    *)
(*           stay on the executor's thread.                                *)
(*   chkrc   checked_raw_waker: an Rc whose operations compare thread ids. *)
(*   arc     std's waker for Arc<impl Wake>.  Clones may be counted on any *)
(*           thread; waking reaches the executor's RefCell through an Rc,  *)
(*           so that it stays on the executor's thread.                    *)
(*                                                                         *)
(* An Rc updates its count by a load and a store, between which another    *)
(* thread may run; an Arc does it in one step.  What waking does to the    *)
(* task is in module Executor.                                             *)
(***************************************************************************)
EXTENDS Integers, FiniteSets

CONSTANTS
  Thread, Owner,   \* the threads, and the one that runs the executor
  CheckedOps,      \* what other threads do with a checked waker
  Clone,           \* the clones that can be outstanding at a time (a bound)
  None

OpNames == {"clone", "wake", "wake_by_ref", "drop"}

ASSUME ThreadAssumption ==
  Owner \in Thread /\ None \notin Thread /\ CheckedOps \subseteq OpNames
ASSUME CloneAssumption == IsFiniteSet(Clone)

VARIABLES
  kind,     \* which waker this is; never changes
  count,    \* the strong count
  holder,   \* clone |-> the thread that owns it, or None
  update,   \* update[th]: the update of the count in progress: what was
            \* loaded, and what will be added; or no update
  dead      \* threads that panicked (dropping a clone while unwinding would
            \* panic again, which aborts: what they hold stays as it is)

vars == <<kind, count, holder, update, dead>>

NoUpdate == [seen |-> 0, add |-> 0]

TypeOK ==
  /\ kind \in {"rc", "chkrc", "arc"}
  /\ count \in Nat
  /\ holder \in [Clone -> Thread \cup {None}]
  /\ update \in [Thread -> [seen : Int, add : {-1, 0, 1}]]
  /\ dead \subseteq Thread

Init ==
  /\ kind \in {"rc", "chkrc", "arc"}
  /\ count = 1                       \* the executor's own
  /\ holder = [c \in Clone |-> None]
  /\ update = [th \in Thread |-> NoUpdate]
  /\ dead = {}

Outstanding == {c \in Clone : holder[c] # None}
Held(th) == {c \in Clone : holder[c] = th}

(* The assumption on clients.  TaskWaker is Send and Sync because "we      *)
(* promise to not send wakers across threads": an Rc waker stays on its    *)
(* thread, a checked one enforces that by itself, and an Arc waker, whose  *)
(* count is safe to share, is not woken elsewhere.                         *)
Permitted(th) ==
  IF th = Owner THEN OpNames
  ELSE CASE kind = "rc"    -> {}
         [] kind = "chkrc" -> CheckedOps
         [] kind = "arc"   -> {"clone", "drop"}

CanCall(th, op) == th \notin dead /\ update[th] = NoUpdate /\ op \in Permitted(th)

(* Mutant: the checked waker does not check. *)
MutNoCheck(th) == FALSE

(* check_thread panics. *)
CheckFails(th) == kind = "chkrc" /\ th # Owner

(* Add n to the count: at once, or load now and store later. *)
UpdateCount(th, n) ==
  IF kind = "arc"
  THEN count' = count + n /\ UNCHANGED update
  ELSE update' = [update EXCEPT ![th] = [seen |-> count, add |-> n]] /\ UNCHANGED count

StoreCount(th) ==
  /\ update[th] # NoUpdate
  /\ count' = update[th].seen + update[th].add
  /\ update' = [update EXCEPT ![th] = NoUpdate]
  /\ UNCHANGED <<kind, holder, dead>>

(* clone_waker.  The checked one looks at the Rc through a ManuallyDrop:   *)
(* when the check fails the count is not touched.  The thread that clones  *)
(* does nothing with the clone before it is counted.                       *)
CloneWaker(th, c) ==
  /\ CanCall(th, "clone")
  /\ th = Owner \/ Held(th) # {}      \* the owner has the executor's own
  /\ c \notin Outstanding
  /\ IF CheckFails(th)
     THEN dead' = dead \cup {th} /\ UNCHANGED <<count, update, holder>>
     ELSE UpdateCount(th, 1) /\ holder' = [holder EXCEPT ![c] = th] /\ UNCHANGED dead
  /\ UNCHANGED kind

(* wake_by_ref, also through a ManuallyDrop, matters here only when the    *)
(* check fails.                                                            *)
WakeByRef(th) ==
  /\ CanCall(th, "wake_by_ref")
  /\ Held(th) # {} /\ CheckFails(th)
  /\ dead' = dead \cup {th}
  /\ UNCHANGED <<kind, count, holder, update>>

(* wake and drop_waker own the Rc from the first line on: when the check   *)
(* fails, unwinding drops it, on the thread that failed the check.         *)
Consume(th, op, c) ==
  /\ CanCall(th, op)
  /\ holder[c] = th
  /\ holder' = [holder EXCEPT ![c] = None]
  /\ UpdateCount(th, -1)
  /\ dead' = IF CheckFails(th) THEN dead \cup {th} ELSE dead
  /\ UNCHANGED kind

Wake(th, c) == Consume(th, "wake", c)
DropWaker(th, c) == Consume(th, "drop", c)

(* A Waker is Send: it can be moved to a thread that may use it. *)
Send(c, from, to) ==
  /\ from # to /\ holder[c] = from
  /\ from \notin dead /\ update[from] = NoUpdate
  /\ to \notin dead
  /\ Permitted(to) # {}
  /\ holder' = [holder EXCEPT ![c] = to]
  /\ UNCHANGED <<kind, count, update, dead>>

Next ==
  \E th \in Thread :
    \/ WakeByRef(th) \/ StoreCount(th)
    \/ \E c \in Clone : \/ CloneWaker(th, c) \/ Wake(th, c) \/ DropWaker(th, c)
                       \/ \E to \in Thread : Send(c, th, to)

Spec == Init /\ [][Next]_vars

-----------------------------------------------------------------------------
(* The strong count is the executor's own waker plus the clones that       *)
(* exist, whatever threads do: this is what the assertion on the count     *)
(* behind every finished task relies on, and what "safe" means of the      *)
(* checked waker, which "has thread-affinity and panics if it is used from *)
(* another thread" (README.md:36), in contrast to the unchecked one.       *)
CountIsExact ==
  (\A th \in Thread : update[th] = NoUpdate) => count = 1 + Cardinality(Outstanding)
=============================================================================
