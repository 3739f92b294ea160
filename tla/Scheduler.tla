----------------------------- MODULE Scheduler ------------------------------
(***************************************************************************)
(* What the executors of src/src/executor.rs promise, whatever futures     *)
(* they run: a spawned or woken task is polled, in some order, one task at *)
(* a time; a wake that arrives while the task is being polled is not lost; *)
(* a task leaves only by completing while it is polled; and no task that   *)
(* stays ready is passed over for ever.  An executor may abort (a Rust     *)
(* panic); nothing happens after that.                                     *)
(***************************************************************************)
CONSTANTS
  TaskId,   \* task slots
  None

VARIABLES
  tasks,    \* the slots that hold a task
  ready,    \* the tasks that wait to be polled
  cur,      \* the task being polled, or None
  halted    \* the executor has aborted

vars == <<tasks, ready, cur, halted>>

Init == tasks = {} /\ ready = {} /\ cur = None /\ halted = FALSE

(* A new task is ready at once. *)
Spawn(t) ==
  /\ t \notin tasks
  /\ tasks' = tasks \cup {t}
  /\ ready' = ready \cup {t}
  /\ UNCHANGED <<cur, halted>>

(* A wake reaches a task, the one being polled included. *)
Wake(t) ==
  /\ t \in tasks
  /\ ready' = ready \cup {t}
  /\ UNCHANGED <<tasks, cur, halted>>

Poll(t) ==
  /\ cur = None
  /\ t \in ready
  /\ cur' = t
  /\ ready' = ready \ {t}
  /\ UNCHANGED <<tasks, halted>>

(* The poll ends with Pending: a wake received meanwhile stays in ready. *)
Pending(t) ==
  /\ cur = t
  /\ cur' = None
  /\ UNCHANGED <<tasks, ready, halted>>

(* The poll ends with Ready: the task is gone, wakes it received included. *)
Complete(t) ==
  /\ cur = t
  /\ cur' = None
  /\ tasks' = tasks \ {t}
  /\ ready' = ready \ {t}
  /\ UNCHANGED halted

Halt ==
  /\ halted' = TRUE
  /\ UNCHANGED <<tasks, ready, cur>>

Next ==
  /\ ~ halted
  /\ \/ \E t \in TaskId :
           Spawn(t) \/ Wake(t) \/ Poll(t) \/ Pending(t) \/ Complete(t)
     \/ Halt

Safety == Init /\ [][Next]_vars

(* No task that is again and again ready to be polled is starved. *)
NoStarvation == \A t \in TaskId : SF_vars(~ halted /\ Poll(t))

Spec == Safety /\ NoStarvation
=============================================================================
