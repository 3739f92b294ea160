------------------------------- MODULE Reentry -------------------------------
(***************************************************************************)
(* run() called again inside run().  All three executors take &self there, *)
(* so that whatever can reach the executor - a future of BoxRcExecutor     *)
(* that owns an Rc of it, like listen_rc, or the closure passed as park -  *)
(* may call run() while an outer call is suspended in a poll, in the drop  *)
(* of a finished future or in park().  Nothing in src/src does; module     *)
(* Executor leaves it out, and this module adds it.                        *)
(*                                                                         *)
(* The variables of Executor are those of the innermost call.  A call in   *)
(* suspense keeps nkey and the pointers to its task and future.  An inner  *)
(* run() returns only when the slab is empty, so that a run() called from  *)
(* a poll returns only when it has removed the task being polled.          *)
(***************************************************************************)
EXTENDS Executor

CONSTANT MaxDepth   \* bound on the calls of run() in suspense

VARIABLES
  frames,   \* the calls in suspense, outermost first: where each one is
  again,    \* tasks an inner call picked while they were in suspense
  lost      \* a future or pointer was used that was dropped meanwhile

reVars == <<vars, frames, again, lost>>

Frame == [cur : TaskId \cup {None}, pc : {"poll", "drop", "park"}]

ReInit ==
  /\ Init
  /\ frames = <<>> /\ again = {} /\ lost = FALSE

InSuspense == {frames[i].cur : i \in DOMAIN frames} \ {None}
DropInSuspense(t) == \E i \in DOMAIN frames : frames[i] = [cur |-> t, pc |-> "drop"]

(* run() is called by code that runs inside run(). *)
Enter ==
  /\ UserCode /\ pc # "idle" /\ ~ Borrowed
  /\ Len(frames) < MaxDepth
  /\ frames' = Append(frames, [cur |-> cur, pc |-> pc])
  /\ cur' = None
  /\ pc' = "pick"
  /\ UNCHANGED <<flavor, tasks, awake, next, refs, clones, panic, again, lost>>

(* process_next picks a task that another call may be polling.  One that   *)
(* is being dropped still has its future, whose poll is then undefined.    *)
PickAny ==
  /\ Pick
  /\ again' = again \cup (InSuspense \cap {cur'})
  /\ lost' = DropInSuspense(cur')
  /\ UNCHANGED frames

(* The inner run() returns and the call behind it goes on, with the task   *)
(* and future it pointed to, if it is not in park().                       *)
Resume ==
  /\ panic = "none" /\ pc = "check" /\ tasks = {}
  /\ frames # <<>>
  /\ cur' = Last(frames).cur
  /\ pc' = Last(frames).pc
  /\ frames' = Front(frames)
  /\ lost' = (cur' # None /\ cur' \notin tasks)
  /\ UNCHANGED <<flavor, tasks, awake, next, refs, clones, panic, again>>

(* The park closure of the inner call may borrow the Context of the poll   *)
(* that made the call, and wake through it.                                *)
WakeOuter(t) ==
  /\ UserCode /\ pc = "park"
  /\ \E i \in DOMAIN frames : frames[i] = [cur |-> t, pc |-> "poll"]
  /\ IF t \in tasks THEN TasksWake(t) ELSE UNCHANGED <<awake, next>>
  /\ lost' = (t \notin tasks)
  /\ UNCHANGED <<flavor, tasks, refs, clones, cur, pc, panic, frames, again>>

(* The steps of the innermost call that are as in Executor. *)
Inner ==
  /\ Next
  /\ pc = "pick" => next = <<>>                      \* PickAny otherwise
  /\ pc = "check" => tasks # {} \/ frames = <<>>     \* Resume otherwise
  /\ UNCHANGED <<frames, again, lost>>

Lost == lost /\ UNCHANGED reVars

ReNext ==
  \/ /\ ~ lost
     /\ \/ Inner \/ PickAny \/ Enter \/ Resume
        \/ \E t \in TaskId : WakeOuter(t)
  \/ Lost

ReSpec == ReInit /\ [][ReNext]_reVars

-----------------------------------------------------------------------------
(***************************************************************************)
(* Properties.                                                             *)
(***************************************************************************)

(* The SAFETY comment of process_next says of task_ptr: "task won't        *)
(* move/drop while this pointer is in use", because "the only place we     *)
(* remove the pointed-to item is at the end of this function, after we are *)
(* no longer using the pointer".  Then the task of a call in suspense      *)
(* would keep its slot.                                                    *)
SuspendedTaskStays == InSuspense \subseteq tasks

(* What does hold: only a task that an inner call has polled, that is one  *)
(* that was woken before or during that call, loses its slot.              *)
LostOnlyIfPolledAgain == InSuspense \subseteq tasks \cup again
==============================================================================
