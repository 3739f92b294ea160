------------------------------ MODULE Executor ------------------------------
(***************************************************************************)
(* The task executors of src/src/executor.rs, together with the reference- *)
(* counted wakers of src/src/waker.rs, running arbitrary futures.          *)
(*                                                                         *)
(* The three executors (ArgExecutor, BoxExecutor, BoxRcExecutor) share one *)
(* control structure, modelled once; `flavor' says which one runs, and the *)
(* definitions that mention it are where they differ.                      *)
(*                                                                         *)
(* The futures, and whoever holds clones of their wakers (a reactor), are  *)
(* the environment.  While its code runs - inside a poll, inside the       *)
(* destructor of a finished future, inside park(), or before run() - it    *)
(* may spawn tasks and clone, use and drop wakers in any order.  It does   *)
(* not call run() again inside run(), which the code does not rule out:    *)
(* module Reentry adds that.                                               *)
(*                                                                         *)
(* `next' is the run queue.  The code keeps it as a linked list threaded   *)
(* through the task slab; module IntrusiveLists shows that such a list is  *)
(* a sequence as long as a key is pushed only while it is unlinked, which  *)
(* QueueIsAwake below guarantees.                                          *)
(***************************************************************************)
EXTENDS Naturals, FiniteSets, SequencesExt, QueueOrder

CONSTANTS
  TaskId,      \* the slots of the task slab: 0 .. tasks_max - 1
  MaxClones,   \* bound on the outstanding clones of one waker
  None         \* no task is being polled

ASSUME TaskIdAssumption == IsFiniteSet(TaskId) /\ None \notin TaskId
ASSUME MaxClonesAssumption == MaxClones \in Nat

Flavors == {"arg", "bx", "boxrc"}

(* Where the thread that called run() is. *)
Places == {"idle",    \* outside run()
           "pick",    \* at the top of the loop of process_next
           "poll",    \* in the poll of the future of task cur
           "drop",    \* dropping the future of task cur, which is done
           "check",   \* in run(), behind process_next
           "park"}    \* in park()

(* Why the thread panicked. *)
Panics == {"none",
           "leak",    \* a waker outlived its task: ref_count() # 1
           "stale",   \* a waker was used for a slot that holds no task
           "refs",    \* a waker was dropped more often than cloned
           "borrow",  \* Tasks::data was borrowed twice
           "park",    \* park() failed
           "user"}    \* the environment's code panicked

VARIABLES
  flavor,   \* which executor this is; never changes
  tasks,    \* the occupied slots of data.nodes
  awake,    \* the tasks whose `awake' flag is set
  next,     \* data.next, front first
  refs,     \* refs[t]: EmbedWaker::refs, or the strong count of the Rc/Arc
  clones,   \* clones[t]: Waker clones for slot t the environment holds
  cur,      \* nkey in process_next
  pc,
  panic

vars == <<flavor, tasks, awake, next, refs, clones, cur, pc, panic>>

TypeOK ==
  /\ flavor \in Flavors
  /\ tasks \in SUBSET TaskId
  /\ awake \in SUBSET TaskId
  /\ next \in Seq(TaskId)
  /\ refs \in [TaskId -> 0 .. MaxClones + 1]
  /\ clones \in [TaskId -> 0 .. MaxClones]
  /\ cur \in TaskId \cup {None}
  /\ pc \in Places
  /\ panic \in Panics

(* The counter is a field of the task (EmbedWaker), created and dropped    *)
(* with it; BoxRcExecutor allocates the wakers of all slots up front.      *)
Embedded == flavor \in {"arg", "bx"}
VacantRefs == IF Embedded THEN 0 ELSE 1

Init ==
  /\ flavor \in Flavors
  /\ tasks = {}
  /\ awake = {}
  /\ next = <<>>
  /\ refs = [t \in TaskId |-> VacantRefs]
  /\ clones = [t \in TaskId |-> 0]
  /\ cur = None
  /\ pc = "idle"
  /\ panic = "none"

-----------------------------------------------------------------------------
(* The environment's code, and what it may call. *)

UserCode == panic = "none" /\ pc \in {"idle", "poll", "drop", "park"}

(* ArgExecutor drops a finished future while it holds data.borrow_mut();   *)
(* the other two executors do not.                                         *)
Borrowed == flavor = "arg" /\ pc = "drop"

(* Tasks::add, reached through spawn().  When the slab is full the call    *)
(* returns Err(()) and changes nothing.  Which vacant key the slab hands   *)
(* out is left open.                                                       *)
Add(t) ==
  /\ UserCode /\ ~ Borrowed
  /\ Cardinality(tasks) # Cardinality(TaskId)
  /\ t \notin tasks
  /\ tasks' = tasks \cup {t}
  /\ awake' = awake \cup {t}
  /\ next' = Append(next, t)
  /\ refs' = [refs EXCEPT ![t] = IF Embedded THEN 1 ELSE @]
  /\ UNCHANGED <<flavor, clones, cur, pc, panic>>

(* Mutant: a task that is awake already is moved to the back. *)
MutWakeRequeues(t) ==
  /\ awake' = awake \cup {t}
  /\ next' = Append(RemoveFirst(next, t), t)

(* Tasks::wake.  Indexing a vacant slot panics; a task that is already     *)
(* awake keeps its place in the queue.                                     *)
TasksWake(t) ==
  /\ awake' = awake \cup {t}
  /\ next' = IF t \in awake THEN next ELSE Append(RemoveFirst(next, t), t)

StaleWake(t) ==
  /\ panic' = "stale"
  /\ UNCHANGED <<awake, next, refs, clones>>

(* A waker for slot t the environment can use now: a clone, or the one in  *)
(* the Context of the poll in progress.                                    *)
Reachable(t) == clones[t] > 0 \/ (pc = "poll" /\ t = cur)

CloneWaker(t) ==
  /\ UserCode
  /\ Reachable(t)
  /\ clones[t] < MaxClones
  /\ refs' = [refs EXCEPT ![t] = @ + 1]
  /\ clones' = [clones EXCEPT ![t] = @ + 1]
  /\ UNCHANGED <<flavor, tasks, awake, next, cur, pc, panic>>

(* Mutant: dropping a clone does not give its reference back. *)
MutReleaseLeaks(t) ==
  /\ clones' = [clones EXCEPT ![t] = @ - 1]
  /\ UNCHANGED <<refs, panic>>

(* drop of a clone: assert!(refs > 1) for EmbedWaker; an Rc or Arc whose   *)
(* count reached zero would be freed under the executor's own waker.       *)
Release(t) ==
  IF refs[t] > 1
  THEN /\ refs' = [refs EXCEPT ![t] = @ - 1]
       /\ clones' = [clones EXCEPT ![t] = @ - 1]
       /\ UNCHANGED panic
  ELSE panic' = "refs" /\ UNCHANGED <<refs, clones>>

DropWaker(t) ==
  /\ UserCode
  /\ clones[t] > 0
  /\ Release(t)
  /\ UNCHANGED <<flavor, tasks, awake, next, cur, pc>>

WakeByRef(t) ==
  /\ UserCode /\ ~ Borrowed
  /\ Reachable(t)
  /\ IF t \in tasks THEN TasksWake(t) /\ UNCHANGED <<refs, clones, panic>>
                    ELSE StaleWake(t)
  /\ UNCHANGED <<flavor, tasks, cur, pc>>

(* wake: wake_by_ref, then drop of the clone. *)
Wake(t) ==
  /\ UserCode /\ ~ Borrowed
  /\ clones[t] > 0
  /\ IF t \in tasks THEN TasksWake(t) /\ Release(t)
                    ELSE StaleWake(t)
  /\ UNCHANGED <<flavor, tasks, cur, pc>>

(* A destructor that spawns or wakes under ArgExecutor borrows again. *)
DestructorReenters ==
  /\ UserCode /\ Borrowed
  /\ panic' = "borrow"
  /\ UNCHANGED <<flavor, tasks, awake, next, refs, clones, cur, pc>>

(* A future, a destructor or park() panics itself, through run(). *)
UserPanics ==
  /\ UserCode
  /\ panic' = "user"
  /\ UNCHANGED <<flavor, tasks, awake, next, refs, clones, cur, pc>>

-----------------------------------------------------------------------------
(* process_next: one loop iteration is Pick, a poll, and its end. *)

(* Mutant: the picked task is left in the run queue. *)
MutPickKeeps ==
  /\ panic = "none" /\ pc = "pick"
  /\ next # <<>>
  /\ cur' = Head(next)
  /\ awake' = awake \ {Head(next)}
  /\ pc' = "poll"
  /\ UNCHANGED <<flavor, tasks, next, refs, clones, panic>>

Pick ==
  /\ panic = "none" /\ pc = "pick"
  /\ next # <<>>
  /\ cur' = Head(next)
  /\ next' = RemoveFirst(next, Head(next))
  /\ awake' = awake \ {Head(next)}
  /\ pc' = "poll"
  /\ UNCHANGED <<flavor, tasks, refs, clones, panic>>

NothingToPick ==
  /\ panic = "none" /\ pc = "pick"
  /\ next = <<>>
  /\ pc' = "check"
  /\ UNCHANGED <<flavor, tasks, awake, next, refs, clones, cur, panic>>

(* Mutant: process_next returns after one task. *)
MutPollPendingReturns ==
  /\ panic = "none" /\ pc = "poll"
  /\ pc' = "check"
  /\ cur' = None
  /\ UNCHANGED <<flavor, tasks, awake, next, refs, clones, panic>>

(* Mutant: the awake flag is cleared behind the poll, not before it. *)
MutPollPendingForgets ==
  /\ panic = "none" /\ pc = "poll"
  /\ pc' = "pick"
  /\ cur' = None
  /\ awake' = awake \ {cur}
  /\ next' = RemoveFirst(next, cur)
  /\ UNCHANGED <<flavor, tasks, refs, clones, panic>>

PollPending ==
  /\ panic = "none" /\ pc = "poll"
  /\ pc' = "pick"
  /\ cur' = None
  /\ UNCHANGED <<flavor, tasks, awake, next, refs, clones, panic>>

PollReady ==
  /\ panic = "none" /\ pc = "poll"
  /\ pc' = "drop"
  /\ UNCHANGED <<flavor, tasks, awake, next, refs, clones, cur, panic>>

(* Mutant: the finished task is not taken out of the run queue. *)
MutTaskDoneKeepsQueue ==
  /\ panic = "none" /\ pc = "drop"
  /\ refs[cur] = 1
  /\ tasks' = tasks \ {cur}
  /\ refs' = [refs EXCEPT ![cur] = VacantRefs]
  /\ cur' = None
  /\ pc' = "pick"
  /\ UNCHANGED <<flavor, awake, next, clones, panic>>

(* Mutant: the reference count is not asserted. *)
MutTaskDoneUnchecked ==
  /\ panic = "none" /\ pc = "drop"
  /\ next' = RemoveFirst(next, cur)
  /\ tasks' = tasks \ {cur}
  /\ awake' = awake \ {cur}
  /\ refs' = [refs EXCEPT ![cur] = VacantRefs]
  /\ cur' = None
  /\ pc' = "pick"
  /\ UNCHANGED <<flavor, clones, panic>>

(* The future is gone: assert_eq!(ref_count(), 1), then remove the task    *)
(* from the run queue (it may have been woken during its last poll) and    *)
(* from the slab.                                                          *)
TaskDone ==
  /\ panic = "none" /\ pc = "drop"
  /\ IF refs[cur] # 1
     THEN panic' = "leak" /\ UNCHANGED <<tasks, awake, next, refs, cur, pc>>
     ELSE /\ next' = RemoveFirst(next, cur)
          /\ tasks' = tasks \ {cur}
          /\ awake' = awake \ {cur}
          /\ refs' = [refs EXCEPT ![cur] = VacantRefs]
          /\ cur' = None
          /\ pc' = "pick"
          /\ UNCHANGED panic
  /\ UNCHANGED <<flavor, clones>>

-----------------------------------------------------------------------------
(* run(park). *)

(* The outermost call; one inside run() is Enter of module Reentry. *)
RunStart ==
  /\ panic = "none" /\ pc = "idle"
  /\ pc' = "pick"
  /\ UNCHANGED <<flavor, tasks, awake, next, refs, clones, cur, panic>>

(* Mutant: run() polls again without parking. *)
MutRunCheckSpins ==
  /\ panic = "none" /\ pc = "check"
  /\ pc' = IF tasks = {} THEN "idle" ELSE "pick"
  /\ UNCHANGED <<flavor, tasks, awake, next, refs, clones, cur, panic>>

(* Leave the loop when the slab is empty, park otherwise. *)
RunCheck ==
  /\ panic = "none" /\ pc = "check"
  /\ pc' = IF tasks = {} THEN "idle" ELSE "park"
  /\ UNCHANGED <<flavor, tasks, awake, next, refs, clones, cur, panic>>

ParkReturn ==
  /\ panic = "none" /\ pc = "park"
  /\ \/ pc' = "pick" /\ UNCHANGED panic
     \/ panic' = "park" /\ UNCHANGED pc
  /\ UNCHANGED <<flavor, tasks, awake, next, refs, clones, cur>>

(* After a panic nothing runs. *)
Panicked == panic # "none" /\ UNCHANGED vars

-----------------------------------------------------------------------------
ProcessNext == Pick \/ NothingToPick \/ PollPending \/ PollReady \/ TaskDone
Run         == RunStart \/ RunCheck \/ ParkReturn
WakerOps    == \E t \in TaskId :
                 CloneWaker(t) \/ DropWaker(t) \/ WakeByRef(t) \/ Wake(t)
Tasks       == \/ WakerOps \/ ProcessNext \/ UserPanics
               \/ \E t \in TaskId : Add(t)

ArgExecutor   == flavor = "arg" /\ (Tasks \/ DestructorReenters \/ Run)
BoxExecutor   == flavor = "bx" /\ (Tasks \/ Run)
BoxRcExecutor == flavor = "boxrc" /\ (Tasks \/ Run)

Next == ArgExecutor \/ BoxExecutor \/ BoxRcExecutor \/ Panicked

(***************************************************************************)
(* The thread inside run() keeps running: every future's poll and every    *)
(* park() returns.  Only `run() is called again' is an assumption about    *)
(* the caller; run.rs calls it right behind the first spawn.               *)
(***************************************************************************)
Fairness ==
  /\ WF_vars(Pick) /\ WF_vars(NothingToPick)
  /\ WF_vars(PollPending \/ PollReady) /\ WF_vars(TaskDone)
  /\ WF_vars(RunStart) /\ WF_vars(RunCheck) /\ WF_vars(ParkReturn)

Safety == Init /\ [][Next]_vars
Spec == Safety /\ Fairness

-----------------------------------------------------------------------------
(***************************************************************************)
(* Properties.                                                             *)
(***************************************************************************)

(* The run queue holds exactly the tasks whose awake flag is set, each     *)
(* once, and all of them are in the slab.  Hence wake() of a task that is  *)
(* not awake pushes an unlinked node, and a finished task that was woken   *)
(* during its last poll leaves nothing in the queue.                       *)
QueueIsAwake ==
  /\ ToSet(next) = awake
  /\ IsInjective(next)
  /\ awake \subseteq tasks

(* Every counted reference is accounted for: the count of a live task is   *)
(* one (the executor's own) plus the clones outstanding, and a slot that   *)
(* is reused starts without a count left over from its last task.          *)
RefsCountClones ==
  \A t \in TaskId :
    refs[t] = IF t \in tasks THEN clones[t] + 1 ELSE VacantRefs

(* A waker never outlives its task into the next task of the slot: while   *)
(* any clone is outstanding the slot keeps its task.  The runtime assert   *)
(* on ref_count() in process_next is what enforces this.                   *)
WakersHaveTasks ==
  \A t \in TaskId : clones[t] > 0 => t \in tasks

(* Whatever the futures and the reactor do with their wakers, the          *)
(* executor never indexes a vacant slot in wake() and EmbedWaker::drop     *)
(* never finds its count exhausted.                                        *)
NoDanglingUse == panic \notin {"stale", "refs"}

(* The SAFETY comments of process_next: "task won't move/drop while this   *)
(* pointer is in use".  From the moment a task is picked until it is done  *)
(* its slot holds that task, whatever its future and the wakers do short   *)
(* of calling run() again; module Reentry says what remains true then.     *)
PolledTaskStays ==
  /\ cur # None <=> pc \in {"poll", "drop"}
  /\ cur # None => cur \in tasks

(* run() never parks while a task is awake: no wake-up is slept through.   *)
NeverParksWithWork ==
  [][pc # "park" /\ pc' = "park" => awake' = {}]_vars

(* Tasks are polled in the order they were woken: a queued task keeps its  *)
(* place relative to every other queued task, whatever wakes arrive; a     *)
(* newly woken one goes behind all of them; and the one polled is the      *)
(* first.                                                                  *)
PolledInWakeOrder ==
  [][/\ \A t, u \in awake \cap awake' :
           Before(next, t, u) => Before(next', t, u)
     /\ \A t \in awake \cap awake', u \in awake' \ awake : Before(next', t, u)
     /\ cur' \notin {cur, None} => cur' = Head(next)]_vars

(* A task that is spawned or woken is polled, whatever the other tasks do: *)
(* also when they wake themselves in every poll.                           *)
WokenIsPolled ==
  \A t \in TaskId : (t \in awake) ~> (cur = t \/ panic # "none")

(* Only futures that go on waking tasks or spawning new ones can keep      *)
(* run() from parking, and thereby from I/O: otherwise process_next works  *)
(* off its queue, and run() parks or returns again and again.              *)
WokenInPoll == pc \in {"poll", "drop"} /\ awake' \ awake # {}
ParksUnlessWoken ==
  \/ []<>(pc \in {"park", "idle"} \/ panic # "none")
  \/ []<><<WokenInPoll>>_vars

(* All three executors implement the abstract scheduler. *)
S == INSTANCE Scheduler WITH ready <- awake, halted <- (panic # "none")
ImplementsScheduler == S!Spec
SchedulerSafety == S!Safety
=============================================================================
