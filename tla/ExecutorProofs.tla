--------------------------- MODULE ExecutorProofs ---------------------------
(***************************************************************************)
(* Proofs about modules Executor and Reentry, for every capacity of the    *)
(* slab, every number of outstanding waker clones, every depth of nested   *)
(* calls of run() and all three executors.                                 *)
(***************************************************************************)
EXTENDS Reentry, DataLemmas

(* process_next returns only when the run queue is empty. *)
QueueDrained == pc = "check" => next = <<>>

(* The inductive invariant. *)
Inv ==
  /\ TypeOK
  /\ QueueIsAwake
  /\ RefsCountClones
  /\ WakersHaveTasks
  /\ NoDanglingUse
  /\ PolledTaskStays
  /\ QueueDrained

-----------------------------------------------------------------------------
(* The invariant holds in the state Tasks::new builds. *)
LEMMA InitInv == Init => Inv
<1> SUFFICES ASSUME Init PROVE Inv
  OBVIOUS
<1> USE TaskIdAssumption, MaxClonesAssumption DEF Init
<1>1. TypeOK
  BY DEF TypeOK, VacantRefs, Flavors, Places, Panics
<1>2. QueueIsAwake
  BY DEF QueueIsAwake, ToSet, IsInjective
<1>3. RefsCountClones /\ WakersHaveTasks /\ NoDanglingUse
  BY DEF RefsCountClones, WakersHaveTasks, NoDanglingUse
<1>4. PolledTaskStays /\ QueueDrained
  BY DEF PolledTaskStays, QueueDrained
<1> QED
  BY <1>1, <1>2, <1>3, <1>4 DEF Inv

(* Tasks::add: the new task is queued once, behind the others. *)
LEMMA AddInv ==
  ASSUME Inv, NEW t \in TaskId, Add(t)
  PROVE  Inv'
<1> USE TaskIdAssumption, MaxClonesAssumption DEF Inv, Add
<1>1. t \notin ToSet(next)
  BY DEF QueueIsAwake
<1>2. /\ next' \in Seq(TaskId)
      /\ ToSet(next') = ToSet(next) \cup {t}
      /\ IsInjective(next')
  BY <1>1, AppendNewProperties DEF TypeOK, QueueIsAwake
<1>3. TypeOK'
  BY <1>2 DEF TypeOK
<1>4. QueueIsAwake'
  BY <1>2 DEF QueueIsAwake
<1>5. clones[t] = 0
  BY DEF WakersHaveTasks, TypeOK
<1>6. RefsCountClones' /\ WakersHaveTasks'
  BY <1>5 DEF RefsCountClones, WakersHaveTasks, TypeOK, VacantRefs, Embedded
<1>7. NoDanglingUse' /\ PolledTaskStays' /\ QueueDrained'
  BY DEF NoDanglingUse, PolledTaskStays, QueueDrained, UserCode
<1> QED
  BY <1>3, <1>4, <1>6, <1>7

(* Tasks::wake of a live task keeps the queue in step with the flags. *)
LEMMA TasksWakeQueue ==
  ASSUME Inv, NEW t \in tasks, TasksWake(t), UNCHANGED tasks
  PROVE  /\ next' \in Seq(TaskId)
         /\ awake' \in SUBSET TaskId
         /\ QueueIsAwake'
<1> USE DEF Inv, TasksWake
<1>0. t \in TaskId
  BY DEF TypeOK
<1>1. CASE t \in awake
  BY <1>0, <1>1 DEF QueueIsAwake, TypeOK
<1>2. CASE t \notin awake
  <2>1. t \notin ToSet(next) /\ IsInjective(next) /\ next \in Seq(TaskId)
    BY <1>2 DEF QueueIsAwake, TypeOK
  <2>2. next' = Append(next, t)
    BY <1>2, <2>1, RemoveAbsent
  <2>3. /\ Append(next, t) \in Seq(TaskId)
        /\ ToSet(Append(next, t)) = ToSet(next) \cup {t}
        /\ IsInjective(Append(next, t))
    BY <1>0, <2>1, AppendNewProperties
  <2> QED
    BY <1>0, <2>2, <2>3 DEF QueueIsAwake, TypeOK
<1> QED
  BY <1>1, <1>2

(* Dropping a clone: the count never runs out. *)
LEMMA ReleaseRefs ==
  ASSUME Inv, NEW t \in TaskId, clones[t] > 0, Release(t), UNCHANGED <<tasks, flavor>>
  PROVE  /\ refs' \in [TaskId -> 0 .. MaxClones + 1] /\ clones' \in [TaskId -> 0 .. MaxClones]
         /\ UNCHANGED panic
         /\ RefsCountClones' /\ WakersHaveTasks'
<1> USE MaxClonesAssumption DEF Inv
<1>1. t \in tasks /\ refs[t] = clones[t] + 1 /\ clones[t] \in 0 .. MaxClones
  BY DEF WakersHaveTasks, RefsCountClones, TypeOK
<1>2. /\ refs' = [refs EXCEPT ![t] = @ - 1]
      /\ clones' = [clones EXCEPT ![t] = @ - 1]
      /\ UNCHANGED panic
  BY <1>1 DEF Release
<1>3. refs' \in [TaskId -> 0 .. MaxClones + 1] /\ clones' \in [TaskId -> 0 .. MaxClones]
  BY <1>1, <1>2 DEF TypeOK
<1>4. RefsCountClones' /\ WakersHaveTasks'
  BY <1>1, <1>2 DEF RefsCountClones, WakersHaveTasks, TypeOK, VacantRefs, Embedded
<1> QED
  BY <1>2, <1>3, <1>4

(* clone: one more reference, one more clone. *)
LEMMA CloneWakerInv ==
  ASSUME Inv, NEW t \in TaskId, CloneWaker(t)
  PROVE  Inv'
<1> USE MaxClonesAssumption DEF Inv, CloneWaker
<1>1. t \in tasks
  BY DEF Reachable, WakersHaveTasks, PolledTaskStays, TypeOK, UserCode
<1>2. TypeOK'
  <2>0. refs[t] = clones[t] + 1 /\ clones[t] \in 0 .. MaxClones
    BY <1>1 DEF RefsCountClones, TypeOK
  <2>1. refs' \in [TaskId -> 0 .. MaxClones + 1]
    BY <2>0 DEF TypeOK
  <2>2. clones[t] + 1 \in 0 .. MaxClones
    BY DEF TypeOK
  <2>3. clones' \in [TaskId -> 0 .. MaxClones]
    BY <2>2 DEF TypeOK
  <2> QED
    BY <2>1, <2>3 DEF TypeOK
<1>3. RefsCountClones' /\ WakersHaveTasks'
  BY <1>1 DEF RefsCountClones, WakersHaveTasks, TypeOK, VacantRefs, Embedded
<1>4. QueueIsAwake' /\ NoDanglingUse' /\ PolledTaskStays' /\ QueueDrained'
  BY DEF QueueIsAwake, NoDanglingUse, PolledTaskStays, QueueDrained
<1> QED
  BY <1>2, <1>3, <1>4

(* drop: one reference and one clone less. *)
LEMMA DropWakerInv ==
  ASSUME Inv, NEW t \in TaskId, DropWaker(t)
  PROVE  Inv'
<1> USE DEF DropWaker
<1>1. /\ refs' \in [TaskId -> 0 .. MaxClones + 1] /\ clones' \in [TaskId -> 0 .. MaxClones]
      /\ UNCHANGED panic
      /\ RefsCountClones' /\ WakersHaveTasks'
  BY ReleaseRefs
<1>2. TypeOK'
  BY <1>1 DEF Inv, TypeOK
<1>3. QueueIsAwake' /\ NoDanglingUse' /\ PolledTaskStays' /\ QueueDrained'
  BY <1>1 DEF Inv, QueueIsAwake, NoDanglingUse, PolledTaskStays, QueueDrained
<1> QED
  BY <1>1, <1>2, <1>3 DEF Inv

(* A waker the environment can reach belongs to a live task. *)
LEMMA ReachableIsLive ==
  ASSUME Inv, NEW t \in TaskId, Reachable(t)
  PROVE  t \in tasks
  BY DEF Inv, Reachable, WakersHaveTasks, PolledTaskStays, TypeOK

(* wake_by_ref changes the queue and the flags only. *)
LEMMA WakeByRefInv ==
  ASSUME Inv, NEW t \in TaskId, WakeByRef(t)
  PROVE  Inv'
<1>1. t \in tasks /\ TasksWake(t) /\ UNCHANGED <<refs, clones, panic>>
  BY ReachableIsLive DEF WakeByRef
<1>2. UNCHANGED <<flavor, tasks, cur, pc>> /\ UserCode
  BY DEF WakeByRef
<1>3. next' \in Seq(TaskId) /\ awake' \in SUBSET TaskId /\ QueueIsAwake'
  BY <1>1, <1>2, TasksWakeQueue
<1>4. TypeOK'
  BY <1>1, <1>2, <1>3 DEF Inv, TypeOK
<1>5. RefsCountClones' /\ WakersHaveTasks' /\ NoDanglingUse'
  BY <1>1, <1>2 DEF Inv, RefsCountClones, WakersHaveTasks, NoDanglingUse,
                    VacantRefs, Embedded
<1>6. PolledTaskStays' /\ QueueDrained'
  BY <1>2 DEF Inv, PolledTaskStays, QueueDrained, UserCode
<1> QED
  BY <1>3, <1>4, <1>5, <1>6 DEF Inv

(* wake is wake_by_ref followed by drop. *)
LEMMA WakeInv ==
  ASSUME Inv, NEW t \in TaskId, Wake(t)
  PROVE  Inv'
<1>1. t \in tasks /\ TasksWake(t) /\ Release(t)
  BY DEF Wake, Inv, WakersHaveTasks
<1>2. UNCHANGED <<flavor, tasks, cur, pc>> /\ UserCode /\ clones[t] > 0
  BY DEF Wake
<1>3. next' \in Seq(TaskId) /\ awake' \in SUBSET TaskId /\ QueueIsAwake'
  BY <1>1, <1>2, TasksWakeQueue
<1>4. /\ refs' \in [TaskId -> 0 .. MaxClones + 1] /\ clones' \in [TaskId -> 0 .. MaxClones]
      /\ UNCHANGED panic
      /\ RefsCountClones' /\ WakersHaveTasks'
  BY <1>1, <1>2, ReleaseRefs
<1>5. TypeOK'
  BY <1>2, <1>3, <1>4 DEF Inv, TypeOK
<1>6. NoDanglingUse' /\ PolledTaskStays' /\ QueueDrained'
  BY <1>2, <1>4 DEF Inv, NoDanglingUse, PolledTaskStays, QueueDrained, UserCode
<1> QED
  BY <1>3, <1>4, <1>5, <1>6 DEF Inv

(* Removing a task from the queue and clearing its flag keep both in step. *)
LEMMA UnqueueQueue ==
  ASSUME Inv, NEW t,
         next' = RemoveFirst(next, t), awake' = awake \ {t}
  PROVE  /\ next' \in Seq(TaskId)
         /\ ToSet(next') = awake'
         /\ IsInjective(next')
  BY RemoveFirstProperties DEF Inv, TypeOK, QueueIsAwake

(* The head of process_next: the front task leaves the queue. *)
LEMMA PickInv ==
  ASSUME Inv, Pick
  PROVE  Inv'
<1> USE DEF Inv, Pick
<1>1. Head(next) \in TaskId /\ Head(next) \in awake
  BY HeadInQueue DEF TypeOK, QueueIsAwake
<1>2. next' \in Seq(TaskId) /\ ToSet(next') = awake' /\ IsInjective(next')
  BY UnqueueQueue
<1>3. TypeOK'
  BY <1>1, <1>2 DEF TypeOK, Places
<1>4. QueueIsAwake'
  BY <1>2 DEF QueueIsAwake
<1>5. RefsCountClones' /\ WakersHaveTasks' /\ NoDanglingUse'
  BY DEF RefsCountClones, WakersHaveTasks, NoDanglingUse, VacantRefs, Embedded
<1>6. PolledTaskStays' /\ QueueDrained'
  BY <1>1, TaskIdAssumption DEF PolledTaskStays, QueueDrained, QueueIsAwake
<1> QED
  BY <1>3, <1>4, <1>5, <1>6

(* The tail of process_next: either the assertion fires and nothing
   changes, or the slot is vacated while no clone of its waker exists. *)
LEMMA TaskDoneInv ==
  ASSUME Inv, TaskDone
  PROVE  Inv'
<1> USE DEF Inv, TaskDone
<1>0. cur \in TaskId /\ cur \in tasks
  BY DEF PolledTaskStays, TypeOK
<1>1. CASE refs[cur] # 1
  <2>1. TypeOK'
    BY <1>1 DEF TypeOK, Panics
  <2>2. QueueIsAwake' /\ RefsCountClones' /\ WakersHaveTasks'
    BY <1>1 DEF QueueIsAwake, RefsCountClones, WakersHaveTasks, VacantRefs, Embedded
  <2>3. NoDanglingUse' /\ PolledTaskStays' /\ QueueDrained'
    BY <1>1 DEF NoDanglingUse, PolledTaskStays, QueueDrained
  <2> QED
    BY <2>1, <2>2, <2>3
<1>2. CASE refs[cur] = 1
  <2>1. next' \in Seq(TaskId) /\ ToSet(next') = awake' /\ IsInjective(next')
    BY <1>2, UnqueueQueue
  <2>2. TypeOK'
    <3>1. VacantRefs \in 0 .. MaxClones + 1
      BY MaxClonesAssumption DEF VacantRefs
    <3>2. refs' \in [TaskId -> 0 .. MaxClones + 1]
      BY <1>2, <3>1 DEF TypeOK
    <3> QED
      BY <1>2, <2>1, <3>2 DEF TypeOK, Places
  <2>3. QueueIsAwake'
    BY <1>2, <2>1 DEF QueueIsAwake
  <2>4. clones[cur] = 0
    BY <1>0, <1>2 DEF RefsCountClones, TypeOK
  <2>5. RefsCountClones'
    <3>1. VacantRefs' = VacantRefs
      BY DEF VacantRefs, Embedded
    <3> QED
      BY <1>0, <1>2, <3>1 DEF RefsCountClones, TypeOK
  <2>6. WakersHaveTasks'
    BY <1>0, <1>2, <2>4 DEF WakersHaveTasks, TypeOK
  <2>7. NoDanglingUse' /\ PolledTaskStays' /\ QueueDrained'
    BY <1>2 DEF NoDanglingUse, PolledTaskStays, QueueDrained
  <2> QED
    BY <2>2, <2>3, <2>5, <2>6, <2>7
<1> QED
  BY <1>1, <1>2

(* The steps that only move the thread of control. *)
LEMMA ControlInv ==
  ASSUME Inv,
         \/ NothingToPick \/ PollPending \/ PollReady \/ RunStart \/ RunCheck
         \/ ParkReturn \/ DestructorReenters \/ UserPanics \/ Panicked
  PROVE  Inv'
<1> DEFINE Kept == UNCHANGED <<flavor, tasks, awake, next, refs, clones>>
<1>1. Kept
  BY DEF NothingToPick, PollPending, PollReady, RunStart, RunCheck, ParkReturn,
         DestructorReenters, UserPanics, Panicked, vars
<1>2. /\ cur' \in {cur, None} /\ pc' \in Places
      /\ panic' \in {panic, "borrow", "park", "user"}
  BY DEF NothingToPick, PollPending, PollReady, RunStart, RunCheck, ParkReturn,
         DestructorReenters, UserPanics, Panicked, vars, Inv, TypeOK, Places
<1>3. TypeOK'
  BY <1>1, <1>2 DEF Inv, TypeOK, Panics
<1>4. QueueIsAwake' /\ RefsCountClones' /\ WakersHaveTasks'
  BY <1>1 DEF Inv, QueueIsAwake, RefsCountClones, WakersHaveTasks,
              VacantRefs, Embedded
<1>5. NoDanglingUse'
  BY <1>2 DEF Inv, NoDanglingUse
<1>6. PolledTaskStays'
  BY DEF Inv, PolledTaskStays, NothingToPick, PollPending, PollReady, RunStart,
         RunCheck, ParkReturn, DestructorReenters, UserPanics, Panicked, vars
<1>7. QueueDrained'
  BY DEF Inv, QueueDrained, NothingToPick, PollPending, PollReady, RunStart,
         RunCheck, ParkReturn, DestructorReenters, UserPanics, Panicked, vars
<1> QED
  BY <1>3, <1>4, <1>5, <1>6, <1>7 DEF Inv

(* Every step is one of the actions above. *)
LEMMA NextCases ==
  ASSUME Next
  PROVE  \/ \E t \in TaskId : \/ Add(t) \/ CloneWaker(t) \/ DropWaker(t)
                              \/ WakeByRef(t) \/ Wake(t)
         \/ Pick \/ TaskDone
         \/ NothingToPick \/ PollPending \/ PollReady \/ RunStart \/ RunCheck
         \/ ParkReturn \/ DestructorReenters \/ UserPanics \/ Panicked
  BY DEF Next, ArgExecutor, BoxExecutor, BoxRcExecutor, Tasks, WakerOps,
         ProcessNext, Run

(* Every step preserves the invariant: one case per action. *)
LEMMA NextInv == Inv /\ [Next]_vars => Inv'
<1> SUFFICES ASSUME Inv, [Next]_vars PROVE Inv'
  OBVIOUS
<1>1. CASE Next
  BY <1>1, NextCases, AddInv, CloneWakerInv, DropWakerInv, WakeByRefInv,
     WakeInv, PickInv, TaskDoneInv, ControlInv
<1>2. CASE UNCHANGED vars
  BY <1>2 DEF vars, Inv, TypeOK, QueueIsAwake, RefsCountClones, VacantRefs,
     Embedded, WakersHaveTasks, NoDanglingUse, PolledTaskStays, QueueDrained
<1> QED
  BY <1>1, <1>2

(* The inductive invariant holds in every reachable state. *)
THEOREM InvHolds == Safety => []Inv
  BY InitInv, NextInv, PTL DEF Safety

(* The state of an executor keeps its types. *)
THEOREM TypeCorrect == Safety => []TypeOK
<1>1. Inv => TypeOK
  BY DEF Inv
<1> QED
  BY <1>1, InvHolds, PTL

(* The run queue and the awake flags never disagree (push_back is only     *)
(* ever called for an unlinked node).                                      *)
THEOREM QueueConsistent == Safety => []QueueIsAwake
<1>1. Inv => QueueIsAwake
  BY DEF Inv
<1> QED
  BY <1>1, InvHolds, PTL

(* The reference count of a waker is exact. *)
THEOREM RefCountExact == Safety => []RefsCountClones
<1>1. Inv => RefsCountClones
  BY DEF Inv
<1> QED
  BY <1>1, InvHolds, PTL

(* No waker outlives its task. *)
THEOREM WakersSafe == Safety => []WakersHaveTasks
<1>1. Inv => WakersHaveTasks
  BY DEF Inv
<1> QED
  BY <1>1, InvHolds, PTL

(* No waker is used for a slot without its task, and no count is given up  *)
(* once too often: the SAFETY comments of the embedded wakers.             *)
THEOREM NeverDangles == Safety => []NoDanglingUse
<1>1. Inv => NoDanglingUse
  BY DEF Inv
<1> QED
  BY <1>1, InvHolds, PTL

-----------------------------------------------------------------------------
(* park() is entered only from RunCheck, behind a drained queue. *)
LEMMA ParkStep ==
  ASSUME Inv, [Next]_vars, pc # "park", pc' = "park"
  PROVE  awake' = {}
<1>1. RunCheck
  BY NextCases DEF vars, Add, CloneWaker, DropWaker, WakeByRef, Wake, Pick,
     TaskDone, NothingToPick, PollPending, PollReady, RunStart, RunCheck,
     ParkReturn, DestructorReenters, UserPanics, Panicked
<1>2. next = <<>> /\ awake' = awake
  BY <1>1 DEF RunCheck, Inv, QueueDrained
<1> QED
  BY <1>2, EmptyQueue DEF Inv, TypeOK, QueueIsAwake

(* run() parks only when no task is awake. *)
THEOREM ParksOnlyIdle == Safety => NeverParksWithWork
<1>1. Inv /\ [Next]_vars => [pc # "park" /\ pc' = "park" => awake' = {}]_vars
  BY ParkStep
<1> QED
  BY <1>1, InvHolds, PTL DEF Safety, NeverParksWithWork

-----------------------------------------------------------------------------
(* What one step does to the order of the queue. *)
OrderKept ==
  /\ \A t, u \in awake \cap awake' : Before(next, t, u) => Before(next', t, u)
  /\ \A t \in awake \cap awake', u \in awake' \ awake : Before(next', t, u)
  /\ cur' \notin {cur, None} => cur' = Head(next)

(* A task that was not queued goes behind all others. *)
LEMMA AppendKeepsOrder ==
  ASSUME Inv, NEW t \in TaskId, t \notin awake,
         next' = Append(next, t), awake' = awake \cup {t}, UNCHANGED cur
  PROVE  OrderKept
<1>1. next \in Seq(TaskId) /\ IsInjective(next) /\ ToSet(next) = awake
  BY DEF Inv, TypeOK, QueueIsAwake
<1>2. /\ \A x, u \in awake : Before(next, x, u) => Before(Append(next, t), x, u)
      /\ \A x \in awake : Before(Append(next, t), x, t)
  BY <1>1, AppendNewProperties
<1> QED
  BY <1>2 DEF OrderKept

(* Tasks::wake: a task that is awake keeps its place, another one goes last. *)
LEMMA TasksWakeKeepsOrder ==
  ASSUME Inv, NEW t \in TaskId, TasksWake(t), UNCHANGED cur
  PROVE  OrderKept
<1>1. CASE t \in awake
  BY <1>1 DEF TasksWake, OrderKept
<1>2. CASE t \notin awake
  <2>1. RemoveFirst(next, t) = next
    BY <1>2, RemoveAbsent DEF Inv, TypeOK, QueueIsAwake
  <2> QED
    BY <1>2, <2>1, AppendKeepsOrder DEF TasksWake
<1> QED
  BY <1>1, <1>2

(* Taking one task out leaves the others in their order. *)
LEMMA UnqueueKeepsOrder ==
  ASSUME Inv, NEW t, next' = RemoveFirst(next, t), awake' = awake \ {t},
         cur' \notin {cur, None} => cur' = Head(next)
  PROVE  OrderKept
<1>1. next \in Seq(TaskId) /\ IsInjective(next) /\ ToSet(next) = awake
  BY DEF Inv, TypeOK, QueueIsAwake
<1>2. \A x, u \in awake \ {t} : Before(next, x, u) => Before(RemoveFirst(next, t), x, u)
  BY <1>1, RemoveFirstProperties
<1> QED
  BY <1>2 DEF OrderKept

(* No step reorders the queue: one case per action that touches it. *)
LEMMA StepKeepsOrder ==
  ASSUME Inv, Next
  PROVE  OrderKept
<1>1. ASSUME NEW t \in TaskId, Add(t) PROVE OrderKept
  BY <1>1, AppendKeepsOrder DEF Add, Inv, QueueIsAwake
<1>2. ASSUME NEW t \in TaskId, WakeByRef(t) PROVE OrderKept
  BY <1>2, TasksWakeKeepsOrder, ReachableIsLive DEF WakeByRef
<1>3. ASSUME NEW t \in TaskId, Wake(t) PROVE OrderKept
  BY <1>3, TasksWakeKeepsOrder DEF Wake, Inv, WakersHaveTasks
<1>4. CASE Pick
  BY <1>4, UnqueueKeepsOrder DEF Pick
<1>5. CASE TaskDone
  <2>1. CASE refs[cur] = 1
    BY <1>5, <2>1, UnqueueKeepsOrder DEF TaskDone
  <2>2. CASE refs[cur] # 1
    BY <1>5, <2>2 DEF TaskDone, OrderKept
  <2> QED
    BY <2>1, <2>2
<1>6. ASSUME \/ \E t \in TaskId : CloneWaker(t) \/ DropWaker(t)
             \/ NothingToPick \/ PollPending \/ PollReady \/ RunStart \/ RunCheck
             \/ ParkReturn \/ DestructorReenters \/ UserPanics \/ Panicked
      PROVE  OrderKept
  <2>1. UNCHANGED <<next, awake>> /\ cur' \in {cur, None}
    BY <1>6 DEF CloneWaker, DropWaker, NothingToPick, PollPending, PollReady,
       RunStart, RunCheck, ParkReturn, DestructorReenters, UserPanics, Panicked, vars
  <2> QED
    BY <2>1 DEF OrderKept
<1> QED
  BY NextCases, <1>1, <1>2, <1>3, <1>4, <1>5, <1>6

(* Tasks are polled in the order in which they were spawned or woken. *)
THEOREM FirstWokenFirstPolled == Safety => PolledInWakeOrder
<1>1. Inv /\ [Next]_vars => [OrderKept]_vars
  BY StepKeepsOrder
<1> QED
  BY <1>1, InvHolds, PTL DEF Safety, PolledInWakeOrder, OrderKept

-----------------------------------------------------------------------------
(* Every step of an executor is a step of the abstract scheduler, or       *)
(* changes nothing the scheduler knows of.                                 *)
LEMMA StepRefines ==
  ASSUME Inv, Next
  PROVE  [S!Next]_(S!vars)
<1> DEFINE Still == UNCHANGED <<tasks, awake, cur, panic>>
<1>0. ASSUME Still PROVE UNCHANGED S!vars
  BY <1>0 DEF S!vars
<1>1. ASSUME NEW t \in TaskId, Add(t) PROVE S!Next
  BY <1>1 DEF Add, UserCode, S!Next, S!Spawn
<1>2. ASSUME NEW t \in TaskId, CloneWaker(t) \/ DropWaker(t) PROVE Still
  BY <1>2, ReleaseRefs DEF CloneWaker, DropWaker
<1>3. ASSUME NEW t \in TaskId, WakeByRef(t) PROVE S!Next
  BY <1>3, ReachableIsLive DEF WakeByRef, TasksWake, UserCode, S!Next, S!Wake
<1>4. ASSUME NEW t \in TaskId, Wake(t) PROVE S!Next
  <2>1. t \in tasks /\ TasksWake(t) /\ Release(t)
    BY <1>4 DEF Wake, Inv, WakersHaveTasks
  <2>2. UNCHANGED panic
    BY <1>4, <2>1, ReleaseRefs DEF Wake
  <2> QED
    BY <1>4, <2>1, <2>2 DEF Wake, TasksWake, UserCode, S!Next, S!Wake
<1>5. CASE Pick
  <2>1. Head(next) \in TaskId /\ Head(next) \in awake
    BY <1>5, HeadInQueue DEF Pick, Inv, TypeOK, QueueIsAwake
  <2>2. cur = None
    BY <1>5 DEF Pick, Inv, PolledTaskStays
  <2> QED
    BY <1>5, <2>1, <2>2 DEF Pick, S!Next, S!Poll
<1>6. CASE PollPending
  <2>1. cur \in TaskId
    BY <1>6 DEF PollPending, Inv, PolledTaskStays, TypeOK
  <2> QED
    BY <1>6, <2>1 DEF PollPending, S!Next, S!Pending
<1>7. CASE TaskDone
  <2>1. cur \in TaskId
    BY <1>7 DEF TaskDone, Inv, PolledTaskStays, TypeOK
  <2>2. CASE refs[cur] = 1
    BY <1>7, <2>1, <2>2 DEF TaskDone, S!Next, S!Complete
  <2>3. CASE refs[cur] # 1
    BY <1>7, <2>3 DEF TaskDone, S!Next, S!Halt
  <2> QED
    BY <2>2, <2>3
<1>8. CASE DestructorReenters \/ UserPanics
  BY <1>8 DEF DestructorReenters, UserPanics, UserCode, S!Next, S!Halt
<1>9. CASE ParkReturn
  BY <1>9 DEF ParkReturn, S!Next, S!Halt, S!vars
<1>10. CASE NothingToPick \/ PollReady \/ RunStart \/ RunCheck \/ Panicked
  <2>1. Still
    BY <1>10 DEF NothingToPick, PollReady, RunStart, RunCheck, Panicked, vars
  <2> QED
    BY <1>0, <2>1
<1> QED
  BY NextCases, <1>0, <1>1, <1>2, <1>3, <1>4, <1>5, <1>6, <1>7, <1>8, <1>9, <1>10

(* ArgExecutor, BoxExecutor and BoxRcExecutor implement the safety part of *)
(* the abstract scheduler: no wake-up is lost, no task is polled that was  *)
(* not spawned or woken, and none disappears except by completing.         *)
THEOREM RefinesScheduler == Safety => SchedulerSafety
<1>1. Init => S!Init
  BY DEF Init, S!Init
<1>2. Inv /\ [Next]_vars => [S!Next]_(S!vars)
  <2>1. CASE Next
    BY <2>1, StepRefines
  <2>2. CASE UNCHANGED vars
    BY <2>2 DEF vars, S!vars
  <2> QED
    BY <2>1, <2>2
<1> QED
  BY <1>1, <1>2, InvHolds, PTL DEF Safety, SchedulerSafety, S!Safety

-----------------------------------------------------------------------------
(* run() called inside run(): module Reentry. *)

(* A call in suspense has a task unless it is in park(). *)
FramesTyped ==
  /\ frames \in Seq(Frame)
  /\ \A i \in DOMAIN frames :
       frames[i].cur # None <=> frames[i].pc \in {"poll", "drop"}

(* A task the innermost call polls was picked by it: if an outer call is   *)
(* polling it too, it counts as polled again.                              *)
PolledTwiceIsAgain == cur \in InSuspense => cur \in again

(* The inductive invariant: as long as nothing was used that was dropped,  *)
(* the innermost call finds everything as a call without outer ones does.  *)
ReInv ==
  /\ FramesTyped
  /\ LostOnlyIfPolledAgain
  /\ ~ lost => Inv /\ PolledTwiceIsAgain

(* A call of run() inside run() adds a frame behind the others. *)
LEMMA FramePushed ==
  ASSUME frames \in Seq(Frame), NEW f \in Frame, frames' = Append(frames, f)
  PROVE  /\ frames' \in Seq(Frame)
         /\ DOMAIN frames' = DOMAIN frames \cup {Len(frames) + 1}
         /\ frames'[Len(frames) + 1] = f
         /\ \A i \in DOMAIN frames : frames'[i] = frames[i]
  OBVIOUS

(* Its return leaves the others as they are. *)
LEMMA FramePopped ==
  ASSUME frames \in Seq(Frame), frames # <<>>, frames' = Front(frames)
  PROVE  /\ frames' \in Seq(Frame)
         /\ DOMAIN frames' \subseteq DOMAIN frames
         /\ \A i \in DOMAIN frames' : frames'[i] = frames[i]
<1>1. Len(frames) \in Nat /\ Len(frames) >= 1
  OBVIOUS
<1>2. frames' = SubSeq(frames, 1, Len(frames) - 1)
  BY DEF Front
<1> QED
  BY <1>1, <1>2

(* A step of Executor other than Pick starts no poll, and vacates no slot  *)
(* but that of the task in hand.                                           *)
LEMMA InnerStep ==
  ASSUME Inv, Next, pc = "pick" => next = <<>>
  PROVE  cur' \in {cur, None} /\ tasks \ {cur} \subseteq tasks'
  BY NextCases DEF Add, CloneWaker, DropWaker, WakeByRef, Wake, Pick, TaskDone,
     NothingToPick, PollPending, PollReady, RunStart, RunCheck, ParkReturn,
     DestructorReenters, UserPanics, Panicked, vars

(* Initially no call is in suspense. *)
LEMMA ReInitInv == ReInit => ReInv
<1> SUFFICES ASSUME ReInit PROVE ReInv
  OBVIOUS
<1>1. Inv
  BY InitInv DEF ReInit
<1>2. InSuspense = {}
  BY DEF ReInit, InSuspense
<1>3. FramesTyped
  BY DEF ReInit, FramesTyped
<1> QED
  BY <1>1, <1>2, <1>3 DEF ReInv, LostOnlyIfPolledAgain, PolledTwiceIsAgain

(* A step of the innermost call. *)
LEMMA ReInnerInv ==
  ASSUME ReInv, ~ lost, Inner
  PROVE  ReInv'
<1>1. Inv /\ Next /\ UNCHANGED <<frames, again, lost>>
  BY DEF ReInv, Inner
<1>2. Inv'
  BY <1>1, NextInv
<1>3. cur' \in {cur, None} /\ tasks \ {cur} \subseteq tasks'
  BY <1>1, InnerStep DEF Inner
<1>4. InSuspense' = InSuspense /\ None \notin InSuspense
  BY <1>1 DEF InSuspense
<1>5. FramesTyped'
  BY <1>1 DEF ReInv, FramesTyped
<1>6. LostOnlyIfPolledAgain' /\ PolledTwiceIsAgain'
  BY <1>1, <1>3, <1>4 DEF ReInv, LostOnlyIfPolledAgain, PolledTwiceIsAgain
<1> QED
  BY <1>2, <1>5, <1>6 DEF ReInv

(* A task is picked that may be in suspense. *)
LEMMA PickAnyInv ==
  ASSUME ReInv, ~ lost, PickAny
  PROVE  ReInv'
<1>1. Inv /\ Pick /\ UNCHANGED <<frames, tasks>>
  BY DEF ReInv, PickAny, Pick
<1>2. Inv'
  BY <1>1, PickInv
<1>3. InSuspense' = InSuspense
  BY <1>1 DEF InSuspense
<1>4. again' = again \cup (InSuspense \cap {cur'})
  BY DEF PickAny
<1>5. FramesTyped'
  BY <1>1 DEF ReInv, FramesTyped
<1>6. LostOnlyIfPolledAgain' /\ PolledTwiceIsAgain'
  BY <1>1, <1>3, <1>4 DEF ReInv, LostOnlyIfPolledAgain, PolledTwiceIsAgain
<1> QED
  BY <1>2, <1>5, <1>6 DEF ReInv

(* run() is called inside run(): the task in hand is in its slot. *)
LEMMA EnterInv ==
  ASSUME ReInv, ~ lost, Enter
  PROVE  ReInv'
<1> DEFINE f == [cur |-> cur, pc |-> pc]
<1>1. Inv /\ FramesTyped
  BY DEF ReInv
<1>2. /\ frames' = Append(frames, f) /\ cur' = None /\ pc' = "pick"
      /\ UNCHANGED <<flavor, tasks, awake, next, refs, clones, panic, again, lost>>
  BY DEF Enter
<1>3. f \in Frame /\ (cur # None <=> pc \in {"poll", "drop"})
  BY <1>1 DEF Enter, UserCode, Inv, TypeOK, PolledTaskStays, Frame
<1>4. /\ frames' \in Seq(Frame)
      /\ DOMAIN frames' = DOMAIN frames \cup {Len(frames) + 1}
      /\ frames'[Len(frames) + 1] = f
      /\ \A i \in DOMAIN frames : frames'[i] = frames[i]
  BY <1>1, <1>2, <1>3, FramePushed DEF FramesTyped
<1>5. FramesTyped'
  BY <1>1, <1>3, <1>4 DEF FramesTyped
<1>6. InSuspense' \subseteq InSuspense \cup {cur}
  BY <1>4 DEF InSuspense
<1>7. None \notin InSuspense' /\ (cur # None => cur \in tasks)
  BY <1>1 DEF InSuspense, Inv, PolledTaskStays
<1>8. LostOnlyIfPolledAgain'
  BY <1>2, <1>6, <1>7 DEF ReInv, LostOnlyIfPolledAgain
<1>9. PolledTwiceIsAgain'
  BY <1>2, <1>7 DEF PolledTwiceIsAgain
<1>10. Inv'
  <2>1. TypeOK'
    BY <1>1, <1>2 DEF Inv, TypeOK, Places
  <2>2. QueueIsAwake' /\ RefsCountClones' /\ WakersHaveTasks' /\ NoDanglingUse'
    BY <1>1, <1>2 DEF Inv, QueueIsAwake, RefsCountClones, VacantRefs, Embedded,
       WakersHaveTasks, NoDanglingUse
  <2>3. PolledTaskStays' /\ QueueDrained'
    BY <1>2 DEF PolledTaskStays, QueueDrained
  <2> QED
    BY <2>1, <2>2, <2>3 DEF Inv
<1> QED
  BY <1>5, <1>8, <1>9, <1>10 DEF ReInv

(* The inner run() returns: to park(), or to a task that is gone. *)
LEMMA ResumeInv ==
  ASSUME ReInv, ~ lost, Resume
  PROVE  ReInv'
<1>1. Inv /\ FramesTyped
  BY DEF ReInv
<1>2. /\ frames # <<>> /\ frames' = Front(frames) /\ tasks = {}
      /\ UNCHANGED <<flavor, tasks, awake, next, refs, clones, panic, again>>
  BY DEF Resume
<1>3. /\ frames' \in Seq(Frame)
      /\ DOMAIN frames' \subseteq DOMAIN frames
      /\ \A i \in DOMAIN frames' : frames'[i] = frames[i]
  BY <1>1, <1>2, FramePopped DEF FramesTyped
<1>4. FramesTyped'
  BY <1>1, <1>3 DEF FramesTyped
<1>5. InSuspense' \subseteq InSuspense /\ None \notin InSuspense'
  BY <1>3 DEF InSuspense
<1>6. LostOnlyIfPolledAgain'
  BY <1>2, <1>5 DEF ReInv, LostOnlyIfPolledAgain
<1>7. ASSUME ~ lost' PROVE Inv' /\ PolledTwiceIsAgain'
  <2>1. cur' = None
    BY <1>2, <1>7 DEF Resume
  <2>2. Len(frames) \in DOMAIN frames /\ Last(frames) = frames[Len(frames)]
    BY <1>1, <1>2 DEF FramesTyped, Last
  <2>3. pc' = "park"
    <3> DEFINE f == frames[Len(frames)]
    <3>1. cur' = f.cur /\ pc' = f.pc
      BY <2>2 DEF Resume
    <3>2. f \in Frame /\ (f.cur # None <=> f.pc \in {"poll", "drop"})
      BY <1>1, <2>2 DEF FramesTyped
    <3>3. f.pc \in {"poll", "drop", "park"}
      BY <3>2 DEF Frame
    <3> HIDE DEF f
    <3> QED
      BY <2>1, <3>1, <3>2, <3>3
  <2>4. TypeOK'
    BY <1>1, <1>2, <2>1, <2>3 DEF Inv, TypeOK, Places
  <2>5. QueueIsAwake' /\ RefsCountClones' /\ WakersHaveTasks' /\ NoDanglingUse'
    BY <1>1, <1>2 DEF Inv, QueueIsAwake, RefsCountClones, VacantRefs, Embedded,
       WakersHaveTasks, NoDanglingUse
  <2>6. PolledTaskStays' /\ QueueDrained'
    BY <2>1, <2>3 DEF PolledTaskStays, QueueDrained
  <2> QED
    BY <1>5, <2>1, <2>4, <2>5, <2>6 DEF Inv, PolledTwiceIsAgain
<1> QED
  BY <1>4, <1>6, <1>7 DEF ReInv

(* The Context of a poll in suspense is used. *)
LEMMA WakeOuterInv ==
  ASSUME ReInv, ~ lost, NEW t \in TaskId, WakeOuter(t)
  PROVE  ReInv'
<1>1. Inv /\ FramesTyped
  BY DEF ReInv
<1>2. UNCHANGED <<flavor, tasks, refs, clones, cur, pc, panic, frames, again>>
  BY DEF WakeOuter
<1>3. FramesTyped' /\ LostOnlyIfPolledAgain' /\ PolledTwiceIsAgain'
  BY <1>2 DEF ReInv, FramesTyped, LostOnlyIfPolledAgain, PolledTwiceIsAgain, InSuspense
<1>4. ASSUME ~ lost' PROVE Inv'
  <2>1. t \in tasks /\ TasksWake(t)
    BY <1>4 DEF WakeOuter
  <2>2. next' \in Seq(TaskId) /\ awake' \in SUBSET TaskId /\ QueueIsAwake'
    BY <1>1, <1>2, <2>1, TasksWakeQueue
  <2>3. TypeOK'
    BY <1>1, <1>2, <2>2 DEF Inv, TypeOK
  <2>4. RefsCountClones' /\ WakersHaveTasks' /\ NoDanglingUse'
    BY <1>1, <1>2 DEF Inv, RefsCountClones, VacantRefs, Embedded, WakersHaveTasks,
       NoDanglingUse
  <2>5. PolledTaskStays' /\ QueueDrained'
    BY <1>1, <1>2 DEF Inv, PolledTaskStays, QueueDrained, WakeOuter
  <2> QED
    BY <2>2, <2>3, <2>4, <2>5 DEF Inv
<1> QED
  BY <1>3, <1>4 DEF ReInv

(* Every step preserves the invariant. *)
LEMMA ReNextInv == ReInv /\ [ReNext]_reVars => ReInv'
<1> SUFFICES ASSUME ReInv, [ReNext]_reVars PROVE ReInv'
  OBVIOUS
<1>1. CASE UNCHANGED reVars
  <2>1. UNCHANGED <<frames, again, lost>> /\ UNCHANGED vars
    BY <1>1 DEF reVars
  <2>2. ~ lost => Inv'
    BY <2>1, NextInv DEF ReInv
  <2> QED
    BY <2>1, <2>2 DEF ReInv, FramesTyped, LostOnlyIfPolledAgain,
       PolledTwiceIsAgain, InSuspense, vars
<1>2. CASE ReNext
  BY <1>1, <1>2, ReInnerInv, PickAnyInv, EnterInv, ResumeInv, WakeOuterInv
     DEF ReNext, Lost
<1> QED
  BY <1>1, <1>2

(* The invariant holds however run() is called. *)
THEOREM ReInvHolds == ReSpec => []ReInv
  BY ReInitInv, ReNextInv, PTL DEF ReSpec

(* The pointer process_next keeps across the poll points to a live task,   *)
(* also where futures, destructors and park() call run() again: always for *)
(* the innermost call, until a call goes on whose task is gone; and for a  *)
(* call in suspense unless an inner one has polled its task again.         *)
THEOREM PolledTaskValid ==
  ReSpec => [](LostOnlyIfPolledAgain /\ (~ lost => PolledTaskStays))
<1>1. ReInv => LostOnlyIfPolledAgain /\ (~ lost => PolledTaskStays)
  BY DEF ReInv, Inv
<1> QED
  BY <1>1, ReInvHolds, PTL
=============================================================================
