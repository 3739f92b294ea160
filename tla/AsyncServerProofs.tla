------------------------- MODULE AsyncServerProofs --------------------------
(***************************************************************************)
(* Proofs about modules AsyncServer and Teardown, for every number of      *)
(* connections and of runs and for all three executors.                    *)
(***************************************************************************)
EXTENDS Teardown, DataLemmas, FiniteSetTheorems

(* What is proved of executor and reactor alone. *)
EP == INSTANCE ExecutorProofs WITH
        MaxClones <- Conns + 1,
        MaxDepth <- 0, frames <- <<>>, again <- {}, lost <- FALSE   \* no run() inside run()
RP == INSTANCE ReactorProofs WITH Waker <- TaskId, Future <- TaskId

(* The state of a future. *)
FutType == [op : Ops, at : Points, io : Handle \cup {None},
            stream : Handle \cup {None}, calls : Parity, left : 0 .. Conns]

(* There is one future per task, and only they have I/O futures. *)
FutsAreTasks ==
  /\ IsSlab(fut, TaskId, FutType)
  /\ DOMAIN fut = tasks
  /\ R!Live \subseteq DOMAIN fut

(* What a future owns and awaits at each of its points. *)
Shape(t) ==
  /\ t \in R!Live <=> fut[t].at \in {"bind", "try", "wrap", "finish"}
  /\ t \in R!Live => futures[t].obj = fut[t].io
  /\ fut[t].at = "try" => futures[t].op = "polled"
  /\ fut[t].at \in {"wrap", "finish"} => futures[t].op = "done"
  /\ fut[t].io = None <=> fut[t].at \in {"start", "closed"}
  /\ fut[t].stream # None <=> fut[t].op = "accept" /\ fut[t].at \in {"finish", "spawn"}
  /\ fut[t].at \in {"start", "wrap", "spawn"} => fut[t].op = "accept"

FutsInShape == \A t \in DOMAIN fut : Shape(t)

(* Each I/O object has one owner, which knows it by one name. *)
Owns(t, h) == h # None /\ (h = fut[t].io \/ h = fut[t].stream)

OneOwner ==
  /\ \A t \in DOMAIN fut : \A h : Owns(t, h) => h \in R!Open
  /\ \A h \in R!Open : \E t \in DOMAIN fut : Owns(t, h)
  /\ \A t, u \in DOMAIN fut : \A h : Owns(t, h) /\ Owns(u, h) => t = u
  /\ \A t \in DOMAIN fut : fut[t].io # None => fut[t].io # fut[t].stream

(* A registration holds no waker but its owner's, and none while the owner *)
(* has no I/O future on it.                                                *)
InPlace(t) ==
  /\ fut[t].io # None => R!Reg(fut[t].io).waker \in {t, None}
  /\ fut[t].stream # None => R!Reg(fut[t].stream).waker = None
  /\ fut[t].at = "try" => R!Reg(fut[t].io).waker = t
  /\ fut[t].at \in {"call", "spawn", "close"} => R!Reg(fut[t].io).waker = None

WakersInPlace == \A t \in DOMAIN fut : InPlace(t)

(* That waker is the only clone there is. *)
HasClone(t) == t \in DOMAIN fut /\ fut[t].io # None /\ R!Reg(fut[t].io).waker = t
CloneIsBound == \A t \in TaskId : clones[t] = IF HasClone(t) THEN 1 ELSE 0

(* A task that is not being polled is at a point where a poll may start,   *)
(* and if it is not queued it waits for an event.                          *)
Armed(t) ==
  /\ fut[t].at = "bind" /\ futures[t].op = "pending"
  /\ R!Reg(fut[t].io) = [ready |-> FALSE, waker |-> t]

Waits(t) == fut[t].at \in {"start", "call", "bind"} /\ (t \in awake \/ Armed(t))

OthersWait == \A t \in DOMAIN fut : t # cur => Waits(t)

(* The executor and the future agree on whether it has returned, and the   *)
(* reactor polls only inside park().                                       *)
InStep ==
  /\ pc = "poll" => fut[cur].at # "closed"
  /\ pc = "drop" => fut[cur].at = "closed"
  /\ polling => pc = "park"

(* There is one listen task, and the others are connections it has spawned. *)
Others(t) == DOMAIN fut \ {t}

HasRoom(t) ==
  fut[t].op = "accept" =>
    /\ \A u \in Others(t) : fut[u].op # "accept"
    /\ Cardinality(Others(t)) <= Conns - fut[t].left
    /\ fut[t].at \notin {"close", "closed"} => fut[t].left > 0

RoomForAll == \A t \in DOMAIN fut : HasRoom(t)

(* The inductive invariant. *)
OwnInv ==
  /\ FutsAreTasks
  /\ FutsInShape
  /\ OneOwner
  /\ WakersInPlace
  /\ CloneIsBound
  /\ OthersWait
  /\ InStep
  /\ RoomForAll
  /\ NoPanic

Inv == EP!Inv /\ RP!Inv /\ OwnInv
-----------------------------------------------------------------------------
(* The actions of the executor that the servers take. *)
ExecutorStep ==
  \/ \E t \in TaskId : E!Add(t) \/ E!CloneWaker(t) \/ E!DropWaker(t) \/ E!Wake(t)
  \/ E!Pick \/ E!NothingToPick \/ E!PollPending \/ E!PollReady \/ E!TaskDone
  \/ E!UserPanics \/ E!RunStart \/ E!RunCheck \/ E!ParkReturn

(* The assumptions of the two modules hold. *)
LEMMA ExecutorAssumptions == EP!TaskIdAssumption /\ EP!MaxClonesAssumption
<1>1. IsFiniteSet(TaskId) <=> EP!IsFiniteSet(TaskId)
  BY DEF IsFiniteSet, EP!IsFiniteSet
<1> QED
  BY <1>1, CapacityAssumption, SlotAssumption DEF EP!TaskIdAssumption, EP!MaxClonesAssumption

LEMMA ReactorAssumptions == RP!FiniteAssumption /\ RP!NoneAssumption
<1>1. IsFiniteSet(Handle)
  BY CapacityAssumption, FS_Interval DEF Handle
<1>2. \A S : IsFiniteSet(S) <=> RP!IsFiniteSet(S)
  BY DEF IsFiniteSet, RP!IsFiniteSet
<1> QED
  BY <1>1, <1>2, SlotAssumption DEF RP!FiniteAssumption, RP!NoneAssumption

(* They are steps of the executor, and keep its invariant. *)
LEMMA ExecutorNext ==
  ASSUME flavor \in E!Flavors, ExecutorStep
  PROVE  E!Next
  BY DEF ExecutorStep, E!Next, E!ArgExecutor, E!BoxExecutor, E!BoxRcExecutor, E!Tasks,
         E!WakerOps, E!ProcessNext, E!Run, E!Flavors

LEMMA ExecutorInv ==
  ASSUME EP!Inv, ExecutorStep
  PROVE  EP!Inv'
<1> USE DEF E!UserCode, EP!UserCode, E!Borrowed, EP!Borrowed, E!Embedded, EP!Embedded,
            E!Reachable, EP!Reachable, E!Release, EP!Release
<1>0. ASSUME NEW s, NEW e
      PROVE  E!RemoveFirst(s, e) = EP!RemoveFirst(s, e)
  BY DEF E!RemoveFirst, EP!RemoveFirst, E!RemoveAt, EP!RemoveAt, E!SelectInSeq, EP!SelectInSeq,
         E!Min, EP!Min
<1>1. ASSUME NEW t \in TaskId, E!Add(t) PROVE EP!Inv'
  <2>1. EP!Add(t)
    BY <1>1 DEF E!Add, EP!Add, E!Cardinality, EP!Cardinality
  <2> QED
    BY <2>1, ExecutorAssumptions, EP!AddInv
<1>2. ASSUME NEW t \in TaskId, E!CloneWaker(t) PROVE EP!Inv'
  <2>1. EP!CloneWaker(t)
    BY <1>2 DEF E!CloneWaker, EP!CloneWaker
  <2> QED
    BY <2>1, ExecutorAssumptions, EP!CloneWakerInv
<1>3. ASSUME NEW t \in TaskId, E!DropWaker(t) PROVE EP!Inv'
  <2>1. EP!DropWaker(t)
    BY <1>3 DEF E!DropWaker, EP!DropWaker
  <2> QED
    BY <2>1, ExecutorAssumptions, EP!DropWakerInv
<1>4. ASSUME NEW t \in TaskId, E!Wake(t) PROVE EP!Inv'
  <2>1. EP!Wake(t)
    BY <1>0, <1>4 DEF E!Wake, EP!Wake, E!TasksWake, EP!TasksWake, E!StaleWake, EP!StaleWake
  <2> QED
    BY <2>1, ExecutorAssumptions, EP!WakeInv
<1>5. CASE E!Pick
  <2>1. EP!Pick
    BY <1>0, <1>5 DEF E!Pick, EP!Pick
  <2> QED
    BY <2>1, ExecutorAssumptions, EP!PickInv
<1>6. CASE E!TaskDone
  <2>1. EP!TaskDone
    BY <1>0, <1>6 DEF E!TaskDone, EP!TaskDone, E!VacantRefs, EP!VacantRefs
  <2> QED
    BY <2>1, ExecutorAssumptions, EP!TaskDoneInv
<1>7. CASE \/ E!NothingToPick \/ E!PollPending \/ E!PollReady \/ E!UserPanics
           \/ E!RunStart \/ E!RunCheck \/ E!ParkReturn
  <2>1. \/ EP!NothingToPick \/ EP!PollPending \/ EP!PollReady \/ EP!UserPanics
        \/ EP!RunStart \/ EP!RunCheck \/ EP!ParkReturn
    BY <1>7 DEF E!NothingToPick, EP!NothingToPick, E!PollPending, EP!PollPending,
      E!PollReady, EP!PollReady, E!UserPanics, EP!UserPanics, E!RunStart, EP!RunStart,
      E!RunCheck, EP!RunCheck, E!ParkReturn, EP!ParkReturn
  <2> QED
    BY <2>1, ExecutorAssumptions, EP!ControlInv
<1> QED
  BY <1>1, <1>2, <1>3, <1>4, <1>5, <1>6, <1>7 DEF ExecutorStep

(* Likewise the reactor. *)
LEMMA ReactorInv ==
  ASSUME RP!Inv, R!Next
  PROVE  RP!Inv'
<1> USE DEF R!ClientCode, RP!ClientCode, R!Open, RP!Open, R!Live, RP!Live,
            R!Borrowers, RP!Borrowers, R!Object, RP!Object, R!Polled, RP!Polled,
            R!IsReady, RP!IsReady, R!With, RP!With, R!Without, RP!Without
<1>0. /\ R!Index = RP!Index
      /\ R!CanRegister <=> RP!CanRegister
  BY DEF R!Index, RP!Index, R!CanRegister, RP!CanRegister, R!Cardinality, RP!Cardinality
<1>1. ASSUME NEW h \in Handle, NEW kind \in R!Kinds, R!New(h, kind)
      PROVE  RP!New(h, kind)
  BY <1>0, <1>1 DEF R!New, RP!New, R!Register, RP!Register, R!Interest, RP!Interest,
    R!READABLE, RP!READABLE, R!WRITABLE, RP!WRITABLE
<1>2. ASSUME NEW h \in Handle, R!Drop(h)
      PROVE  RP!Drop(h)
  BY <1>2 DEF R!Drop, RP!Drop, R!Unregister, RP!Unregister
<1>3. ASSUME NEW f \in TaskId, NEW h \in Handle, R!Start(f, h)
      PROVE  RP!Start(f, h)
  BY <1>3 DEF R!Start, RP!Start
<1>4. ASSUME NEW f \in TaskId, NEW w \in TaskId, R!BindWaker(f, w)
      PROVE  RP!BindWaker(f, w)
  BY <1>4 DEF R!BindWaker, RP!BindWaker
<1>5. ASSUME NEW f \in TaskId, R!NotReady(f) \/ R!WouldBlock(f) \/ R!Complete(f)
      PROVE  RP!NotReady(f) \/ RP!WouldBlock(f) \/ RP!Complete(f)
  BY <1>5 DEF R!NotReady, RP!NotReady, R!WouldBlock, RP!WouldBlock, R!Complete, RP!Complete
<1>6. ASSUME NEW f \in TaskId, R!DropFuture(f)
      PROVE  RP!DropFuture(f)
  BY <1>6 DEF R!DropFuture, RP!DropFuture
<1>7. ASSUME R!PollBegin \/ R!PollEvent \/ R!PollEnd
      PROVE  RP!PollBegin \/ RP!PollEvent \/ RP!PollEnd
  BY <1>7 DEF R!PollBegin, RP!PollBegin, R!PollEvent, RP!PollEvent, R!PollEnd, RP!PollEnd,
    R!PollEvents, RP!PollEvents, R!EventKey, RP!EventKey, R!FirstEvent, RP!FirstEvent,
    R!LaterEvents, RP!LaterEvents, R!Min, RP!Min
<1>8. R!Kinds = RP!Kinds
  BY DEF R!Kinds, RP!Kinds
<1>9. RP!Next
  BY <1>1, <1>2, <1>3, <1>4, <1>5, <1>6, <1>7, <1>8 DEF R!Next, RP!Next
<1> QED
  BY <1>9, ReactorAssumptions, RP!NextInv

-----------------------------------------------------------------------------
(* The parts of the two invariants that are used below. *)
LEMMA ExecutorFacts ==
  ASSUME EP!Inv
  PROVE  /\ flavor \in E!Flavors /\ pc \in E!Places
         /\ tasks \subseteq TaskId /\ awake \subseteq tasks
         /\ cur # None <=> pc \in {"poll", "drop"}
         /\ cur # None => cur \in tasks
         /\ clones \in [TaskId -> 0 .. Conns + 1]
         /\ \A t \in tasks : refs[t] = clones[t] + 1
         /\ panic \notin {"stale", "refs"}
  BY DEF EP!Inv, EP!TypeOK, EP!QueueIsAwake, EP!PolledTaskStays, EP!RefsCountClones,
         EP!NoDanglingUse, EP!Flavors, EP!Places, E!Flavors, E!Places

LEMMA ReactorFacts ==
  ASSUME RP!Inv
  PROVE  /\ \A h \in DOMAIN handles :
              /\ h \in Handle
              /\ handles[h].key \in DOMAIN regs
              /\ regs[handles[h].key] \in [ready : BOOLEAN, waker : TaskId \cup {None}]
         /\ \A g, h \in DOMAIN handles : handles[g].key = handles[h].key => g = h
         /\ \A k \in DOMAIN regs : k \in Key /\ \E h \in DOMAIN handles : k = handles[h].key
         /\ \A f \in DOMAIN futures : f \in TaskId /\ futures[f].obj \in DOMAIN handles
         /\ IsSlab(futures, TaskId, [obj : Handle, op : R!Ops, by : TaskId \cup {None}])
         /\ polling \in BOOLEAN
<1>1. RP!TypeOK /\ RP!SlabsMatchHandles
  BY DEF RP!Inv
<1>2. /\ IsSlab(regs, Key, [ready : BOOLEAN, waker : TaskId \cup {None}])
      /\ DOMAIN handles \subseteq Handle
      /\ IsSlab(futures, TaskId, [obj : Handle, op : R!Ops, by : TaskId \cup {None}])
      /\ polling \in BOOLEAN
  BY <1>1 DEF RP!TypeOK, IsSlab, RP!IsSlab, R!Ops, RP!Ops
<1>3. /\ DOMAIN regs = {handles[h].key : h \in DOMAIN handles}
      /\ \A g, h \in DOMAIN handles : g # h => handles[g].key # handles[h].key
      /\ \A f \in DOMAIN futures : futures[f].obj \in DOMAIN handles
  BY <1>1 DEF RP!SlabsMatchHandles, RP!Open, RP!Live
<1> QED
  BY <1>2, <1>3 DEF IsSlab

-----------------------------------------------------------------------------
(* What each action of the reactor does to the registrations of the open   *)
(* objects, whatever their keys.                                           *)
USE DEF R!Open, R!Live, R!Reg

LEMMA NewEffect ==
  ASSUME RP!Inv, NEW h, NEW kind, R!New(h, kind)
  PROVE  /\ h \notin DOMAIN handles
         /\ DOMAIN handles' = DOMAIN handles \cup {h}
         /\ R!Reg(h)' = [ready |-> TRUE, waker |-> None]
         /\ \A g \in DOMAIN handles : R!Reg(g)' = R!Reg(g)
         /\ UNCHANGED <<futures, polling>>
<1>1. PICK k \in Key \ DOMAIN regs, i \in R!Index \ DOMAIN items :
        /\ regs' = R!With(regs, k, [ready |-> TRUE, waker |-> None])
        /\ handles' = R!With(handles, h, [kind |-> kind, key |-> k, index |-> i,
                                          last |-> None])
  BY DEF R!New
<1>2. h \notin DOMAIN handles /\ UNCHANGED <<futures, polling>>
  BY DEF R!New
<1>3. DOMAIN handles' = DOMAIN handles \cup {h} /\ handles'[h].key = k
      /\ \A g \in DOMAIN handles : handles'[g] = handles[g]
  BY <1>1, <1>2 DEF R!With
<1>4. regs'[k] = [ready |-> TRUE, waker |-> None]
      /\ \A j \in DOMAIN regs : regs'[j] = regs[j]
  BY <1>1 DEF R!With
<1> QED
  BY <1>2, <1>3, <1>4, ReactorFacts

LEMMA DropEffect ==
  ASSUME RP!Inv, NEW h, R!Drop(h)
  PROVE  /\ h \in DOMAIN handles
         /\ DOMAIN handles' = DOMAIN handles \ {h}
         /\ \A g \in DOMAIN handles' : R!Reg(g)' = R!Reg(g)
         /\ UNCHANGED <<futures, polling>>
<1>1. h \in DOMAIN handles /\ UNCHANGED <<futures, polling>>
  BY DEF R!Drop
<1>2. DOMAIN handles' = DOMAIN handles \ {h}
      /\ \A g \in DOMAIN handles' : handles'[g] = handles[g]
  BY DEF R!Drop, R!Without
<1>3. \A j \in DOMAIN regs : j # handles[h].key => regs'[j] = regs[j]
  BY DEF R!Drop, R!Without
<1> QED
  BY <1>1, <1>2, <1>3, ReactorFacts

LEMMA BindEffect ==
  ASSUME RP!Inv, NEW f, NEW h \in DOMAIN handles, h = futures[f].obj, R!BindWaker(f, f)
  PROVE  /\ f \in DOMAIN futures
         /\ DOMAIN handles' = DOMAIN handles
         /\ R!Reg(h)' = [ready |-> R!Reg(h).ready, waker |-> f]
         /\ \A g \in DOMAIN handles : g # h => R!Reg(g)' = R!Reg(g)
         /\ DOMAIN futures' = DOMAIN futures
         /\ futures'[f].obj = h /\ futures'[f].op = "polled"
         /\ \A u \in DOMAIN futures : u # f => futures'[u] = futures[u]
         /\ UNCHANGED polling
<1>1. /\ f \in DOMAIN futures
      /\ futures' = [futures EXCEPT ![f].op = "polled", ![f].by = f]
      /\ handles' = [handles EXCEPT ![h].last = f]
      /\ regs' = [regs EXCEPT ![handles[h].key].waker = f]
      /\ UNCHANGED polling
  BY DEF R!BindWaker, R!Object
<1>2. h \in DOMAIN handles
  BY <1>1, ReactorFacts
<1>3. DOMAIN handles' = DOMAIN handles
      /\ \A g \in DOMAIN handles : handles'[g].key = handles[g].key
  BY <1>1, <1>2
<1>4. /\ regs'[handles[h].key] = [ready |-> regs[handles[h].key].ready, waker |-> f]
      /\ \A j \in DOMAIN regs : j # handles[h].key => regs'[j] = regs[j]
  BY <1>1, <1>2, ReactorFacts
<1>5. /\ DOMAIN futures' = DOMAIN futures
      /\ futures'[f].obj = h /\ futures'[f].op = "polled"
      /\ \A u \in DOMAIN futures : u # f => futures'[u] = futures[u]
  BY <1>1, ReactorFacts DEF IsSlab
<1>6. f \in DOMAIN futures /\ UNCHANGED polling
  BY <1>1
<1> QED
  BY <1>2, <1>3, <1>4, <1>5, <1>6, ReactorFacts

LEMMA PendingEffect ==
  ASSUME RP!Inv, NEW f, NEW h \in DOMAIN handles, h = futures[f].obj, R!NotReady(f) \/ R!WouldBlock(f)
  PROVE  /\ f \in DOMAIN futures
         /\ DOMAIN handles' = DOMAIN handles
         /\ R!Reg(h)' = [ready |-> FALSE, waker |-> R!Reg(h).waker]
         /\ \A g \in DOMAIN handles : g # h => R!Reg(g)' = R!Reg(g)
         /\ DOMAIN futures' = DOMAIN futures
         /\ futures'[f].obj = h /\ futures'[f].op = "pending"
         /\ \A u \in DOMAIN futures : u # f => futures'[u] = futures[u]
         /\ UNCHANGED polling
<1>0. /\ f \in DOMAIN futures
      /\ futures' = [futures EXCEPT ![f].op = "pending"]
      /\ UNCHANGED <<handles, polling>>
  BY DEF R!NotReady, R!WouldBlock, R!Polled
<1>1. /\ f \in DOMAIN futures /\ UNCHANGED <<handles, polling>>
      /\ DOMAIN futures' = DOMAIN futures
      /\ futures'[f].obj = h /\ futures'[f].op = "pending"
      /\ \A u \in DOMAIN futures : u # f => futures'[u] = futures[u]
  BY <1>0, ReactorFacts DEF IsSlab
<1>2. h \in DOMAIN handles
  BY <1>1, ReactorFacts
<1>3. CASE R!NotReady(f)
  <2>1. regs' = regs /\ regs[handles[h].key].ready = FALSE
    BY <1>2, <1>3, ReactorFacts DEF R!NotReady, R!IsReady, R!Object
  <2> QED
    BY <1>1, <1>2, <2>1, ReactorFacts
<1>4. CASE R!WouldBlock(f)
  <2>1. regs' = [regs EXCEPT ![handles[h].key].ready = FALSE]
    BY <1>4 DEF R!WouldBlock, R!Object
  <2>2. /\ regs'[handles[h].key] = [ready |-> FALSE, waker |-> regs[handles[h].key].waker]
        /\ \A j \in DOMAIN regs : j # handles[h].key => regs'[j] = regs[j]
    <3>1. PICK k : k = handles[h].key
      OBVIOUS
    <3>2. k \in DOMAIN regs /\ regs[k] \in [ready : BOOLEAN, waker : TaskId \cup {None}]
      BY <1>2, <3>1, ReactorFacts
    <3> QED
      BY <2>1, <3>1, <3>2
  <2> QED
    BY <1>1, <1>2, <2>2, ReactorFacts
<1> QED
  BY <1>3, <1>4

LEMMA DropFutureEffect ==
  ASSUME RP!Inv, NEW f, NEW h \in DOMAIN handles, h = futures[f].obj, R!DropFuture(f)
  PROVE  /\ f \in DOMAIN futures
         /\ DOMAIN handles' = DOMAIN handles
         /\ R!Reg(h)' = [ready |-> R!Reg(h).ready, waker |-> None]
         /\ \A g \in DOMAIN handles : g # h => R!Reg(g)' = R!Reg(g)
         /\ futures' = Without(futures, f)
         /\ UNCHANGED polling
<1>1. /\ f \in DOMAIN futures
      /\ futures' = Without(futures, f)
      /\ handles' = [handles EXCEPT ![h].last = None]
      /\ regs' = [regs EXCEPT ![handles[h].key].waker = None]
      /\ UNCHANGED polling
  BY DEF R!DropFuture, R!Object, Without, R!Without
<1>2. h \in DOMAIN handles
  BY <1>1, ReactorFacts
<1>3. DOMAIN handles' = DOMAIN handles
      /\ \A g \in DOMAIN handles : handles'[g].key = handles[g].key
  BY <1>1, <1>2
<1>4. /\ regs'[handles[h].key] = [ready |-> regs[handles[h].key].ready, waker |-> None]
      /\ \A j \in DOMAIN regs : j # handles[h].key => regs'[j] = regs[j]
  BY <1>1, <1>2, ReactorFacts
<1> QED
  BY <1>1, <1>2, <1>3, <1>4, ReactorFacts

LEMMA PollEventEffect ==
  ASSUME RP!Inv, R!PollEvent
  PROVE  /\ handles' = handles
         /\ \A g \in DOMAIN handles :
              R!Reg(g)' = IF handles[g].key = R!EventKey
                          THEN [ready |-> TRUE, waker |-> None] ELSE R!Reg(g)
         /\ UNCHANGED <<futures, polling>>
  BY ReactorFacts DEF R!PollEvent

-----------------------------------------------------------------------------
(* A step of the future of task t, which is being polled: what it leaves   *)
(* alone, what it may do, and what the invariant says of t itself.         *)
OthersKept(t) ==
  /\ DOMAIN fut' = DOMAIN fut
  /\ \A u \in Others(t) :
       /\ fut'[u] = fut[u]
       /\ u \in DOMAIN futures' <=> u \in DOMAIN futures
       /\ u \in DOMAIN futures => futures'[u] = futures[u]
  /\ DOMAIN futures' \subseteq DOMAIN futures \cup {t}
  /\ UNCHANGED <<tasks, awake, polling>>
  /\ \A u \in TaskId \ {t} : clones'[u] = clones[u]
  /\ \A h \in DOMAIN handles : ~ Owns(t, h) =>
       h \in DOMAIN handles' /\ R!Reg(h)' = R!Reg(h)

OwnsNew(t) ==
  /\ \A h \in DOMAIN handles' : (h \in DOMAIN handles /\ ~ Owns(t, h)) \/ Owns(t, h)'
  /\ \A h : Owns(t, h)' => h \in DOMAIN handles' /\ (Owns(t, h) \/ h \notin DOMAIN handles)
  /\ fut'[t].io # None => fut'[t].io # fut'[t].stream

StillThere(t) ==
  /\ IsSlab(fut', TaskId, FutType)
  /\ fut'[t].op = "accept" <=> fut[t].op = "accept"
  /\ fut'[t].left = fut[t].left
  /\ fut[t].at \in {"close", "closed"} => fut'[t].at \in {"close", "closed"}

PollGoesOn(t) ==
  /\ panic' = "none"
  /\ \/ cur' = t /\ pc' = "poll" /\ fut'[t].at # "closed"
     \/ cur' = t /\ pc' = "drop" /\ fut'[t].at = "closed"
     \/ cur' = None /\ pc' = "pick" /\ Waits(t)'

LEMMA PollStep ==
  ASSUME Inv, NEW t \in tasks, cur = t, pc = "poll",
         OthersKept(t), OwnsNew(t), StillThere(t), PollGoesOn(t),
         Shape(t)', InPlace(t)', clones'[t] = IF HasClone(t)' THEN 1 ELSE 0
  PROVE  OwnInv'
<1>0. /\ t \in TaskId /\ t \in DOMAIN fut
      /\ \A u \in DOMAIN fut : u # t => u \in Others(t)
      /\ \A u \in Others(t) : u \in DOMAIN fut /\ u # t
      /\ Others(t)' = Others(t)
  BY ExecutorFacts DEF Inv, OwnInv, FutsAreTasks, Others, OthersKept
<1>k. \A u \in Others(t) : \A h : (Owns(u, h)' <=> Owns(u, h)) /\
         (Owns(u, h) => ~ Owns(t, h) /\ h \in DOMAIN handles /\ h \in DOMAIN handles'
                        /\ R!Reg(h)' = R!Reg(h))
  BY <1>0 DEF OthersKept, Owns, Inv, OwnInv, OneOwner
<1>1. FutsAreTasks'
  BY <1>0 DEF FutsAreTasks, OthersKept, StillThere, Inv, OwnInv
<1>2. FutsInShape'
  <2>1. ASSUME NEW u \in Others(t) PROVE Shape(u)'
    BY <2>1, <1>0 DEF OthersKept, Inv, OwnInv, FutsInShape, Shape
  <2> QED
    BY <2>1, <1>0 DEF FutsInShape, OthersKept
<1>3. OneOwner'
  BY <1>0, <1>k DEF OneOwner, OwnsNew, OthersKept, Inv, OwnInv
<1>4. WakersInPlace'
  <2>1. ASSUME NEW u \in Others(t) PROVE InPlace(u)'
    <3>1. InPlace(u) /\ Shape(u)
      BY <1>0 DEF Inv, OwnInv, WakersInPlace, FutsInShape
    <3> QED
      BY <3>1, <1>0, <1>k DEF OthersKept, InPlace, Shape, Owns
  <2> QED
    BY <2>1, <1>0 DEF WakersInPlace, OthersKept
<1>5. CloneIsBound'
  <2>1. ASSUME NEW u \in TaskId, u # t PROVE HasClone(u)' <=> HasClone(u)
    BY <2>1, <1>0, <1>k DEF OthersKept, HasClone, Owns
  <2> QED
    BY <2>1, <1>0 DEF CloneIsBound, OthersKept, Inv, OwnInv
<1>6. OthersWait'
  <2>1. ASSUME NEW u \in Others(t) PROVE Waits(u)'
    <3>1. Waits(u)
      BY <1>0 DEF Inv, OwnInv, OthersWait
    <3>2. Shape(u)
      BY <1>0 DEF Inv, OwnInv, FutsInShape
    <3> QED
      BY <3>1, <3>2, <1>0, <1>k DEF Waits, Armed, OthersKept, Owns, Shape
  <2> QED
    BY <2>1, <1>0 DEF OthersWait, PollGoesOn, OthersKept
<1>7. InStep'
  BY <1>0 DEF InStep, PollGoesOn, OthersKept, Inv, OwnInv
<1>8. RoomForAll'
  <2>1. ASSUME NEW u \in Others(t) PROVE HasRoom(u)'
    BY <2>1, <1>0 DEF OthersKept, Inv, OwnInv, RoomForAll, HasRoom, Others, StillThere
  <2>2. HasRoom(t)'
    BY <1>0 DEF OthersKept, Inv, OwnInv, RoomForAll, HasRoom, StillThere
  <2> QED
    BY <2>1, <2>2, <1>0 DEF RoomForAll, OthersKept
<1> QED
  BY <1>1, <1>2, <1>3, <1>4, <1>5, <1>6, <1>7, <1>8 DEF OwnInv, NoPanic, PollGoesOn

-----------------------------------------------------------------------------
(* What the invariant says of the task being polled. *)
UnderPoll(t) ==
  /\ t \in tasks /\ t \in TaskId /\ t \in DOMAIN fut /\ fut[t] \in FutType
  /\ pc = "poll" /\ panic = "none" /\ fut[t].at # "closed"
  /\ Shape(t) /\ InPlace(t) /\ HasRoom(t)
  /\ clones[t] = IF HasClone(t) THEN 1 ELSE 0
  /\ \A h : Owns(t, h) => h \in DOMAIN handles
  /\ fut[t].io # None => fut[t].io # fut[t].stream

LEMMA PolledTask ==
  ASSUME Inv, Running, NEW t, t = cur
  PROVE  UnderPoll(t)
<1>1. t \in tasks /\ t \in TaskId /\ t \in DOMAIN fut /\ fut[t] \in FutType
      /\ pc = "poll" /\ panic = "none"
  BY ExecutorFacts DEF Inv, OwnInv, FutsAreTasks, IsSlab, Running
<1> QED
  BY <1>1 DEF UnderPoll, Inv, OwnInv, FutsInShape, WakersInPlace, RoomForAll, CloneIsBound,
    OneOwner, InStep

LEMMA FutChange ==
  ASSUME Inv, NEW t \in DOMAIN fut, NEW v \in FutType, fut' = [fut EXCEPT ![t] = v]
  PROVE  /\ IsSlab(fut', TaskId, FutType)
         /\ DOMAIN fut' = DOMAIN fut
         /\ fut'[t] = v
         /\ \A u \in Others(t) : fut'[u] = fut[u]
  BY ExceptSlab DEF Inv, OwnInv, FutsAreTasks, Others

(* read(), write() and accept(): the future has the object to itself. *)
LEMMA CallInv ==
  ASSUME Inv, Call, NEW t, t = cur
  PROVE  OwnInv' /\ OthersKept(t) /\ StillThere(t)
<1>t. PICK h : h = fut[cur].io
  OBVIOUS
<1>v. PICK v : v = [fut[t] EXCEPT !.at = "bind"]
  OBVIOUS
<1>0. /\ Running /\ fut[t].at = "call" /\ R!Start(t, h)
      /\ fut' = [fut EXCEPT ![t] = v] /\ UNCHANGED execVars
  BY <1>t, <1>v DEF Call, Self, Goto
<1>1. UnderPoll(t)
  BY <1>0, <1>t, PolledTask
<1>2. /\ v \in FutType /\ v.at = "bind" /\ v.io = h /\ v.stream = fut[t].stream
      /\ v.op = fut[t].op /\ v.left = fut[t].left
  BY <1>1, <1>t, <1>v DEF UnderPoll, FutType, Points
<1>3. /\ IsSlab(fut', TaskId, FutType) /\ DOMAIN fut' = DOMAIN fut
      /\ fut'[t] = v /\ \A u \in Others(t) : fut'[u] = fut[u]
  BY <1>0, <1>1, <1>2, FutChange DEF UnderPoll
<1>4. /\ DOMAIN futures' = DOMAIN futures \cup {t} /\ futures'[t].obj = h
      /\ \A u \in DOMAIN futures : u # t => futures'[u] = futures[u]
      /\ UNCHANGED <<regs, handles, polling>>
  BY <1>0 DEF R!Start, R!With
<1>5. UNCHANGED <<tasks, awake, clones, cur, pc, panic>>
  BY <1>0 DEF execVars
<1>6. OthersKept(t)
  BY <1>3, <1>4, <1>5 DEF OthersKept, Others
<1>7. OwnsNew(t) /\ StillThere(t) /\ PollGoesOn(t)
  BY <1>t, <1>0, <1>1, <1>2, <1>3, <1>4, <1>5
  DEF OwnsNew, StillThere, PollGoesOn, Owns, UnderPoll
<1>8. Shape(t)' /\ InPlace(t)'
  BY <1>t, <1>0, <1>1, <1>2, <1>3, <1>4 DEF Shape, InPlace, UnderPoll
<1>9. clones'[t] = IF HasClone(t)' THEN 1 ELSE 0
  BY <1>t, <1>1, <1>2, <1>3, <1>4, <1>5 DEF HasClone, UnderPoll
<1> QED
  BY <1>t, <1>1, <1>6, <1>7, <1>8, <1>9, PollStep DEF UnderPoll

(* bind_waker clones the waker unless the one that is bound is the task's. *)
LEMMA BindInv ==
  ASSUME Inv, Bind, NEW t, t = cur
  PROVE  OwnInv' /\ OthersKept(t) /\ StillThere(t)
<1>t. PICK h : h = fut[cur].io
  OBVIOUS
<1>v. PICK v : v = [fut[t] EXCEPT !.at = "try"]
  OBVIOUS
<1>0. /\ Running /\ fut[t].at = "bind" /\ R!BindWaker(t, t)
      /\ fut' = [fut EXCEPT ![t] = v]
      /\ IF R!Reg(h).waker = None THEN E!CloneWaker(t) ELSE UNCHANGED execVars
  BY <1>t, <1>v DEF Bind, Self, Goto
<1>1. UnderPoll(t)
  BY <1>0, <1>t, PolledTask
<1>2. /\ v \in FutType /\ v.at = "try" /\ v.io = h /\ v.stream = fut[t].stream
      /\ v.op = fut[t].op /\ v.left = fut[t].left
  BY <1>1, <1>t, <1>v DEF UnderPoll, FutType, Points
<1>3. /\ IsSlab(fut', TaskId, FutType) /\ DOMAIN fut' = DOMAIN fut
      /\ fut'[t] = v /\ \A u \in Others(t) : fut'[u] = fut[u]
  BY <1>0, <1>1, <1>2, FutChange DEF UnderPoll
<1>h. /\ h = futures[t].obj /\ h # None /\ Owns(t, h) /\ h \in DOMAIN handles
      /\ t \in DOMAIN futures /\ t # None /\ t \in TaskId
      /\ R!Reg(h) \in [ready : BOOLEAN, waker : TaskId \cup {None}]
  BY <1>t, <1>0, <1>1, ReactorFacts, SlotAssumption DEF UnderPoll, Shape, Owns, Inv
<1>4. /\ DOMAIN handles' = DOMAIN handles
      /\ R!Reg(h)' = [ready |-> R!Reg(h).ready, waker |-> t]
      /\ \A g \in DOMAIN handles : g # h => R!Reg(g)' = R!Reg(g)
      /\ DOMAIN futures' = DOMAIN futures /\ futures'[t].obj = h /\ futures'[t].op = "polled"
      /\ \A u \in DOMAIN futures : u # t => futures'[u] = futures[u]
      /\ UNCHANGED polling
  BY <1>0, <1>h, BindEffect DEF Inv
<1>5. /\ UNCHANGED <<tasks, awake, cur, pc, panic>>
      /\ \A u \in TaskId \ {t} : clones'[u] = clones[u]
      /\ clones'[t] = 1
  <2>1. CASE R!Reg(h).waker = None
    <3>1. /\ UNCHANGED <<tasks, awake, cur, pc, panic>>
          /\ clones' = [clones EXCEPT ![t] = @ + 1]
      BY <1>0, <2>1 DEF E!CloneWaker
    <3>2. clones[t] = 0
      BY <1>1, <1>h, <1>t, <2>1 DEF UnderPoll, HasClone
    <3> QED
      BY <3>1, <3>2, <1>h, ExecutorFacts DEF Inv
  <2>2. CASE R!Reg(h).waker # None
    BY <1>0, <1>1, <1>h, <1>t, <2>2 DEF execVars, UnderPoll, HasClone, InPlace
  <2> QED
    BY <2>1, <2>2
<1>6. OthersKept(t)
  BY <1>3, <1>4, <1>5, <1>h DEF OthersKept, Others
<1>7. OwnsNew(t) /\ StillThere(t) /\ PollGoesOn(t)
  BY <1>t, <1>0, <1>1, <1>2, <1>3, <1>4, <1>5, <1>h
  DEF OwnsNew, StillThere, PollGoesOn, Owns, UnderPoll
<1>8. Shape(t)' /\ InPlace(t)'
  BY <1>t, <1>0, <1>1, <1>2, <1>3, <1>4, <1>h DEF Shape, InPlace, UnderPoll
<1>9. clones'[t] = IF HasClone(t)' THEN 1 ELSE 0
  BY <1>t, <1>1, <1>2, <1>3, <1>4, <1>5, <1>h DEF HasClone, UnderPoll
<1> QED
  BY <1>t, <1>1, <1>6, <1>7, <1>8, <1>9, PollStep DEF UnderPoll

(* The poll returns Pending: the object is not ready, or is no more. *)
LEMMA TryPendingInv ==
  ASSUME Inv, TryPending, NEW t, t = cur
  PROVE  OwnInv' /\ OthersKept(t) /\ StillThere(t)
<1>t. PICK h : h = fut[cur].io
  OBVIOUS
<1>0. /\ Running /\ fut[t].at = "try" /\ E!PollPending
      /\ R!NotReady(t) \/ R!WouldBlock(t)
      /\ \/ fut' = [fut EXCEPT ![t].at = "bind"]
         \/ fut' = [fut EXCEPT ![t].at = "bind", ![t].calls = NextCall(@)]
  BY <1>t DEF TryPending, Self, Goto
<1>1. UnderPoll(t)
  BY <1>0, <1>t, PolledTask
<1>2. PICK v \in FutType :
        /\ fut' = [fut EXCEPT ![t] = v]
        /\ v.at = "bind" /\ v.io = h /\ v.stream = fut[t].stream
        /\ v.op = fut[t].op /\ v.left = fut[t].left
  <2>1. NextCall(fut[t].calls) \in Parity
    BY <1>1 DEF UnderPoll, FutType, NextCall, Parity
  <2>2. CASE fut' = [fut EXCEPT ![t].at = "bind"]
    <3> DEFINE w == [fut[t] EXCEPT !.at = "bind"]
    <3>1. fut' = [fut EXCEPT ![t] = w]
      BY <2>2
    <3>2. /\ w \in FutType /\ w.at = "bind" /\ w.io = h /\ w.stream = fut[t].stream
          /\ w.op = fut[t].op /\ w.left = fut[t].left
      BY <1>1, <1>t DEF UnderPoll, FutType, Points
    <3> HIDE DEF w
    <3> QED
      BY <3>1, <3>2
  <2>3. CASE fut' = [fut EXCEPT ![t].at = "bind", ![t].calls = NextCall(@)]
    <3> DEFINE w == [fut[t] EXCEPT !.at = "bind", !.calls = NextCall(@)]
    <3>1. fut' = [fut EXCEPT ![t] = w]
      BY <2>3, <1>1 DEF UnderPoll, FutType
    <3>2. /\ w \in FutType /\ w.at = "bind" /\ w.io = h /\ w.stream = fut[t].stream
          /\ w.op = fut[t].op /\ w.left = fut[t].left
      BY <2>1, <1>1, <1>t DEF UnderPoll, FutType, Points
    <3> HIDE DEF w
    <3> QED
      BY <3>1, <3>2
  <2> QED
    BY <1>0, <2>2, <2>3
<1>3. /\ IsSlab(fut', TaskId, FutType) /\ DOMAIN fut' = DOMAIN fut
      /\ fut'[t] = v /\ \A u \in Others(t) : fut'[u] = fut[u]
  BY <1>1, <1>2, FutChange DEF UnderPoll
<1>h. /\ h = futures[t].obj /\ h # None /\ Owns(t, h) /\ h \in DOMAIN handles
      /\ t \in DOMAIN futures /\ t # None
      /\ R!Reg(h).waker = t
  BY <1>t, <1>0, <1>1, SlotAssumption DEF UnderPoll, Shape, Owns, InPlace
<1>4. /\ DOMAIN handles' = DOMAIN handles
      /\ R!Reg(h)' = [ready |-> FALSE, waker |-> R!Reg(h).waker]
      /\ \A g \in DOMAIN handles : g # h => R!Reg(g)' = R!Reg(g)
      /\ DOMAIN futures' = DOMAIN futures /\ futures'[t].obj = h /\ futures'[t].op = "pending"
      /\ \A u \in DOMAIN futures : u # t => futures'[u] = futures[u]
      /\ UNCHANGED polling
  BY <1>0, <1>h, PendingEffect DEF Inv
<1>5. UNCHANGED <<tasks, awake, clones, panic>> /\ cur' = None /\ pc' = "pick"
  BY <1>0 DEF E!PollPending
<1>6. OthersKept(t)
  BY <1>3, <1>4, <1>5, <1>h DEF OthersKept, Others
<1>7. OwnsNew(t) /\ StillThere(t)
  BY <1>t, <1>0, <1>1, <1>2, <1>3, <1>4, <1>h DEF OwnsNew, StillThere, Owns, UnderPoll
<1>8. PollGoesOn(t)
  BY <1>1, <1>2, <1>3, <1>4, <1>5, <1>h DEF PollGoesOn, UnderPoll, Waits, Armed
<1>9. Shape(t)' /\ InPlace(t)'
  BY <1>t, <1>0, <1>1, <1>2, <1>3, <1>4, <1>h DEF Shape, InPlace, UnderPoll
<1>10. clones'[t] = IF HasClone(t)' THEN 1 ELSE 0
  BY <1>t, <1>1, <1>2, <1>3, <1>4, <1>5, <1>h DEF HasClone, UnderPoll
<1> QED
  BY <1>t, <1>1, <1>6, <1>7, <1>8, <1>9, <1>10, PollStep DEF UnderPoll

(* The call succeeds. *)
LEMMA TryOkInv ==
  ASSUME Inv, TryOk, NEW t, t = cur
  PROVE  OwnInv' /\ OthersKept(t) /\ StillThere(t)
<1>t. PICK h, p : /\ h = fut[cur].io
                  /\ p = IF fut[cur].op = "accept" THEN "wrap" ELSE "finish"
  OBVIOUS
<1>0. /\ Running /\ fut[t].at = "try" /\ R!Complete(t) /\ UNCHANGED execVars
      /\ fut' = [fut EXCEPT ![t].at = p, ![t].calls = NextCall(@)]
  BY <1>t DEF TryOk, Self
<1>1. UnderPoll(t)
  BY <1>0, <1>t, PolledTask
<1>2. PICK v \in FutType :
        /\ fut' = [fut EXCEPT ![t] = v]
        /\ v.at = p /\ v.io = h /\ v.stream = fut[t].stream
        /\ v.op = fut[t].op /\ v.left = fut[t].left
  <2>1. NextCall(fut[t].calls) \in Parity /\ p \in Points
    BY <1>1, <1>t DEF UnderPoll, FutType, NextCall, Parity, Points
  <2> DEFINE w == [fut[t] EXCEPT !.at = p, !.calls = NextCall(@)]
  <2>2. fut' = [fut EXCEPT ![t] = w]
    BY <1>0, <1>1 DEF UnderPoll, FutType
  <2>3. /\ w \in FutType /\ w.at = p /\ w.io = h /\ w.stream = fut[t].stream
        /\ w.op = fut[t].op /\ w.left = fut[t].left
    BY <2>1, <1>1, <1>t DEF UnderPoll, FutType
  <2> HIDE DEF w
  <2> QED
    BY <2>2, <2>3
<1>3. /\ IsSlab(fut', TaskId, FutType) /\ DOMAIN fut' = DOMAIN fut
      /\ fut'[t] = v /\ \A u \in Others(t) : fut'[u] = fut[u]
  BY <1>1, <1>2, FutChange DEF UnderPoll
<1>4. /\ DOMAIN futures' = DOMAIN futures
      /\ t \in DOMAIN futures => futures'[t].obj = futures[t].obj /\ futures'[t].op = "done"
      /\ \A u \in DOMAIN futures : u # t => futures'[u] = futures[u]
      /\ UNCHANGED <<regs, handles, polling>>
  BY <1>0, ReactorFacts DEF R!Complete, Inv, IsSlab
<1>5. UNCHANGED <<tasks, awake, clones, cur, pc, panic>>
  BY <1>0 DEF execVars
<1>6. OthersKept(t)
  BY <1>3, <1>4, <1>5 DEF OthersKept, Others
<1>7. OwnsNew(t) /\ StillThere(t) /\ PollGoesOn(t)
  BY <1>t, <1>0, <1>1, <1>2, <1>3, <1>4, <1>5
  DEF OwnsNew, StillThere, PollGoesOn, Owns, UnderPoll
<1>8. Shape(t)' /\ InPlace(t)'
  BY <1>t, <1>0, <1>1, <1>2, <1>3, <1>4 DEF Shape, InPlace, UnderPoll
<1>9. clones'[t] = IF HasClone(t)' THEN 1 ELSE 0
  BY <1>t, <1>1, <1>2, <1>3, <1>4, <1>5 DEF HasClone, UnderPoll
<1> QED
  BY <1>t, <1>1, <1>6, <1>7, <1>8, <1>9, PollStep DEF UnderPoll

(* The I/O future is dropped, and with it the waker bound for it. *)
LEMMA FinishInv ==
  ASSUME Inv, Finish, NEW t, t = cur
  PROVE  OwnInv' /\ OthersKept(t) /\ StillThere(t)
<1>t. PICK h : h = fut[cur].io
  OBVIOUS
<1>v. PICK v : v = CASE fut[t].op = "accept" -> [fut[t] EXCEPT !.at = "spawn"]
                     [] fut[t].op = "read"   -> [fut[t] EXCEPT !.at = "call", !.op = "write"]
                     [] fut[t].op = "write"  -> [fut[t] EXCEPT !.at = "close"]
  OBVIOUS
<1>0. /\ Running /\ fut[t].at = "finish" /\ R!DropFuture(t)
      /\ IF R!Reg(h).waker = None THEN UNCHANGED execVars ELSE E!DropWaker(t)
  BY <1>t DEF Finish, Self
<1>a. fut' = [fut EXCEPT ![t] = v]
  BY <1>t, <1>v, Zenon DEF Finish
<1>1. UnderPoll(t)
  BY <1>0, <1>t, PolledTask
<1>2. /\ v \in FutType /\ v.io = h /\ v.stream = fut[t].stream /\ v.left = fut[t].left
      /\ \/ v.op = "accept" /\ fut[t].op = "accept" /\ v.at = "spawn"
         \/ v.op = "write" /\ fut[t].op # "accept" /\ v.at \in {"call", "close"}
  BY <1>1, <1>t, <1>v DEF UnderPoll, FutType, Points, Ops
<1>3. /\ IsSlab(fut', TaskId, FutType) /\ DOMAIN fut' = DOMAIN fut
      /\ fut'[t] = v /\ \A u \in Others(t) : fut'[u] = fut[u]
  BY <1>a, <1>1, <1>2, FutChange DEF UnderPoll
<1>h. /\ h = futures[t].obj /\ h # None /\ Owns(t, h) /\ h \in DOMAIN handles
      /\ t \in DOMAIN futures /\ t # None /\ t \in TaskId /\ t \in tasks
      /\ R!Reg(h).waker \in {t, None}
      /\ fut[t].stream # None => fut[t].stream \in DOMAIN handles /\ fut[t].stream # h
  BY <1>t, <1>0, <1>1, SlotAssumption DEF UnderPoll, Shape, Owns, InPlace
<1>4. /\ DOMAIN handles' = DOMAIN handles
      /\ R!Reg(h)' = [ready |-> R!Reg(h).ready, waker |-> None]
      /\ \A g \in DOMAIN handles : g # h => R!Reg(g)' = R!Reg(g)
      /\ futures' = Without(futures, t)
      /\ UNCHANGED polling
  BY <1>0, <1>h, DropFutureEffect DEF Inv
<1>f. /\ DOMAIN futures' = DOMAIN futures \ {t}
      /\ \A u \in DOMAIN futures : u # t => futures'[u] = futures[u]
  BY <1>4 DEF Without
<1>5. /\ UNCHANGED <<tasks, awake, cur, pc, panic>>
      /\ \A u \in TaskId \ {t} : clones'[u] = clones[u]
      /\ clones'[t] = 0
  <2>1. CASE R!Reg(h).waker = None
    BY <1>0, <1>1, <1>h, <1>t, <2>1 DEF execVars, UnderPoll, HasClone
  <2>2. CASE R!Reg(h).waker = t
    <3>1. clones[t] = 1 /\ refs[t] = 2
      BY <1>1, <1>h, <1>t, <2>2, ExecutorFacts DEF Inv, UnderPoll, HasClone
    <3>2. /\ UNCHANGED <<tasks, awake, cur, pc, panic>>
          /\ clones' = [clones EXCEPT ![t] = @ - 1]
      BY <1>0, <1>h, <2>2, <3>1 DEF E!DropWaker, E!Release
    <3> QED
      BY <3>1, <3>2, <1>h, ExecutorFacts DEF Inv
  <2> QED
    BY <1>h, <2>1, <2>2
<1>6. OthersKept(t)
  BY <1>3, <1>4, <1>f, <1>5, <1>h DEF OthersKept, Others
<1>7. OwnsNew(t) /\ StillThere(t) /\ PollGoesOn(t)
  BY <1>t, <1>0, <1>1, <1>2, <1>3, <1>4, <1>5, <1>h
  DEF OwnsNew, StillThere, PollGoesOn, Owns, UnderPoll
<1>8. Shape(t)'
  BY <1>t, <1>0, <1>1, <1>2, <1>3, <1>f, <1>h DEF Shape, UnderPoll
<1>9. InPlace(t)'
  BY <1>t, <1>0, <1>1, <1>2, <1>3, <1>4, <1>h DEF InPlace, UnderPoll
<1>10. clones'[t] = IF HasClone(t)' THEN 1 ELSE 0
  BY <1>t, <1>1, <1>2, <1>3, <1>4, <1>5, <1>h DEF HasClone, UnderPoll
<1> QED
  BY <1>t, <1>1, <1>6, <1>7, <1>8, <1>9, <1>10, PollStep DEF UnderPoll

(* The future returns and drops its listener or stream, which holds no     *)
(* waker any more.                                                         *)
LEMMA CloseInv ==
  ASSUME Inv, Close, NEW t, t = cur
  PROVE  OwnInv' /\ OthersKept(t) /\ StillThere(t)
<1>t. PICK h : h = fut[cur].io
  OBVIOUS
<1>v. PICK v : v = [fut[t] EXCEPT !.at = "closed", !.io = None]
  OBVIOUS
<1>0. /\ Running /\ fut[t].at = "close" /\ R!Drop(h) /\ E!PollReady
      /\ fut' = [fut EXCEPT ![t].at = "closed", ![t].io = None]
  BY <1>t DEF Close, Self
<1>1. UnderPoll(t)
  BY <1>0, <1>t, PolledTask
<1>a. fut' = [fut EXCEPT ![t] = v]
  BY <1>0, <1>1, <1>v DEF UnderPoll, FutType
<1>2. /\ v \in FutType /\ v.at = "closed" /\ v.io = None /\ v.stream = fut[t].stream
      /\ v.op = fut[t].op /\ v.left = fut[t].left
  BY <1>1, <1>v DEF UnderPoll, FutType, Points
<1>3. /\ IsSlab(fut', TaskId, FutType) /\ DOMAIN fut' = DOMAIN fut
      /\ fut'[t] = v /\ \A u \in Others(t) : fut'[u] = fut[u]
  BY <1>a, <1>1, <1>2, FutChange DEF UnderPoll
<1>h. /\ h # None /\ Owns(t, h) /\ fut[t].stream = None /\ t \notin DOMAIN futures
      /\ R!Reg(h).waker = None /\ t # None
  BY <1>t, <1>0, <1>1, SlotAssumption DEF UnderPoll, Shape, Owns, InPlace
<1>4. /\ h \in DOMAIN handles
      /\ DOMAIN handles' = DOMAIN handles \ {h}
      /\ \A g \in DOMAIN handles' : R!Reg(g)' = R!Reg(g)
      /\ UNCHANGED <<futures, polling>>
  BY <1>0, DropEffect DEF Inv
<1>5. UNCHANGED <<tasks, awake, clones, cur, panic>> /\ pc' = "drop"
  BY <1>0 DEF E!PollReady
<1>6. OthersKept(t)
  BY <1>3, <1>4, <1>5, <1>h DEF OthersKept, Others
<1>7. OwnsNew(t) /\ StillThere(t) /\ PollGoesOn(t)
  BY <1>t, <1>0, <1>1, <1>2, <1>3, <1>4, <1>5, <1>h
  DEF OwnsNew, StillThere, PollGoesOn, Owns, UnderPoll
<1>8. Shape(t)' /\ InPlace(t)'
  BY <1>t, <1>0, <1>1, <1>2, <1>3, <1>4, <1>h DEF Shape, InPlace, UnderPoll
<1>9. clones'[t] = IF HasClone(t)' THEN 1 ELSE 0
  BY <1>t, <1>1, <1>2, <1>3, <1>5, <1>h DEF HasClone, UnderPoll
<1> QED
  BY <1>t, <1>1, <1>6, <1>7, <1>8, <1>9, PollStep DEF UnderPoll

-----------------------------------------------------------------------------
(* Room in the slabs.  While the listen task has connections left to       *)
(* accept there are at most Conns tasks, it included ...                   *)
LEMMA InjectionBound ==
  ASSUME NEW S, NEW T, IsFiniteSet(T), NEW g \in [S -> T], \A a, b \in S : g[a] = g[b] => a = b
  PROVE  IsFiniteSet(S) /\ Cardinality(S) <= Cardinality(T)
<1>1. g \in Injection(S, T)
  BY DEF Injection, IsInjective
<1> QED
  BY <1>1, FS_Injection

LEMMA TaskCount ==
  ASSUME Inv, NEW t \in DOMAIN fut, fut[t].op = "accept", fut[t].at \notin {"close", "closed"}
  PROVE  /\ IsFiniteSet(DOMAIN fut) /\ IsFiniteSet(Others(t))
         /\ Cardinality(DOMAIN fut) \in Nat
         /\ Cardinality(DOMAIN fut) = Cardinality(Others(t)) + 1
         /\ Cardinality(DOMAIN fut) <= Conns
<1>1. DOMAIN fut \subseteq TaskId /\ fut[t] \in FutType /\ HasRoom(t)
  BY DEF Inv, OwnInv, FutsAreTasks, IsSlab, RoomForAll
<1>2. IsFiniteSet(DOMAIN fut) /\ Cardinality(DOMAIN fut) \in Nat
  BY <1>1, SlotAssumption, FS_Subset, FS_CardinalityType
<1>3. IsFiniteSet(Others(t)) /\ Cardinality(Others(t)) = Cardinality(DOMAIN fut) - 1
  BY <1>2, FS_RemoveElement DEF Others
<1>4. fut[t].left \in 1 .. Conns /\ Cardinality(Others(t)) <= Conns - fut[t].left
  BY <1>1, CapacityAssumption DEF HasRoom, FutType
<1> QED
  BY <1>2, <1>3, <1>4, CapacityAssumption

(* ... and when it makes an I/O object, no task has more than one. *)
LEMMA RoomForObject ==
  ASSUME Inv, NEW t \in DOMAIN fut, fut[t].op = "accept", fut[t].at \in {"start", "wrap"}
  PROVE  R!CanRegister /\ NewHandle \in Handle /\ NewHandle \notin DOMAIN handles
<1>1. /\ IsFiniteSet(DOMAIN fut) /\ Cardinality(DOMAIN fut) \in Nat
      /\ Cardinality(DOMAIN fut) <= Conns
  BY TaskCount
<1>2. \A u \in DOMAIN fut : fut[u].stream = None
  BY DEF Inv, OwnInv, FutsInShape, Shape, RoomForAll, HasRoom, Others
<1>3. \A h \in DOMAIN handles : \E u \in DOMAIN fut : fut[u].io = h
  BY <1>2 DEF Inv, OwnInv, OneOwner, Owns
<1>4. IsFiniteSet(DOMAIN handles) /\ Cardinality(DOMAIN handles) <= Conns
  <2> DEFINE g == [h \in DOMAIN handles |-> CHOOSE u \in DOMAIN fut : fut[u].io = h]
  <2>1. \A h \in DOMAIN handles : g[h] \in DOMAIN fut /\ fut[g[h]].io = h
    BY <1>3
  <2>2. g \in [DOMAIN handles -> DOMAIN fut]
    BY <2>1
  <2>3. \A a, b \in DOMAIN handles : g[a] = g[b] => a = b
    BY <2>1
  <2> HIDE DEF g
  <2>4. IsFiniteSet(DOMAIN handles) /\ Cardinality(DOMAIN handles) <= Cardinality(DOMAIN fut)
    BY <1>1, <2>2, <2>3, InjectionBound
  <2> QED
    BY <1>1, <2>4, FS_CardinalityType, CapacityAssumption
<1>5. Cardinality(DOMAIN regs) <= Conns
  <2> DEFINE g == [k \in DOMAIN regs |-> CHOOSE h \in DOMAIN handles : handles[h].key = k]
  <2>1. \A k \in DOMAIN regs : g[k] \in DOMAIN handles /\ handles[g[k]].key = k
    BY ReactorFacts DEF Inv
  <2>2. g \in [DOMAIN regs -> DOMAIN handles]
    BY <2>1
  <2>3. \A a, b \in DOMAIN regs : g[a] = g[b] => a = b
    BY <2>1
  <2> HIDE DEF g
  <2>4. IsFiniteSet(DOMAIN regs) /\ Cardinality(DOMAIN regs) <= Cardinality(DOMAIN handles)
    BY <1>4, <2>2, <2>3, InjectionBound
  <2> QED
    BY <1>4, <2>4, FS_CardinalityType, CapacityAssumption
<1>6. R!CanRegister
  <2>1. \A S : R!Cardinality(S) = Cardinality(S)
    BY DEF R!Cardinality, Cardinality
  <2>2. Cardinality(DOMAIN regs) # Cardinality(Key)
    BY <1>5, CapacityAssumption
  <2> QED
    BY <2>1, <2>2 DEF R!CanRegister
<1>7. \E h \in Handle : h \notin DOMAIN handles
  <2> SUFFICES ASSUME Handle \subseteq DOMAIN handles PROVE FALSE
    OBVIOUS
  <2>1. Cardinality(Handle) = Conns + 2
    BY CapacityAssumption, FS_Interval DEF Handle
  <2>2. Cardinality(Handle) <= Cardinality(DOMAIN handles)
    BY <1>4, FS_Subset
  <2> QED
    BY <1>4, <2>1, <2>2, FS_CardinalityType, CapacityAssumption
<1> QED
  BY <1>6, <1>7 DEF NewHandle

(* AsyncFakeListener::new ... *)
LEMMA ListenStartInv ==
  ASSUME Inv, ListenStart, NEW t, t = cur
  PROVE  OwnInv' /\ OthersKept(t) /\ StillThere(t)
<1>t. PICK h : h = NewHandle
  OBVIOUS
<1>v. PICK v : v = [fut[t] EXCEPT !.io = h, !.at = "call"]
  OBVIOUS
<1>r. Running /\ fut[t].at = "start"
  BY <1>t DEF ListenStart, Self
<1>1. UnderPoll(t)
  BY <1>r, <1>t, PolledTask
<1>s. /\ R!CanRegister /\ h \in Handle /\ h \notin DOMAIN handles /\ h # None
      /\ fut[t].io = None /\ fut[t].stream = None /\ t # None /\ clones[t] = 0
      /\ t \notin DOMAIN futures
  BY <1>r, <1>1, <1>t, RoomForObject, SlotAssumption DEF UnderPoll, Shape, HasClone
<1>0. R!New(h, "listener") /\ UNCHANGED execVars
      /\ fut' = [fut EXCEPT ![t].io = h, ![t].at = "call"]
  BY <1>t, <1>s DEF ListenStart, MakeObject
<1>a. fut' = [fut EXCEPT ![t] = v]
  BY <1>0, <1>1, <1>v DEF UnderPoll, FutType
<1>2. /\ v \in FutType /\ v.at = "call" /\ v.io = h /\ v.stream = fut[t].stream
      /\ v.op = fut[t].op /\ v.left = fut[t].left
  BY <1>1, <1>s, <1>v DEF UnderPoll, FutType, Points
<1>3. /\ IsSlab(fut', TaskId, FutType) /\ DOMAIN fut' = DOMAIN fut
      /\ fut'[t] = v /\ \A u \in Others(t) : fut'[u] = fut[u]
  BY <1>a, <1>1, <1>2, FutChange DEF UnderPoll
<1>4. /\ DOMAIN handles' = DOMAIN handles \cup {h}
      /\ R!Reg(h)' = [ready |-> TRUE, waker |-> None]
      /\ \A g \in DOMAIN handles : R!Reg(g)' = R!Reg(g)
      /\ UNCHANGED <<futures, polling>>
  BY <1>0, NewEffect DEF Inv
<1>5. UNCHANGED <<tasks, awake, clones, cur, pc, panic>>
  BY <1>0 DEF execVars
<1>6. OthersKept(t)
  BY <1>3, <1>4, <1>5 DEF OthersKept, Others
<1>7. OwnsNew(t) /\ StillThere(t) /\ PollGoesOn(t)
  BY <1>t, <1>r, <1>s, <1>1, <1>2, <1>3, <1>4, <1>5
  DEF OwnsNew, StillThere, PollGoesOn, Owns, UnderPoll
<1>8. Shape(t)' /\ InPlace(t)'
  BY <1>t, <1>r, <1>s, <1>1, <1>2, <1>3, <1>4 DEF Shape, InPlace, UnderPoll
<1>9. clones'[t] = IF HasClone(t)' THEN 1 ELSE 0
  BY <1>s, <1>2, <1>3, <1>4, <1>5 DEF HasClone
<1> QED
  BY <1>t, <1>1, <1>6, <1>7, <1>8, <1>9, PollStep DEF UnderPoll

(* ... and AsyncFakeStream::new. *)
LEMMA WrapInv ==
  ASSUME Inv, Wrap, NEW t, t = cur
  PROVE  OwnInv' /\ OthersKept(t) /\ StillThere(t)
<1>t. PICK h : h = NewHandle
  OBVIOUS
<1>v. PICK v : v = [fut[t] EXCEPT !.stream = h, !.at = "finish"]
  OBVIOUS
<1>r. Running /\ fut[t].at = "wrap"
  BY <1>t DEF Wrap, Self
<1>1. UnderPoll(t)
  BY <1>r, <1>t, PolledTask
<1>s. /\ R!CanRegister /\ h \in Handle /\ h \notin DOMAIN handles /\ h # None
      /\ fut[t].io # None /\ fut[t].io \in DOMAIN handles /\ fut[t].stream = None
      /\ fut[t].op = "accept" /\ t # None
  BY <1>r, <1>1, <1>t, RoomForObject, SlotAssumption DEF UnderPoll, Shape, Owns
<1>0. R!New(h, "stream") /\ UNCHANGED execVars
      /\ fut' = [fut EXCEPT ![t].stream = h, ![t].at = "finish"]
  BY <1>t, <1>s DEF Wrap, MakeObject
<1>a. fut' = [fut EXCEPT ![t] = v]
  BY <1>0, <1>1, <1>v DEF UnderPoll, FutType
<1>2. /\ v \in FutType /\ v.at = "finish" /\ v.io = fut[t].io /\ v.stream = h
      /\ v.op = fut[t].op /\ v.left = fut[t].left
  BY <1>1, <1>s, <1>v DEF UnderPoll, FutType, Points
<1>3. /\ IsSlab(fut', TaskId, FutType) /\ DOMAIN fut' = DOMAIN fut
      /\ fut'[t] = v /\ \A u \in Others(t) : fut'[u] = fut[u]
  BY <1>a, <1>1, <1>2, FutChange DEF UnderPoll
<1>4. /\ DOMAIN handles' = DOMAIN handles \cup {h}
      /\ R!Reg(h)' = [ready |-> TRUE, waker |-> None]
      /\ \A g \in DOMAIN handles : R!Reg(g)' = R!Reg(g)
      /\ UNCHANGED <<futures, polling>>
  BY <1>0, NewEffect DEF Inv
<1>5. UNCHANGED <<tasks, awake, clones, cur, pc, panic>>
  BY <1>0 DEF execVars
<1>6. OthersKept(t)
  BY <1>3, <1>4, <1>5 DEF OthersKept, Others
<1>7. OwnsNew(t) /\ StillThere(t) /\ PollGoesOn(t)
  BY <1>t, <1>r, <1>s, <1>1, <1>2, <1>3, <1>4, <1>5
  DEF OwnsNew, StillThere, PollGoesOn, Owns, UnderPoll
<1>8. Shape(t)'
  BY <1>r, <1>s, <1>1, <1>2, <1>3, <1>4 DEF Shape, UnderPoll
<1>9. InPlace(t)'
  BY <1>r, <1>s, <1>1, <1>2, <1>3, <1>4 DEF InPlace, UnderPoll
<1>10. clones'[t] = IF HasClone(t)' THEN 1 ELSE 0
  BY <1>s, <1>1, <1>2, <1>3, <1>4, <1>5 DEF HasClone, UnderPoll
<1> QED
  BY <1>t, <1>1, <1>6, <1>7, <1>8, <1>9, <1>10, PollStep DEF UnderPoll

-----------------------------------------------------------------------------
(* spawn(): the connection gets the stream, and there is a slot for it. *)
LEMMA SpawnInv ==
  ASSUME Inv, Spawn
  PROVE  OwnInv'
<1>t. PICK t, s, p : /\ t = cur /\ s = fut[cur].stream
                     /\ p = IF fut[cur].left = 1 THEN "close" ELSE "call"
  OBVIOUS
<1>v. PICK v : v = [fut[t] EXCEPT !.stream = None, !.left = @ - 1, !.at = p]
  OBVIOUS
<1>r. Running /\ fut[t].at = "spawn"
  BY <1>t DEF Spawn, Self
<1>1. UnderPoll(t)
  BY <1>r, <1>t, PolledTask
<1>s. /\ t # None /\ fut[t].op = "accept" /\ t \notin DOMAIN futures
      /\ s # None /\ s \in DOMAIN handles /\ fut[t].io # None /\ fut[t].io # s
      /\ Owns(t, s) /\ R!Reg(s).waker = None /\ R!Reg(fut[t].io).waker = None
      /\ s \in Handle /\ fut[t].left \in 1 .. Conns
  BY <1>r, <1>1, <1>t, SlotAssumption, CapacityAssumption
  DEF UnderPoll, Shape, Owns, InPlace, HasRoom, FutType
<1>c. /\ DOMAIN fut = tasks /\ IsFiniteSet(Others(t)) /\ Cardinality(tasks) # Cardinality(TaskId)
      /\ Cardinality(Others(t)) \in Nat
  <2>1. DOMAIN fut = tasks
    BY DEF Inv, OwnInv, FutsAreTasks
  <2>2. /\ IsFiniteSet(DOMAIN fut) /\ IsFiniteSet(Others(t))
        /\ Cardinality(DOMAIN fut) \in Nat /\ Cardinality(DOMAIN fut) <= Conns
    BY <1>r, <1>1, <1>s, TaskCount DEF UnderPoll
  <2> QED
    BY <2>1, <2>2, CapacityAssumption, FS_CardinalityType
<1>n. PICK n \in TaskId :
        /\ E!Add(n)
        /\ fut' = With([fut EXCEPT ![t].stream = None, ![t].left = @ - 1, ![t].at = p],
                       n, Connection(s))
        /\ UNCHANGED reactVars
  BY <1>t, <1>c DEF Spawn, Self
<1>a. fut' = With([fut EXCEPT ![t] = v], n, Connection(s))
  BY <1>n, <1>1, <1>v DEF UnderPoll, FutType
<1>2. /\ v \in FutType /\ v.at = p /\ v.io = fut[t].io /\ v.stream = None
      /\ v.op = "accept" /\ v.left = fut[t].left - 1
  <2>1. p \in Points /\ fut[t].left - 1 \in 0 .. Conns
    BY <1>t, <1>s, CapacityAssumption DEF Points
  <2>2. fut[t] \in FutType
    BY <1>1 DEF UnderPoll
  <2> QED
    BY <2>1, <2>2, <1>s, <1>v DEF FutType
<1>w. /\ Connection(s) \in FutType
      /\ Connection(s).at = "call" /\ Connection(s).io = s /\ Connection(s).stream = None
      /\ Connection(s).op = "read"
  BY <1>s, CapacityAssumption DEF Connection, FutType, Points, Ops, Parity
<1>3. /\ tasks' = tasks \cup {n} /\ awake' = awake \cup {n} /\ n \notin tasks
      /\ UNCHANGED <<clones, cur, pc, panic>>
  BY <1>n DEF E!Add
<1>4. UNCHANGED <<regs, handles, futures, polling>>
  BY <1>n DEF reactVars
<1>5. /\ IsSlab(fut', TaskId, FutType)
      /\ DOMAIN fut' = DOMAIN fut \cup {n} /\ n # t /\ n # None
      /\ fut'[t] = v /\ fut'[n] = Connection(s)
      /\ \A u \in Others(t) : fut'[u] = fut[u] /\ u # n
  <2> DEFINE m == [fut EXCEPT ![t] = v]
  <2>1. /\ IsSlab(m, TaskId, FutType) /\ DOMAIN m = DOMAIN fut /\ m[t] = v
        /\ \A u \in Others(t) : m[u] = fut[u]
    BY <1>1, <1>2, ExceptSlab DEF UnderPoll, Inv, OwnInv, FutsAreTasks, Others
  <2>2. n \notin DOMAIN fut /\ n # t /\ n # None
    BY <1>1, <1>c, <1>3, SlotAssumption DEF UnderPoll
  <2> HIDE DEF m
  <2>3. fut' = With(m, n, Connection(s))
    BY <1>a DEF m
  <2>4. IsSlab(fut', TaskId, FutType)
    BY <2>1, <2>3, <1>w, WithSlab
  <2>5. /\ DOMAIN fut' = DOMAIN fut \cup {n} /\ fut'[n] = Connection(s)
        /\ \A u \in DOMAIN fut : fut'[u] = m[u]
    BY <2>1, <2>2, <2>3 DEF With
  <2> QED
    BY <2>1, <2>2, <2>4, <2>5, <1>1 DEF Others, UnderPoll
<1>o. /\ \A u \in DOMAIN fut' : u = t \/ u = n \/ u \in Others(t)
      /\ \A u \in Others(t) : u \in DOMAIN fut /\ u # t /\ u # cur /\ u # n
      /\ n \notin DOMAIN fut /\ n \notin DOMAIN futures /\ t \in DOMAIN fut
  BY <1>5, <1>c, <1>3, <1>t, <1>1 DEF Others, Inv, OwnInv, FutsAreTasks, UnderPoll
<1>6. FutsAreTasks'
  BY <1>5, <1>c, <1>3, <1>4 DEF FutsAreTasks, Inv, OwnInv
<1>7. FutsInShape'
  <2>1. Shape(t)' /\ Shape(n)'
    BY <1>2, <1>w, <1>4, <1>5, <1>s, <1>o, <1>t DEF Shape
  <2>2. ASSUME NEW u \in Others(t) PROVE Shape(u)'
    BY <1>4, <1>5, <1>o DEF Inv, OwnInv, FutsInShape, Shape
  <2> QED
    BY <2>1, <2>2, <1>o DEF FutsInShape
<1>8. OneOwner'
  <2>1. \A h : (Owns(t, h)' <=> h = fut[t].io) /\ (Owns(n, h)' <=> h = s)
    BY <1>2, <1>w, <1>5, <1>s DEF Owns
  <2>2. \A h : Owns(t, h) <=> h = fut[t].io \/ h = s
    BY <1>t, <1>s DEF Owns
  <2>3. \A u \in Others(t) : \A h : Owns(u, h)' <=> Owns(u, h)
    BY <1>5 DEF Owns
  <2>4. OneOwner
    BY DEF Inv, OwnInv
  <2>5. \A u \in DOMAIN fut' : fut'[u].io # None => fut'[u].io # fut'[u].stream
    BY <2>4, <1>2, <1>w, <1>5, <1>s, <1>o DEF OneOwner
  <2>6. \A u \in DOMAIN fut' : \A h : Owns(u, h)' => h \in DOMAIN handles'
    BY <2>1, <2>2, <2>3, <2>4, <1>4, <1>o DEF OneOwner
  <2>7. \A h \in DOMAIN handles' : \E u \in DOMAIN fut' : Owns(u, h)'
    BY <2>1, <2>2, <2>3, <2>4, <1>4, <1>5, <1>o DEF OneOwner
  <2>8. \A u, w \in DOMAIN fut' : \A h : Owns(u, h)' /\ Owns(w, h)' => u = w
    BY <2>1, <2>2, <2>3, <2>4, <1>s, <1>o DEF OneOwner
  <2> QED
    BY <2>5, <2>6, <2>7, <2>8 DEF OneOwner
<1>9. WakersInPlace'
  <2>1. InPlace(t)' /\ InPlace(n)'
    BY <1>2, <1>w, <1>4, <1>5, <1>s, <1>t DEF InPlace
  <2>2. ASSUME NEW u \in Others(t) PROVE InPlace(u)'
    BY <1>4, <1>5, <1>o DEF Inv, OwnInv, WakersInPlace, InPlace
  <2> QED
    BY <2>1, <2>2, <1>o DEF WakersInPlace
<1>10. CloneIsBound'
  <2>1. ~ HasClone(n)' /\ ~ HasClone(n) /\ (HasClone(t)' <=> HasClone(t))
    BY <1>2, <1>w, <1>4, <1>5, <1>s, <1>o DEF HasClone
  <2>2. ASSUME NEW u \in TaskId, u # t, u # n PROVE HasClone(u)' <=> HasClone(u)
    BY <2>2, <1>4, <1>5 DEF HasClone, Others
  <2> QED
    BY <2>1, <2>2, <1>3 DEF Inv, OwnInv, CloneIsBound
<1>11. OthersWait'
  <2>1. Waits(n)'
    BY <1>w, <1>3, <1>5 DEF Waits
  <2>2. ASSUME NEW u \in Others(t) PROVE Waits(u)'
    BY <1>3, <1>4, <1>5, <1>o DEF Inv, OwnInv, OthersWait, Waits, Armed
  <2> QED
    BY <2>1, <2>2, <1>o, <1>3, <1>t DEF OthersWait
<1>12. InStep'
  BY <1>t, <1>2, <1>3, <1>4, <1>5, <1>1 DEF InStep, Inv, OwnInv, UnderPoll
<1>13. RoomForAll'
  <2>1. /\ \A u \in Others(t) : fut[u].op # "accept"
        /\ Cardinality(Others(t)) <= Conns - fut[t].left
    BY <1>1, <1>s DEF UnderPoll, HasRoom
  <2>2. Others(t)' = Others(t) \cup {n}
    BY <1>5 DEF Others
  <2>3. Cardinality(Others(t)') = Cardinality(Others(t)) + 1
    <3>1. n \notin Others(t)
      BY <1>o
    <3>2. Cardinality(Others(t) \cup {n}) = Cardinality(Others(t)) + 1
      BY <3>1, <1>c, FS_AddElement
    <3> QED
      BY <2>2, <3>2
  <2>4. Cardinality(Others(t)') <= Conns - fut'[t].left
    BY <2>1, <2>3, <1>c, <1>s, <1>2, <1>5, CapacityAssumption
  <2>5. fut'[t].at \notin {"close", "closed"} => fut'[t].left > 0
    BY <1>t, <1>s, <1>2, <1>5, CapacityAssumption
  <2>6. HasRoom(t)'
    BY <2>1, <2>2, <2>4, <2>5, <1>w, <1>5 DEF HasRoom
  <2>7. ASSUME NEW u \in DOMAIN fut', u # t PROVE HasRoom(u)'
    BY <2>1, <2>7, <1>w, <1>5, <1>o DEF HasRoom
  <2> QED
    BY <2>6, <2>7 DEF RoomForAll
<1> QED
  BY <1>6, <1>7, <1>8, <1>9, <1>10, <1>11, <1>12, <1>13, <1>3, <1>1 DEF OwnInv, NoPanic, UnderPoll

(* The closure of run_*: the first task of a run. *)
LEMMA SpawnListenInv ==
  ASSUME Inv, SpawnListen
  PROVE  OwnInv'
<1>1. PICK n \in TaskId : E!Add(n) /\ fut' = With(fut, n, Listen)
  BY DEF SpawnListen
<1>2. /\ DOMAIN fut = {} /\ DOMAIN futures = {} /\ DOMAIN handles = {}
      /\ cur = None /\ pc = "idle" /\ panic = "none" /\ ~ polling
  BY ExecutorFacts DEF SpawnListen, Inv, OwnInv, FutsAreTasks, OneOwner, InStep, NoPanic
<1>3. /\ tasks' = {n} /\ awake' = awake \cup {n} /\ UNCHANGED <<clones, cur, pc, panic>>
  BY <1>1 DEF E!Add, SpawnListen
<1>4. UNCHANGED <<regs, handles, futures, polling>>
  BY DEF SpawnListen, reactVars
<1>5. /\ Listen \in FutType /\ Listen.at = "start" /\ Listen.op = "accept"
      /\ Listen.io = None /\ Listen.stream = None /\ Listen.left = Conns
  BY CapacityAssumption DEF Listen, FutType, Points, Ops, Parity
<1>6. /\ IsSlab(fut', TaskId, FutType) /\ DOMAIN fut' = {n} /\ fut'[n] = Listen
  BY <1>1, <1>2, <1>5, WithSlab DEF With, Inv, OwnInv, FutsAreTasks
<1>7. FutsAreTasks' /\ FutsInShape'
  BY <1>2, <1>3, <1>4, <1>5, <1>6 DEF FutsAreTasks, FutsInShape, Shape
<1>8. OneOwner' /\ WakersInPlace'
  BY <1>2, <1>4, <1>5, <1>6 DEF OneOwner, Owns, WakersInPlace, InPlace
<1>9. CloneIsBound'
  BY <1>2, <1>3, <1>5, <1>6 DEF CloneIsBound, HasClone, Inv, OwnInv
<1>10. OthersWait' /\ InStep' /\ NoPanic'
  BY <1>2, <1>3, <1>4, <1>5, <1>6 DEF OthersWait, Waits, InStep, NoPanic
<1>11. RoomForAll'
  <2>1. Others(n)' = {}
    BY <1>6 DEF Others
  <2>2. Cardinality(Others(n)') = 0
    BY <2>1, FS_EmptySet
  <2>3. HasRoom(n)'
    BY <2>1, <2>2, <1>5, <1>6, CapacityAssumption DEF HasRoom
  <2> QED
    BY <2>3, <1>6 DEF RoomForAll
<1> QED
  BY <1>7, <1>8, <1>9, <1>10, <1>11 DEF OwnInv

(* The clean-up behind a finished task: it owns nothing, and no clone of   *)
(* its waker is left.                                                      *)
LEMMA TaskDoneInv ==
  ASSUME Inv, TaskDone
  PROVE  OwnInv'
<1>t. PICK t : t = cur
  OBVIOUS
<1>0. E!TaskDone /\ fut' = Without(fut, t) /\ UNCHANGED reactVars
  BY <1>t DEF TaskDone
<1>1. /\ pc = "drop" /\ panic = "none" /\ t \in tasks /\ t \in TaskId /\ t # None
  BY <1>0, <1>t, ExecutorFacts, SlotAssumption DEF E!TaskDone, Inv
<1>2. /\ t \in DOMAIN fut /\ fut[t].at = "closed" /\ fut[t].io = None /\ fut[t].stream = None
      /\ t \notin DOMAIN futures
  BY <1>1, <1>t DEF Inv, OwnInv, FutsAreTasks, FutsInShape, Shape, InStep
<1>3. clones[t] = 0 /\ refs[t] = 1
  BY <1>1, <1>2, ExecutorFacts DEF Inv, OwnInv, CloneIsBound, HasClone
<1>4. /\ tasks' = tasks \ {t} /\ awake' = awake \ {t} /\ cur' = None /\ pc' = "pick"
      /\ UNCHANGED <<clones, panic>>
  BY <1>0, <1>3, <1>t DEF E!TaskDone
<1>5. UNCHANGED <<regs, handles, futures, polling>>
  BY <1>0 DEF reactVars
<1>6. /\ IsSlab(fut', TaskId, FutType) /\ DOMAIN fut' = Others(t)
      /\ \A u \in Others(t) : u \in DOMAIN fut /\ u # t /\ fut'[u] = fut[u]
  BY <1>0, WithoutSlab DEF Without, Others, Inv, OwnInv, FutsAreTasks
<1>7. FutsAreTasks'
  BY <1>2, <1>4, <1>5, <1>6 DEF FutsAreTasks, Others, Inv, OwnInv
<1>8. FutsInShape'
  BY <1>5, <1>6 DEF FutsInShape, Shape, Inv, OwnInv
<1>9. OneOwner'
  <2>1. \A h : ~ Owns(t, h)
    BY <1>2 DEF Owns
  <2>2. \A u \in Others(t) : \A h : Owns(u, h)' <=> Owns(u, h)
    BY <1>6 DEF Owns
  <2>3. \A u \in DOMAIN fut : u = t \/ u \in Others(t)
    BY DEF Others
  <2> QED
    BY <2>1, <2>2, <2>3, <1>5, <1>6 DEF OneOwner, Inv, OwnInv
<1>10. WakersInPlace'
  BY <1>5, <1>6 DEF WakersInPlace, InPlace, Inv, OwnInv
<1>11. CloneIsBound'
  <2>1. ASSUME NEW u \in TaskId PROVE HasClone(u)' <=> HasClone(u)
    BY <1>2, <1>5, <1>6 DEF HasClone, Others
  <2> QED
    BY <2>1, <1>4 DEF CloneIsBound, Inv, OwnInv
<1>12. OthersWait'
  BY <1>t, <1>4, <1>5, <1>6 DEF OthersWait, Waits, Armed, Inv, OwnInv
<1>13. InStep' /\ NoPanic'
  BY <1>1, <1>4, <1>5 DEF InStep, NoPanic, Inv, OwnInv
<1>14. RoomForAll'
  <2> SUFFICES ASSUME NEW u \in Others(t), fut[u].op = "accept" PROVE HasRoom(u)'
    BY <1>6 DEF RoomForAll, HasRoom
  <2>1. HasRoom(u) /\ fut[u] \in FutType
    BY <1>6 DEF Inv, OwnInv, RoomForAll, FutsAreTasks, IsSlab
  <2>2. Others(u)' = Others(u) \ {t}
    BY <1>6 DEF Others
  <2>3. IsFiniteSet(Others(u))
    BY ExecutorFacts, SlotAssumption, FS_Subset DEF Others, Inv, OwnInv, FutsAreTasks, IsSlab
  <2>4. Cardinality(Others(u) \ {t}) <= Cardinality(Others(u))
        /\ Cardinality(Others(u) \ {t}) \in Nat /\ Cardinality(Others(u)) \in Nat
    <3>1. Others(u) \ {t} \in SUBSET Others(u)
      OBVIOUS
    <3>2. /\ IsFiniteSet(Others(u) \ {t})
          /\ Cardinality(Others(u) \ {t}) <= Cardinality(Others(u))
      BY <2>3, <3>1, FS_Subset
    <3> QED
      BY <2>3, <3>2, FS_CardinalityType
  <2>5. Cardinality(Others(u)') <= Conns - fut'[u].left
    <3>1. Cardinality(Others(u)) <= Conns - fut[u].left /\ fut[u].left \in 0 .. Conns
      BY <2>1 DEF HasRoom, FutType
    <3> QED
      BY <3>1, <2>2, <2>4, <1>6, CapacityAssumption
  <2>6. \A w \in Others(u)' : fut'[w].op # "accept"
    BY <2>1, <2>2, <1>6 DEF HasRoom, Others
  <2> QED
    BY <2>1, <2>5, <2>6, <1>6 DEF HasRoom
<1> QED
  BY <1>7, <1>8, <1>9, <1>10, <1>11, <1>12, <1>13, <1>14 DEF OwnInv

(* One event of FakeReactor::poll: the waker that is taken is that of the  *)
(* owner, who was waiting for it.                                          *)
LEMMA ParkEventInv ==
  ASSUME Inv, ParkEvent
  PROVE  OwnInv'
<1>w. PICK w : w = R!Woken
  OBVIOUS
<1>0. /\ R!PollEvent /\ panic = "none" /\ fut' = fut
      /\ IF w = None THEN UNCHANGED execVars ELSE E!Wake(w)
  BY <1>w DEF ParkEvent
<1>1. /\ polling /\ pc = "park" /\ cur = None
  BY <1>0, ExecutorFacts DEF R!PollEvent, Inv, OwnInv, InStep
<1>2. /\ UNCHANGED <<handles, futures, polling>>
      /\ \A g \in DOMAIN handles :
           R!Reg(g)' = IF handles[g].key = R!EventKey
                       THEN [ready |-> TRUE, waker |-> None] ELSE R!Reg(g)
  BY <1>0, PollEventEffect DEF Inv
<1>3. \A g \in DOMAIN handles : handles[g].key = R!EventKey => R!Reg(g).waker = w
  BY <1>w, ReactorFacts DEF R!Woken, Inv
<1>4. ASSUME w # None
      PROVE  /\ w \in DOMAIN fut /\ w \in TaskId /\ w \in tasks
             /\ fut[w].io \in DOMAIN handles /\ handles[fut[w].io].key = R!EventKey
             /\ R!Reg(fut[w].io).waker = w /\ fut[w].io # None
             /\ clones[w] = 1 /\ refs[w] = 2
  <2>1. PICK g \in DOMAIN handles : handles[g].key = R!EventKey /\ R!Reg(g).waker = w
    BY <1>4, <1>w, <1>3, ReactorFacts DEF R!Woken, Inv
  <2>2. PICK u \in DOMAIN fut : Owns(u, g)
    BY DEF Inv, OwnInv, OneOwner
  <2>3. g = fut[u].io /\ w = u /\ g # None
    BY <1>4, <2>1, <2>2 DEF Inv, OwnInv, WakersInPlace, InPlace, Owns
  <2>4. u \in tasks /\ u \in TaskId
    BY ExecutorFacts DEF Inv, OwnInv, FutsAreTasks
  <2>5. clones[u] = 1
    BY <2>1, <2>3, <2>4 DEF Inv, OwnInv, CloneIsBound, HasClone
  <2> QED
    BY <2>1, <2>3, <2>4, <2>5, ExecutorFacts DEF Inv
<1>5. /\ UNCHANGED <<tasks, cur, pc, panic>>
      /\ awake' = IF w = None THEN awake ELSE awake \cup {w}
      /\ \A u \in TaskId : clones'[u] = IF u = w THEN 0 ELSE clones[u]
  <2>1. CASE w = None
    BY <1>0, <2>1, SlotAssumption DEF execVars
  <2>2. CASE w # None
    <3>1. w \in tasks /\ clones[w] = 1 /\ refs[w] = 2 /\ w \in TaskId
      BY <1>4, <2>2
    <3>2. /\ UNCHANGED <<tasks, cur, pc, panic>> /\ awake' = awake \cup {w}
          /\ clones' = [clones EXCEPT ![w] = @ - 1]
      BY <1>0, <2>2, <3>1 DEF E!Wake, E!TasksWake, E!Release
    <3> QED
      BY <2>2, <3>1, <3>2, ExecutorFacts DEF Inv
  <2> QED
    BY <2>1, <2>2
<1>o. \A u \in DOMAIN fut : /\ u # None /\ u \in TaskId
                            /\ \A h : Owns(u, h) => h \in DOMAIN handles
  BY ExecutorFacts, SlotAssumption DEF Inv, OwnInv, FutsAreTasks, OneOwner
<1>6. FutsAreTasks' /\ FutsInShape'
  BY <1>0, <1>2, <1>5 DEF Inv, OwnInv, FutsAreTasks, FutsInShape, Shape
<1>7. OneOwner'
  BY <1>0, <1>2 DEF Inv, OwnInv, OneOwner, Owns
<1>8. WakersInPlace'
  <2> SUFFICES ASSUME NEW u \in DOMAIN fut PROVE InPlace(u)'
    BY <1>0 DEF WakersInPlace
  <2>1. InPlace(u) /\ Shape(u) /\ fut[u].at # "try"
    BY <1>1, <1>o DEF Inv, OwnInv, WakersInPlace, FutsInShape, OthersWait, Waits
  <2> QED
    BY <2>1, <1>0, <1>2, <1>o DEF InPlace, Shape, Owns
<1>9. CloneIsBound'
  <2> SUFFICES ASSUME NEW u \in TaskId
               PROVE  clones'[u] = IF HasClone(u)' THEN 1 ELSE 0
    BY DEF CloneIsBound
  <2>1. clones[u] = IF HasClone(u) THEN 1 ELSE 0
    BY DEF Inv, OwnInv, CloneIsBound
  <2>2. CASE u = w
    <3>1. w # None
      BY <2>2, SlotAssumption
    <3>2. ~ HasClone(u)'
      BY <3>1, <2>2, <1>0, <1>2, <1>4 DEF HasClone
    <3> QED
      BY <3>2, <2>2, <1>5
  <2>3. CASE u # w
    <3>1. CASE u \in DOMAIN fut /\ fut[u].io # None
      <4>1. PICK h : h = fut[u].io
        OBVIOUS
      <4>2. h \in DOMAIN handles /\ h # None /\ u # None
        BY <3>1, <4>1, <1>o DEF Owns
      <4>3. R!Reg(h)' = IF handles[h].key = R!EventKey
                        THEN [ready |-> TRUE, waker |-> None] ELSE R!Reg(h)
        BY <4>2, <1>2
      <4>4. R!Reg(h).waker = u <=> R!Reg(h)'.waker = u
        <5>1. CASE handles[h].key = R!EventKey
          BY <5>1, <4>2, <4>3, <1>3, <2>3
        <5>2. CASE handles[h].key # R!EventKey
          BY <5>2, <4>3
        <5> QED
          BY <5>1, <5>2
      <4>5. HasClone(u) <=> R!Reg(h).waker = u
        BY <3>1, <4>1 DEF HasClone
      <4>6. HasClone(u)' <=> R!Reg(h)'.waker = u
        BY <3>1, <4>1, <1>0 DEF HasClone
      <4> QED
        BY <4>4, <4>5, <4>6, <2>1, <2>3, <1>5
    <3>2. CASE ~ (u \in DOMAIN fut /\ fut[u].io # None)
      BY <3>2, <2>1, <2>3, <1>0, <1>5 DEF HasClone
    <3> QED
      BY <3>1, <3>2
  <2> QED
    BY <2>2, <2>3
<1>10. OthersWait'
  <2> SUFFICES ASSUME NEW u \in DOMAIN fut PROVE Waits(u)'
    BY <1>0 DEF OthersWait
  <2>1. Waits(u) /\ Shape(u)
    BY <1>1, <1>o DEF Inv, OwnInv, OthersWait, FutsInShape
  <2>2. CASE u \in awake \/ u = w
    BY <2>1, <2>2, <1>0, <1>5, <1>o DEF Waits
  <2>3. CASE u \notin awake /\ u # w
    <3>1. Armed(u) /\ Owns(u, fut[u].io)
      BY <2>1, <2>3 DEF Waits, Armed, Shape, Owns
    <3>2. PICK h : h = fut[u].io
      OBVIOUS
    <3>3. h \in DOMAIN handles /\ R!Reg(h) = [ready |-> FALSE, waker |-> u]
      BY <3>1, <3>2, <1>o DEF Armed
    <3>4. handles[h].key # R!EventKey
      BY <3>3, <2>3, <1>3
    <3>5. R!Reg(h)' = [ready |-> FALSE, waker |-> u]
      BY <3>3, <3>4, <1>2
    <3>6. Armed(u)'
      BY <3>1, <3>2, <3>5, <1>0, <1>2 DEF Armed
    <3> QED
      BY <3>6, <2>1, <1>0 DEF Waits
  <2> QED
    BY <2>2, <2>3
<1>11. InStep' /\ RoomForAll' /\ NoPanic'
  BY <1>0, <1>1, <1>2, <1>5 DEF Inv, OwnInv, InStep, RoomForAll, HasRoom, Others, NoPanic
<1> QED
  BY <1>6, <1>7, <1>8, <1>9, <1>10, <1>11 DEF OwnInv

(* process_next takes the next task, which waits to be polled. *)
LEMMA PickTaskInv ==
  ASSUME Inv, PickTask
  PROVE  OwnInv'
<1>t. PICK t : t = Head(next)
  OBVIOUS
<1>1. /\ pc = "pick" /\ next # <<>> /\ cur' = t /\ awake' = awake \ {t} /\ pc' = "poll"
      /\ UNCHANGED <<tasks, clones, panic>>
      /\ UNCHANGED <<regs, handles, futures, polling, fut>>
  BY <1>t DEF PickTask, E!Pick, reactVars
<1>2. t \in awake /\ t \in tasks
  <2>1. next \in Seq(TaskId) /\ EP!ToSet(next) = awake /\ awake \subseteq tasks
    BY DEF Inv, EP!Inv, EP!TypeOK, EP!QueueIsAwake
  <2>2. Head(next) \in ToSet(next)
    BY <2>1, <1>1, HeadInQueue
  <2> QED
    BY <2>1, <2>2, <1>t DEF ToSet, EP!ToSet
<1>3. cur = None /\ t # None /\ t \in DOMAIN fut
  BY <1>1, <1>2, ExecutorFacts, SlotAssumption DEF Inv, OwnInv, FutsAreTasks
<1>4. Waits(t)
  BY <1>3 DEF Inv, OwnInv, OthersWait
<1>5. /\ FutsAreTasks' /\ FutsInShape' /\ OneOwner' /\ WakersInPlace' /\ RoomForAll'
      /\ NoPanic'
  <2>1. FutsAreTasks' /\ FutsInShape'
    BY <1>1 DEF Inv, OwnInv, FutsAreTasks, FutsInShape, Shape
  <2>2. OneOwner'
    <3>1. \A u, h : Owns(u, h)' <=> Owns(u, h)
      BY <1>1 DEF Owns
    <3> QED
      BY <3>1, <1>1 DEF Inv, OwnInv, OneOwner
  <2>3. WakersInPlace'
    BY <1>1 DEF Inv, OwnInv, WakersInPlace, InPlace
  <2>4. RoomForAll' /\ NoPanic'
    BY <1>1 DEF Inv, OwnInv, RoomForAll, HasRoom, Others, NoPanic
  <2> QED
    BY <2>1, <2>2, <2>3, <2>4
<1>6. CloneIsBound'
  BY <1>1 DEF Inv, OwnInv, CloneIsBound, HasClone
<1>7. OthersWait'
  <2> SUFFICES ASSUME NEW u \in DOMAIN fut, u # t PROVE Waits(u)'
    BY <1>1 DEF OthersWait
  <2>1. Waits(u) /\ (u \in awake <=> u \in awake')
    BY <1>1, <1>3, ExecutorFacts, SlotAssumption DEF Inv, OwnInv, OthersWait, FutsAreTasks
  <2> QED
    BY <2>1, <1>1 DEF Waits, Armed
<1>8. InStep'
  BY <1>1, <1>4 DEF Inv, OwnInv, InStep, Waits
<1> QED
  BY <1>5, <1>6, <1>7, <1>8 DEF OwnInv

(* The steps of run(), process_next and poll() that touch no future. *)
LEMMA QuietInv ==
  ASSUME Inv,
         UNCHANGED <<tasks, awake, clones, cur, panic, regs, handles, futures, fut>>,
         pc' \notin {"poll", "drop"} \/ pc' = pc,
         polling' => pc' = "park"
  PROVE  OwnInv'
<1>1. FutsAreTasks' /\ FutsInShape' /\ OneOwner' /\ WakersInPlace' /\ RoomForAll' /\ NoPanic'
  BY DEF Inv, OwnInv, FutsAreTasks, FutsInShape, Shape, OneOwner, Owns, WakersInPlace,
         InPlace, RoomForAll, HasRoom, Others, NoPanic
<1>2. CloneIsBound' /\ OthersWait'
  BY DEF Inv, OwnInv, CloneIsBound, HasClone, OthersWait, Waits, Armed
<1>3. InStep'
  BY DEF Inv, OwnInv, InStep
<1> QED
  BY <1>1, <1>2, <1>3 DEF OwnInv

LEMMA ControlInv ==
  ASSUME Inv, NothingToPick \/ RunStart \/ RunCheck \/ ParkPoll \/ ParkReturn \/ UNCHANGED vars
  PROVE  OwnInv'
<1>0. polling => pc = "park"
  BY DEF Inv, OwnInv, InStep
<1>1. CASE NothingToPick
  BY <1>0, <1>1, QuietInv DEF NothingToPick, E!NothingToPick, reactVars
<1>2. CASE RunStart
  BY <1>0, <1>2, QuietInv DEF RunStart, E!RunStart, reactVars
<1>3. CASE RunCheck
  BY <1>0, <1>3, QuietInv DEF RunCheck, E!RunCheck, reactVars
<1>4. CASE ParkPoll
  BY <1>4, QuietInv DEF ParkPoll, R!PollBegin, execVars
<1>5. CASE ParkReturn
  BY <1>5, QuietInv DEF ParkReturn, R!PollEnd, E!ParkReturn
<1>6. CASE UNCHANGED vars
  BY <1>0, <1>6, QuietInv DEF vars, execVars, reactVars
<1> QED
  BY <1>1, <1>2, <1>3, <1>4, <1>5, <1>6

-----------------------------------------------------------------------------
(* Every step of a server is a step of the executor or leaves it alone ... *)
LEMMA StepsOfExecutor ==
  ASSUME Inv, [Next]_vars
  PROVE  ExecutorStep \/ UNCHANGED execVars
<1>p. ASSUME Running
      PROVE  cur \in TaskId
  BY <1>p, PolledTask DEF UnderPoll
<1>1. CASE ListenStart \/ Wrap
  BY <1>1 DEF ListenStart, Wrap, MakeObject, ExecutorStep
<1>2. CASE Call \/ TryOk \/ ParkPoll
  BY <1>2 DEF Call, TryOk, ParkPoll
<1>3. CASE Bind \/ Finish
  BY <1>3, <1>p DEF Bind, Finish, ExecutorStep
<1>4. CASE TryPending \/ Close
  BY <1>4 DEF TryPending, Close, ExecutorStep
<1>5. CASE Spawn \/ SpawnListen
  BY <1>5 DEF Spawn, SpawnListen, ExecutorStep
<1>6. CASE PickTask \/ NothingToPick \/ TaskDone \/ RunStart \/ RunCheck \/ ParkReturn
  BY <1>6 DEF PickTask, NothingToPick, TaskDone, RunStart, RunCheck, ParkReturn, ExecutorStep
<1>7. CASE ParkEvent
  <2>1. CASE R!Woken = None
    BY <1>7, <2>1 DEF ParkEvent
  <2>2. CASE R!Woken # None
    <3>1. R!EventKey \in DOMAIN regs /\ R!Woken = regs[R!EventKey].waker
      BY <2>2 DEF R!Woken
    <3>2. R!Woken \in TaskId
      BY <3>1, <2>2, ReactorFacts DEF Inv
    <3>3. E!Wake(R!Woken)
      BY <1>7, <2>2 DEF ParkEvent
    <3> HIDE DEF R!Woken
    <3> QED
      BY <3>2, <3>3 DEF ExecutorStep
  <2> QED
    BY <2>1, <2>2
<1>8. CASE UNCHANGED vars
  BY <1>8 DEF vars
<1> QED
  BY <1>1, <1>2, <1>3, <1>4, <1>5, <1>6, <1>7, <1>8 DEF Next, Server, FutureStep, Terminated

(* ... and a step of the reactor or leaves that alone. *)
LEMMA StepsOfReactor ==
  ASSUME Inv, [Next]_vars
  PROVE  R!Next \/ UNCHANGED reactVars
<1>p. ASSUME Running
      PROVE  UnderPoll(cur)
  BY <1>p, PolledTask
<1>1. CASE ListenStart \/ Wrap
  <2>1. PICK field, kind, p : MakeObject(field, kind, p) /\ kind \in R!Kinds
    BY <1>1 DEF ListenStart, Wrap, R!Kinds
  <2>2. Running /\ fut[cur].at \in {"start", "wrap"}
    BY <1>1 DEF ListenStart, Wrap, Self
  <2>3. cur \in DOMAIN fut /\ fut[cur].op = "accept"
    BY <2>2, <1>p DEF UnderPoll, Shape
  <2>4. NewHandle \in Handle
    BY <2>2, <2>3, RoomForObject
  <2>5. R!New(NewHandle, kind) \/ UNCHANGED reactVars
    BY <2>1 DEF MakeObject
  <2> HIDE DEF NewHandle
  <2> QED
    BY <2>1, <2>4, <2>5 DEF R!Next
<1>2. CASE Call
  <2>1. R!Start(cur, fut[cur].io) /\ Running /\ fut[cur].at = "call"
    BY <1>2 DEF Call, Self
  <2>2. cur \in TaskId /\ fut[cur].io \in Handle
    BY <2>1, <1>p DEF UnderPoll, Shape, FutType
  <2> QED
    BY <2>1, <2>2 DEF R!Next
<1>3. CASE Bind \/ TryPending \/ TryOk \/ Finish
  <2>1. cur \in TaskId
    BY <1>3, <1>p DEF UnderPoll, Bind, TryPending, TryOk, Finish
  <2>2. \/ R!BindWaker(cur, cur) \/ R!NotReady(cur) \/ R!WouldBlock(cur)
        \/ R!Complete(cur) \/ R!DropFuture(cur)
    BY <1>3 DEF Bind, TryPending, TryOk, Finish
  <2> QED
    BY <2>1, <2>2 DEF R!Next
<1>4. CASE Close
  <2>1. R!Drop(fut[cur].io) /\ Running /\ fut[cur].at = "close"
    BY <1>4 DEF Close, Self
  <2>2. fut[cur].io \in Handle
    BY <2>1, <1>p DEF UnderPoll, Shape, FutType
  <2> QED
    BY <2>1, <2>2 DEF R!Next
<1>5. CASE Spawn \/ SpawnListen \/ PickTask \/ NothingToPick \/ TaskDone \/ RunStart \/ RunCheck
  BY <1>5 DEF Spawn, SpawnListen, PickTask, NothingToPick, TaskDone, RunStart, RunCheck
<1>6. CASE ParkPoll \/ ParkEvent \/ ParkReturn
  BY <1>6 DEF ParkPoll, ParkEvent, ParkReturn, R!Next
<1>7. CASE UNCHANGED vars
  BY <1>7 DEF vars
<1> QED
  BY <1>1, <1>2, <1>3, <1>4, <1>5, <1>6, <1>7 DEF Next, Server, FutureStep, Terminated

LEMMA InitInv == Init => Inv
<1> SUFFICES ASSUME Init PROVE Inv
  OBVIOUS
<1>1. EP!Inv
  <2>1. EP!Init
    BY DEF Init, E!Init, EP!Init, E!VacantRefs, EP!VacantRefs, E!Embedded, EP!Embedded,
           E!Flavors, EP!Flavors
  <2> QED
    BY <2>1, ExecutorAssumptions, EP!InitInv
<1>2. RP!Inv
  <2>1. RP!Init
    BY DEF Init, R!Init, RP!Init
  <2> QED
    BY <2>1, ReactorAssumptions, RP!InitInv
<1>3. /\ fut = <<>> /\ DOMAIN fut = {} /\ tasks = {} /\ DOMAIN futures = {} /\ DOMAIN handles = {}
      /\ pc = "idle" /\ ~ polling /\ panic = "none" /\ clones = [t \in TaskId |-> 0]
  BY DEF Init, E!Init, R!Init
<1>4. IsSlab(fut, TaskId, FutType)
  BY <1>3, EmptySlab
<1>5. OwnInv
  BY <1>3, <1>4 DEF OwnInv, FutsAreTasks, FutsInShape, OneOwner, WakersInPlace, CloneIsBound,
     HasClone, OthersWait, InStep, RoomForAll, NoPanic
<1> QED
  BY <1>1, <1>2, <1>5 DEF Inv

LEMMA NextInv == Inv /\ [Next]_vars => Inv'
<1> SUFFICES ASSUME Inv, [Next]_vars PROVE Inv'
  OBVIOUS
<1>1. EP!Inv'
  <2>1. CASE ExecutorStep
    BY <2>1, ExecutorInv DEF Inv
  <2>2. CASE UNCHANGED execVars
    <3>1. UNCHANGED EP!vars
      BY <2>2 DEF execVars, EP!vars
    <3>2. EP!Inv /\ [EP!Next]_(EP!vars)
      BY <3>1 DEF Inv
    <3> QED
      BY <3>2, ExecutorAssumptions, EP!NextInv
  <2> QED
    BY <2>1, <2>2, StepsOfExecutor
<1>2. RP!Inv'
  <2>1. CASE R!Next
    BY <2>1, ReactorInv DEF Inv
  <2>2. CASE UNCHANGED reactVars
    <3>1. UNCHANGED RP!vars
      BY <2>2 DEF reactVars, RP!vars
    <3>2. RP!Inv /\ [RP!Next]_(RP!vars)
      BY <3>1 DEF Inv
    <3> QED
      BY <3>2, ReactorAssumptions, RP!NextInv
  <2> QED
    BY <2>1, <2>2, StepsOfReactor
<1>3. OwnInv'
  BY ListenStartInv, CallInv, BindInv, TryPendingInv, TryOkInv, WrapInv, FinishInv, SpawnInv,
     CloseInv, PickTaskInv, TaskDoneInv, SpawnListenInv, ParkEventInv, ControlInv
     DEF Next, Server, FutureStep, Terminated
<1> QED
  BY <1>1, <1>2, <1>3 DEF Inv

(* A clone that is counted is bound in the one registration of its task. *)
LEMMA BoundOnce == Inv => ClonesAreBound
<1> SUFFICES ASSUME Inv, NEW t \in TaskId
             PROVE  clones[t] = Cardinality({k \in DOMAIN regs : regs[k].waker = t})
  BY DEF ClonesAreBound
<1> DEFINE Keys == {k \in DOMAIN regs : regs[k].waker = t}
<1>0. t # None
  BY SlotAssumption
<1>1. ASSUME NEW k \in Keys
      PROVE  HasClone(t) /\ k = handles[fut[t].io].key
  <2>1. PICK h \in DOMAIN handles : k = handles[h].key
    BY ReactorFacts DEF Inv
  <2>2. PICK u \in DOMAIN fut : Owns(u, h)
    BY DEF Inv, OwnInv, OneOwner
  <2>3. R!Reg(h).waker = t
    BY <2>1
  <2>4. h = fut[u].io /\ u = t /\ h # None
    BY <2>2, <2>3, <1>0 DEF Inv, OwnInv, WakersInPlace, InPlace, Owns
  <2> QED
    BY <2>1, <2>3, <2>4 DEF HasClone
<1>2. CASE HasClone(t)
  <2>1. fut[t].io \in DOMAIN handles
    BY <1>2 DEF HasClone, Inv, OwnInv, OneOwner, Owns
  <2>2. handles[fut[t].io].key \in Keys
    BY <1>2, <2>1, ReactorFacts DEF HasClone, Inv
  <2>3. Keys = {handles[fut[t].io].key}
    BY <1>1, <2>2
  <2>4. Cardinality(Keys) = 1
    BY <2>3, FS_Singleton
  <2> QED
    BY <1>2, <2>4 DEF Inv, OwnInv, CloneIsBound
<1>3. CASE ~ HasClone(t)
  <2>1. Keys = {}
    BY <1>1, <1>3
  <2>2. Cardinality(Keys) = 0
    BY <2>1, FS_EmptySet
  <2> QED
    BY <1>3, <2>2 DEF Inv, OwnInv, CloneIsBound
<1> QED
  BY <1>2, <1>3

-----------------------------------------------------------------------------
(***************************************************************************)
(* The calls of the current run: how many each task has made, and when.    *)
(***************************************************************************)
Spent == CallsSince(stats, Conns, runs)
Polls == Spent["poll"]

(* A run has begun and is not over yet. *)
Active == ~ (pc = "idle" /\ tasks = {})

(* Connections that have not read their request, or written their          *)
(* response, and those of them whose first attempt has blocked.            *)
Unread == {t \in DOMAIN fut : fut[t].op = "read" /\ fut[t].at # "finish"}
Unwritten ==
  {t \in DOMAIN fut : \/ fut[t].op = "read"
                      \/ fut[t].op = "write" /\ fut[t].at \in {"call", "bind", "try"}}
ReadBlocked  == {t \in DOMAIN fut : fut[t].op = "read" /\ fut[t].calls = 1}
WriteBlocked == {t \in DOMAIN fut : fut[t].op = "write" /\ fut[t].calls = 1}

Accepting(t) == fut[t].at \in {"wrap", "finish", "spawn"}

(* The calls of the listen future: its own object and one per connection   *)
(* is registered, and an accept() in two is successful.                    *)
ListenCounted(t) ==
  /\ Spent["register"] = One(fut[t].at # "start") + (Conns - fut[t].left)
                           + One(fut[t].stream # None)
  /\ Spent["accept"] = 2 * (Conns - fut[t].left) + 2 * One(Accepting(t)) + fut[t].calls

(* Connections spawned so far. *)
Spawned == IF Listening = {} THEN Conns
           ELSE Conns - fut[CHOOSE t \in Listening : TRUE].left

CallsCounted ==
  Active =>
    /\ \A t \in Listening : ListenCounted(t)
    /\ Listening = {} => Spent["register"] = Conns + 1 /\ Spent["accept"] = 2 * Conns
    /\ Spent["unregister"] = Spent["register"] - Cardinality(DOMAIN handles)
    /\ Spent["read"] = 2 * (Spawned - Cardinality(Unread)) + Cardinality(ReadBlocked)
    /\ Spent["write"] = 2 * (Spawned - Cardinality(Unwritten)) + Cardinality(WriteBlocked)

(* An object that is not ready has blocked, a new one has not, and between *)
(* two I/O futures the count of its calls is even.                         *)
CallsFit(t) ==
  /\ fut[t].io # None /\ ~ R!Reg(fut[t].io).ready => fut[t].calls = 1
  /\ fut[t].stream # None => R!Reg(fut[t].stream).ready
  /\ fut[t].at \notin {"bind", "try"} => fut[t].calls = 0
  /\ fut[t].at \in {"close", "closed"} => fut[t].op # "read"
  /\ fut[t].at \in {"close", "closed"} /\ fut[t].op = "accept" => fut[t].left = 0

CallsInPlace == \A t \in DOMAIN fut : CallsFit(t)

(* run() parks when everyone sleeps, and only then. *)
ParksAsleep ==
  /\ pc = "check" \/ (pc = "park" /\ ~ polling) => awake = {}
  /\ pc = "park" => tasks # {}

(* A poll has come since the call that blocked, and not yet the next call. *)
Due(t) == fut[t].calls = 1 /\ (polling \/ R!Reg(fut[t].io).ready)

(* A connection needs one poll for its read and one for its write: it was  *)
(* spawned behind poll number Birth(t).                                    *)
Progress(t) == IF fut[t].op = "read" THEN One(fut[t].at = "finish")
               ELSE IF fut[t].at \in {"call", "bind", "try"} THEN 1 ELSE 2
Birth(t) == Polls - One(Due(t)) - Progress(t)
Connections == {t \in DOMAIN fut : fut[t].op # "accept"}
StillListening == {t \in Listening : fut[t].at \notin {"close", "closed"}}

(* One connection per poll: the listen task accepts one behind each, and   *)
(* the last of them is spawned behind poll number Conns.                   *)
ListenPolls(t) == Conns - fut[t].left + One(Accepting(t)) = Polls - One(Due(t))

PollsCounted ==
  Active =>
    /\ \A t \in Connections : Birth(t) \in 1 .. Conns
    /\ \A t \in StillListening : ListenPolls(t)
    /\ StillListening = {} => \/ \E t \in Connections : Birth(t) = Conns
                              \/ Polls = Conns + 2

StatsTyped == stats \in [StatsType -> Nat] /\ runs \in Nat
CleanBetween == ~ Active => Spent = ZeroStats

(* The account, which is inductive together with Inv. *)
Acc ==
  /\ StatsTyped
  /\ CallsCounted
  /\ CallsInPlace
  /\ ParksAsleep
  /\ PollsCounted
  /\ CleanBetween

-----------------------------------------------------------------------------
LEMMA SpentType ==
  ASSUME StatsTyped
  PROVE  \A k \in StatsType : Spent[k] \in Int
  BY SinceType, CapacityAssumption DEF StatsTyped, Spent

LEMMA SpentCounted ==
  ASSUME StatsTyped, NEW c \in StatsType, Inc(c), runs' = runs
  PROVE  /\ StatsTyped'
         /\ Spent'[c] = Spent[c] + 1
         /\ \A k \in StatsType : k # c => Spent'[k] = Spent[k]
<1>1. stats \in [StatsType -> Nat] /\ runs \in Nat /\ Conns \in Nat
  BY CapacityAssumption DEF StatsTyped
<1>2. stats' = Counted(stats, c)
  BY DEF Inc
<1>3. stats' \in [StatsType -> Nat]
  BY <1>1, <1>2, CountedOnce
<1> QED
  BY <1>1, <1>2, <1>3, SinceCounted DEF Spent, StatsTyped

LEMMA SpentKept ==
  ASSUME StatsTyped, UNCHANGED <<stats, runs>>
  PROVE  StatsTyped' /\ Spent' = Spent
  BY DEF Spent, StatsTyped

(* There is one listen task, and its count is that of the spawned tasks. *)
LEMMA OneListener ==
  ASSUME RoomForAll, NEW t \in Listening
  PROVE  Listening = {t} /\ Spawned = Conns - fut[t].left
<1>1. Listening = {t}
  BY DEF Listening, RoomForAll, HasRoom, Others
<1>2. (CHOOSE u \in Listening : TRUE) = t
  BY <1>1
<1> QED
  BY <1>1, <1>2 DEF Spawned

(* The tasks that are counted are finitely many. *)
LEMMA FiniteTasks ==
  ASSUME IsSlab(fut, TaskId, FutType), NEW S \in SUBSET DOMAIN fut
  PROVE  IsFiniteSet(S) /\ Cardinality(S) \in Nat
  BY SlotAssumption, FS_Subset, FS_CardinalityType DEF IsSlab

(* A step of the future of task t accounts for what t does ... *)
Accounts(t) ==
  /\ Polls' = Polls
  /\ fut[t].op = "accept" => ListenCounted(t)'
  /\ fut[t].op # "accept" => /\ Spent'["register"] = Spent["register"]
                             /\ Spent'["accept"] = Spent["accept"]
  /\ Spent'["unregister"] = Spent'["register"] - Cardinality(DOMAIN handles')
  /\ Spent'["read"] = Spent["read"] - 2 * (One(t \in Unread') - One(t \in Unread))
                        + (One(t \in ReadBlocked') - One(t \in ReadBlocked))
  /\ Spent'["write"] = Spent["write"] - 2 * (One(t \in Unwritten') - One(t \in Unwritten))
                         + (One(t \in WriteBlocked') - One(t \in WriteBlocked))
  /\ CallsFit(t)'
  /\ fut[t].op # "accept" => One(Due(t))' + Progress(t)' = One(Due(t)) + Progress(t)
  /\ fut[t].op = "accept" => /\ t \in StillListening' <=> t \in StillListening
                             /\ One(Accepting(t))' + One(Due(t))'
                                  = One(Accepting(t)) + One(Due(t))

(* ... and that is all there is to account for. *)
LEMMA PollStepAcc ==
  ASSUME Inv, Inv', Acc, NEW t \in tasks, cur = t, pc = "poll",
         OthersKept(t), StillThere(t), StatsTyped', pc' \in {"poll", "drop", "pick"},
         Accounts(t)
  PROVE  Acc'
<1>0. /\ t \in TaskId /\ t \in DOMAIN fut
      /\ \A u \in DOMAIN fut : u # t => u \in Others(t)
      /\ \A u \in Others(t) : u \in DOMAIN fut /\ u # t
      /\ DOMAIN fut' = DOMAIN fut /\ tasks' = tasks
      /\ \A u \in Others(t) : fut'[u] = fut[u]
      /\ polling' = polling
      /\ Active /\ Active'
  BY ExecutorFacts DEF Inv, OwnInv, FutsAreTasks, Others, OthersKept, Active
<1>k. \A u \in Others(t) : \A h : Owns(u, h) => R!Reg(h)' = R!Reg(h)
  <2>1. OneOwner
    BY DEF Inv, OwnInv
  <2>2. \A u \in Others(t) : \A h : Owns(u, h) => h \in DOMAIN handles /\ ~ Owns(t, h)
    BY <1>0, <2>1 DEF OneOwner
  <2> QED
    BY <2>2 DEF OthersKept
<1>p. \A k \in StatsType : Spent[k] \in Int /\ Spent'[k] \in Int
  <2>1. \A k \in StatsType : Spent'[k] \in Int
    BY SinceType, CapacityAssumption DEF StatsTyped, Spent
  <2> QED
    BY <2>1, SpentType DEF Acc
<1>f. /\ IsSlab(fut, TaskId, FutType) /\ IsSlab(fut', TaskId, FutType)
      /\ \A S \in SUBSET DOMAIN fut : IsFiniteSet(S)
  BY FiniteTasks DEF Inv, OwnInv, FutsAreTasks
<1>l. /\ Listening' = Listening /\ \A u \in Listening : fut'[u].left = fut[u].left
      /\ Spawned' = Spawned
  <2>1. /\ Listening' = Listening /\ \A u \in Listening : fut'[u].left = fut[u].left
    BY <1>0 DEF Listening, StillThere
  <2> QED
    BY <2>1 DEF Spawned
<1>1. /\ Spent'["read"] = 2 * (Spawned' - Cardinality(Unread')) + Cardinality(ReadBlocked')
      /\ Spent'["write"] = 2 * (Spawned' - Cardinality(Unwritten')) + Cardinality(WriteBlocked')
  <2>1. /\ Cardinality(Unread) \in Nat /\ Cardinality(Unread') \in Nat
        /\ Cardinality(Unread') = Cardinality(Unread) + One(t \in Unread') - One(t \in Unread)
    <3>1. Unread \in SUBSET DOMAIN fut /\ Unread' \in SUBSET DOMAIN fut
      BY <1>0 DEF Unread
    <3>2. \A x : x # t => (x \in Unread <=> x \in Unread')
      BY <1>0 DEF Unread
    <3> QED
      BY <3>1, <3>2, <1>f, MovedElement
  <2>2. /\ Cardinality(Unwritten) \in Nat /\ Cardinality(Unwritten') \in Nat
        /\ Cardinality(Unwritten') = Cardinality(Unwritten)
                                       + One(t \in Unwritten') - One(t \in Unwritten)
    <3>1. Unwritten \in SUBSET DOMAIN fut /\ Unwritten' \in SUBSET DOMAIN fut
      BY <1>0 DEF Unwritten
    <3>2. \A x : x # t => (x \in Unwritten <=> x \in Unwritten')
      BY <1>0 DEF Unwritten
    <3> QED
      BY <3>1, <3>2, <1>f, MovedElement
  <2>3. /\ Cardinality(ReadBlocked) \in Nat /\ Cardinality(ReadBlocked') \in Nat
        /\ Cardinality(ReadBlocked') = Cardinality(ReadBlocked)
                                         + One(t \in ReadBlocked') - One(t \in ReadBlocked)
    <3>1. ReadBlocked \in SUBSET DOMAIN fut /\ ReadBlocked' \in SUBSET DOMAIN fut
      BY <1>0 DEF ReadBlocked
    <3>2. \A x : x # t => (x \in ReadBlocked <=> x \in ReadBlocked')
      BY <1>0 DEF ReadBlocked
    <3> QED
      BY <3>1, <3>2, <1>f, MovedElement
  <2>4. /\ Cardinality(WriteBlocked) \in Nat /\ Cardinality(WriteBlocked') \in Nat
        /\ Cardinality(WriteBlocked') = Cardinality(WriteBlocked)
                                          + One(t \in WriteBlocked') - One(t \in WriteBlocked)
    <3>1. WriteBlocked \in SUBSET DOMAIN fut /\ WriteBlocked' \in SUBSET DOMAIN fut
      BY <1>0 DEF WriteBlocked
    <3>2. \A x : x # t => (x \in WriteBlocked <=> x \in WriteBlocked')
      BY <1>0 DEF WriteBlocked
    <3> QED
      BY <3>1, <3>2, <1>f, MovedElement
  <2>5. /\ Spent["read"] = 2 * (Spawned - Cardinality(Unread)) + Cardinality(ReadBlocked)
        /\ Spent["write"] = 2 * (Spawned - Cardinality(Unwritten)) + Cardinality(WriteBlocked)
    BY <1>0 DEF Acc, CallsCounted
  <2>6. Spawned \in Int
    <3>1. CASE Listening = {}
      BY <3>1, CapacityAssumption DEF Spawned
    <3>2. ASSUME NEW u \in Listening PROVE Spawned \in Int
      <4>1. Spawned = Conns - fut[u].left /\ fut[u] \in FutType
        BY OneListener, <1>f DEF Inv, OwnInv, Listening, IsSlab
      <4> QED
        BY <4>1, CapacityAssumption DEF FutType
    <3> QED
      BY <3>1, <3>2
  <2>7. \A b : One(b) \in Int
    BY DEF One
  <2> QED
    BY <2>1, <2>2, <2>3, <2>4, <2>5, <2>6, <2>7, <1>l DEF Accounts
<1>2. CallsCounted'
  <2>1. ASSUME NEW u \in Listening' PROVE ListenCounted(u)'
    <3>1. CASE u = t
      BY <3>1, <1>l DEF Accounts, Listening
    <3>2. CASE u # t
      <4>1. u \in Others(t) /\ fut[t].op # "accept" /\ fut'[u] = fut[u]
        BY <1>0, <1>l, <3>2 DEF Listening, Inv, OwnInv, RoomForAll, HasRoom
      <4>2. ListenCounted(u)
        BY <1>0, <1>l DEF Acc, CallsCounted
      <4> QED
        BY <4>1, <4>2 DEF ListenCounted, Accounts, Accepting
    <3> QED
      BY <3>1, <3>2
  <2>2. Listening' = {} => Spent'["register"] = Conns + 1 /\ Spent'["accept"] = 2 * Conns
    BY <1>0, <1>l DEF Acc, CallsCounted, Accounts, Listening
  <2>3. Spent'["unregister"] = Spent'["register"] - Cardinality(DOMAIN handles')
    BY DEF Accounts
  <2> QED
    BY <2>1, <2>2, <2>3, <1>1 DEF CallsCounted
<1>3. CallsInPlace'
  <2>1. ASSUME NEW u \in Others(t) PROVE CallsFit(u)'
    <3>1. CallsFit(u) /\ fut'[u] = fut[u]
      BY <1>0 DEF Acc, CallsInPlace
    <3> QED
      BY <3>1, <1>k DEF CallsFit, Owns
  <2> QED
    BY <2>1, <1>0 DEF CallsInPlace, Accounts
<1>4. ParksAsleep' /\ CleanBetween'
  BY <1>0 DEF ParksAsleep, CleanBetween
<1>5. \A u \in Others(t) : /\ One(Due(u))' = One(Due(u)) /\ Progress(u)' = Progress(u)
                           /\ One(Accepting(u))' = One(Accepting(u))
  <2> TAKE u \in Others(t)
  <2>1. fut'[u] = fut[u] /\ u \in DOMAIN fut
    BY <1>0
  <2>2. fut[u].calls = 1 => R!Reg(fut[u].io)' = R!Reg(fut[u].io)
    <3>1. Shape(u) /\ CallsFit(u)
      BY <2>1 DEF Inv, OwnInv, FutsInShape, Acc, CallsInPlace
    <3>2. fut[u].calls = 1 => Owns(u, fut[u].io)
      BY <3>1 DEF Shape, CallsFit, Owns
    <3> QED
      BY <3>2, <2>1, <1>k
  <2>3. Due(u)' <=> Due(u)
    BY <2>1, <2>2, <1>0 DEF Due
  <2> QED
    BY <2>1, <2>3 DEF One, Progress, Accepting
<1>6. PollsCounted'
  <2>0. Polls \in Int /\ Polls' = Polls /\ \A b : One(b) \in Int
    BY <1>p DEF Polls, StatsType, Accounts, One
  <2>1. Connections' = Connections
    BY <1>0 DEF Connections, StillThere
  <2>2. StillListening' = StillListening
    BY <1>0, <1>l DEF StillListening, Accounts, Listening
  <2>3. \A u \in Connections : Birth(u)' = Birth(u)
    <3> TAKE u \in Connections
    <3>1. CASE u = t
      <4>1. One(Due(t))' + Progress(t)' = One(Due(t)) + Progress(t)
        BY <3>1 DEF Connections, Accounts
      <4>2. Progress(t) \in Int /\ Progress(t)' \in Int /\ One(Due(t))' \in Int /\ One(Due(t)) \in Int
        BY DEF Progress, One
      <4> QED
        BY <4>1, <4>2, <3>1, <2>0 DEF Birth
    <3>2. CASE u # t
      BY <3>2, <1>0, <1>5, <2>0 DEF Birth, Connections
    <3> QED
      BY <3>1, <3>2
  <2>4. ASSUME NEW u \in StillListening PROVE ListenPolls(u)'
    <3>0. ListenPolls(u) /\ fut'[u].left = fut[u].left /\ fut[u] \in FutType
      BY <1>0, <1>f, <1>l DEF Acc, PollsCounted, StillListening, Listening, IsSlab
    <3>1. CASE u = t
      <4>1. One(Accepting(t))' + One(Due(t))' = One(Accepting(t)) + One(Due(t))
        BY <3>1 DEF StillListening, Listening, Accounts
      <4>2. /\ One(Due(t))' \in Int /\ One(Due(t)) \in Int
            /\ One(Accepting(t))' \in Int /\ One(Accepting(t)) \in Int
            /\ Conns - fut[t].left \in Int
        BY <3>0, <3>1, CapacityAssumption DEF One, FutType
      <4> QED
        BY <4>1, <4>2, <3>0, <3>1, <2>0 DEF ListenPolls
    <3>2. CASE u # t
      BY <3>0, <3>2, <1>0, <1>5, <2>0 DEF ListenPolls, StillListening, Listening
    <3> QED
      BY <3>1, <3>2
  <2>5. /\ \A u \in Connections : Birth(u) \in 1 .. Conns
        /\ StillListening = {} => \/ \E u \in Connections : Birth(u) = Conns
                                  \/ Polls = Conns + 2
    BY <1>0 DEF Acc, PollsCounted
  <2> QED
    BY <2>0, <2>1, <2>2, <2>3, <2>4, <2>5 DEF PollsCounted
<1> QED
  BY <1>2, <1>3, <1>4, <1>6 DEF Acc

(* What the account says of the task being polled. *)
LEMMA PolledAcc ==
  ASSUME Inv, Acc, Running, NEW t, t = cur
  PROVE  /\ UnderPoll(t) /\ CallsFit(t) /\ Active /\ ~ polling /\ StatsTyped
         /\ fut[t].calls \in {0, 1} /\ fut[t].op \in Ops /\ fut[t].left \in 0 .. Conns
         /\ fut[t].op = "accept" => ListenCounted(t)
         /\ Spent["unregister"] = Spent["register"] - Cardinality(DOMAIN handles)
         /\ \A k \in StatsType : Spent[k] \in Int
         /\ IsFiniteSet(DOMAIN handles) /\ Cardinality(DOMAIN handles) \in Nat
<1>1. UnderPoll(t)
  BY PolledTask
<1>2. Active /\ ~ polling
  BY <1>1 DEF UnderPoll, Active, Inv, OwnInv, InStep
<1>3. CallsFit(t) /\ StatsTyped
  BY <1>1 DEF UnderPoll, Acc, CallsInPlace
<1>4. fut[t].calls \in {0, 1} /\ fut[t].op \in Ops /\ fut[t].left \in 0 .. Conns
  BY <1>1 DEF UnderPoll, FutType, Parity
<1>5. /\ fut[t].op = "accept" => ListenCounted(t)
      /\ Spent["unregister"] = Spent["register"] - Cardinality(DOMAIN handles)
  BY <1>1, <1>2 DEF UnderPoll, Acc, CallsCounted, Listening
<1>6. IsFiniteSet(DOMAIN handles) /\ Cardinality(DOMAIN handles) \in Nat
  <2>1. DOMAIN handles \in SUBSET Handle
    BY ReactorFacts DEF Inv
  <2>2. IsFiniteSet(Handle)
    BY CapacityAssumption, FS_Interval DEF Handle
  <2> QED
    BY <2>1, <2>2, FS_Subset, FS_CardinalityType
<1> QED
  BY <1>1, <1>2, <1>3, <1>4, <1>5, <1>6, SpentType

(* A step that makes no call on the fake I/O. *)
LEMMA SilentAccounts ==
  ASSUME Inv, Acc, Running, NEW t, t = cur, StillThere(t), DOMAIN fut' = DOMAIN fut,
         UNCHANGED <<stats, runs, polling>>, DOMAIN handles' = DOMAIN handles,
         fut'[t].calls = fut[t].calls, fut'[t].io = fut[t].io,
         fut'[t].stream = fut[t].stream, fut[t].io # None,
         R!Reg(fut[t].io)'.ready = R!Reg(fut[t].io).ready,
         fut[t].at # "start", fut'[t].at # "start",
         fut[t].op = "accept" => (Accepting(t)' <=> Accepting(t)),
         t \in Unread' <=> t \in Unread, t \in Unwritten' <=> t \in Unwritten,
         fut'[t].op = fut[t].op \/ fut[t].calls = 0,
         CallsFit(t)', Progress(t)' = Progress(t), t \in StillListening' <=> t \in StillListening
  PROVE  StatsTyped' /\ Accounts(t)
<1>1. StatsTyped' /\ Spent' = Spent
  BY SpentKept DEF Acc
<1>2. Polls' = Polls
  BY <1>1 DEF Polls
<1>3. fut[t].op = "accept" => ListenCounted(t)'
  <2> HAVE fut[t].op = "accept"
  <2>1. ListenCounted(t)
    BY PolledAcc
  <2>2. /\ One(Accepting(t))' = One(Accepting(t))
        /\ One(fut[t].at # "start")' = One(fut[t].at # "start")
        /\ One(fut[t].stream # None)' = One(fut[t].stream # None)
    BY DEF One
  <2>3. fut'[t].left = fut[t].left
    BY DEF StillThere
  <2> QED
    BY <1>1, <2>1, <2>2, <2>3 DEF ListenCounted
<1>4. Spent'["unregister"] = Spent'["register"] - Cardinality(DOMAIN handles')
  BY <1>1, PolledAcc
<1>5. t \in ReadBlocked' <=> t \in ReadBlocked
  BY DEF ReadBlocked
<1>6. t \in WriteBlocked' <=> t \in WriteBlocked
  BY DEF WriteBlocked
<1>7. Due(t)' <=> Due(t)
  BY DEF Due
<1>8. /\ One(Due(t))' = One(Due(t))
      /\ fut[t].op = "accept" => One(Accepting(t))' = One(Accepting(t))
  BY <1>7 DEF One
<1>9. /\ Spent'["read"] = Spent["read"] - 2 * (One(t \in Unread') - One(t \in Unread))
                        + (One(t \in ReadBlocked') - One(t \in ReadBlocked))
      /\ Spent'["write"] = Spent["write"] - 2 * (One(t \in Unwritten') - One(t \in Unwritten))
                         + (One(t \in WriteBlocked') - One(t \in WriteBlocked))
  <2>1. Spent["read"] \in Int /\ Spent["write"] \in Int
    BY PolledAcc DEF StatsType
  <2> QED
    BY <2>1, <1>1, <1>5, <1>6 DEF One
<1> QED
  BY <1>1, <1>2, <1>3, <1>4, <1>8, <1>9 DEF Accounts

LEMMA CallAcc ==
  ASSUME Inv, Inv', Acc, Call
  PROVE  Acc'
<1>t. PICK t, h : t = cur /\ h = fut[cur].io
  OBVIOUS
<1>v. PICK v : v = [fut[t] EXCEPT !.at = "bind"]
  OBVIOUS
<1>0. /\ Running /\ fut[t].at = "call" /\ R!Start(t, h)
      /\ fut' = [fut EXCEPT ![t] = v] /\ UNCHANGED execVars /\ UNCHANGED <<stats, runs>>
  BY <1>t, <1>v DEF Call, Self, Goto
<1>1. UnderPoll(t) /\ CallsFit(t) /\ fut[t].calls \in {0, 1} /\ fut[t].op \in Ops
  BY <1>0, <1>t, PolledAcc
<1>2. /\ v.at = "bind" /\ v.io = h /\ v.stream = fut[t].stream
      /\ v.op = fut[t].op /\ v.left = fut[t].left /\ v.calls = fut[t].calls
  BY <1>1, <1>t, <1>v DEF UnderPoll, FutType
<1>3. DOMAIN fut' = DOMAIN fut /\ fut'[t] = v
  BY <1>0, <1>1 DEF UnderPoll
<1>4. UNCHANGED <<regs, handles, polling, pc>>
  BY <1>0 DEF R!Start, execVars
<1>5. OthersKept(t) /\ StillThere(t)
  BY <1>t, CallInv
<1>6. StatsTyped' /\ Accounts(t)
  <2>1. fut[t].io # None /\ fut[t].stream = None /\ fut[t].calls = 0
    BY <1>0, <1>1 DEF UnderPoll, Shape, CallsFit
  <2>2. /\ Accepting(t)' <=> Accepting(t) 
        /\ t \in Unread' <=> t \in Unread
        /\ t \in Unwritten' <=> t \in Unwritten
        /\ t \in StillListening' <=> t \in StillListening
        /\ Progress(t)' = Progress(t)
    BY <1>0, <1>2, <1>3 DEF Accepting, Unread, Unwritten, StillListening, Listening, Progress, One
  <2>3. CallsFit(t)'
    BY <1>0, <1>1, <1>2, <1>3, <1>4, <1>t, <2>1 DEF CallsFit
  <2>4. R!Reg(fut[t].io)'.ready = R!Reg(fut[t].io).ready
    BY <1>4, <1>3, <1>2, <1>t
  <2> QED
    BY <1>t, <1>0, <1>2, <1>3, <1>4, <1>5, <2>1, <2>2, <2>3, <2>4, SilentAccounts
<1> QED
  BY <1>t, <1>0, <1>1, <1>4, <1>5, <1>6, PollStepAcc DEF UnderPoll

LEMMA BindAcc ==
  ASSUME Inv, Inv', Acc, Bind
  PROVE  Acc'
<1>t. PICK t, h : t = cur /\ h = fut[cur].io
  OBVIOUS
<1>v. PICK v : v = [fut[t] EXCEPT !.at = "try"]
  OBVIOUS
<1>0. /\ Running /\ fut[t].at = "bind" /\ R!BindWaker(t, t)
      /\ fut' = [fut EXCEPT ![t] = v] /\ UNCHANGED <<stats, runs>>
      /\ IF R!Reg(h).waker = None THEN E!CloneWaker(t) ELSE UNCHANGED execVars
  BY <1>t, <1>v DEF Bind, Self, Goto
<1>1. UnderPoll(t) /\ CallsFit(t) /\ fut[t].calls \in {0, 1} /\ fut[t].op \in Ops
  BY <1>0, <1>t, PolledAcc
<1>2. /\ v.at = "try" /\ v.io = h /\ v.stream = fut[t].stream
      /\ v.op = fut[t].op /\ v.left = fut[t].left /\ v.calls = fut[t].calls
  BY <1>1, <1>t, <1>v DEF UnderPoll, FutType
<1>3. DOMAIN fut' = DOMAIN fut /\ fut'[t] = v
  BY <1>0, <1>1 DEF UnderPoll
<1>h. /\ h = futures[t].obj /\ h # None /\ h \in DOMAIN handles /\ fut[t].stream = None
      /\ t \in DOMAIN futures
  BY <1>t, <1>0, <1>1 DEF UnderPoll, Shape, Owns
<1>4. /\ DOMAIN handles' = DOMAIN handles
      /\ R!Reg(h)' = [ready |-> R!Reg(h).ready, waker |-> t]
      /\ UNCHANGED polling
  BY <1>0, <1>h, BindEffect DEF Inv
<1>p. pc' = pc
  BY <1>0 DEF E!CloneWaker, execVars
<1>5. OthersKept(t) /\ StillThere(t)
  BY <1>t, BindInv
<1>6. StatsTyped' /\ Accounts(t)
  <2>2. /\ Accepting(t)' <=> Accepting(t)
        /\ t \in Unread' <=> t \in Unread
        /\ t \in Unwritten' <=> t \in Unwritten
        /\ t \in StillListening' <=> t \in StillListening
        /\ Progress(t)' = Progress(t)
    BY <1>0, <1>2, <1>3 DEF Accepting, Unread, Unwritten, StillListening, Listening, Progress, One
  <2>4. R!Reg(fut[t].io)'.ready = R!Reg(fut[t].io).ready
    BY <1>4, <1>3, <1>2, <1>t
  <2>3. CallsFit(t)'
    BY <1>0, <1>1, <1>2, <1>3, <1>t, <1>h, <2>4 DEF CallsFit
  <2> QED
    BY <1>t, <1>0, <1>2, <1>3, <1>4, <1>5, <1>h, <2>2, <2>3, <2>4, SilentAccounts
<1> QED
  BY <1>t, <1>0, <1>1, <1>p, <1>5, <1>6, PollStepAcc DEF UnderPoll

(* Pending without a call: nothing is counted.  With one, it is the first  *)
(* of the two that the object takes.                                       *)
LEMMA TryPendingAcc ==
  ASSUME Inv, Inv', Acc, TryPending
  PROVE  Acc'
<1>t. PICK t, h, o : t = cur /\ h = fut[cur].io /\ o = fut[cur].op
  OBVIOUS
<1>0. /\ Running /\ fut[t].at = "try" /\ E!PollPending /\ runs' = runs
      /\ \/ /\ R!NotReady(t) /\ fut' = [fut EXCEPT ![t].at = "bind"] /\ stats' = stats
         \/ /\ R!WouldBlock(t) /\ Blocks(fut[t].calls) /\ R!Reg(h).ready
            /\ fut' = [fut EXCEPT ![t].at = "bind", ![t].calls = NextCall(@)] /\ Inc(o)
  BY <1>t DEF TryPending, Self, Goto
<1>1. /\ UnderPoll(t) /\ CallsFit(t) /\ fut[t].calls \in {0, 1} /\ fut[t].op \in Ops
      /\ StatsTyped /\ fut[t].left \in 0 .. Conns /\ (fut[t].op = "accept" => ListenCounted(t))
      /\ Spent["unregister"] = Spent["register"] - Cardinality(DOMAIN handles)
      /\ \A k \in StatsType : Spent[k] \in Int
      /\ ~ polling
  BY <1>0, <1>t, PolledAcc
<1>h. /\ h = futures[t].obj /\ h # None /\ h \in DOMAIN handles /\ fut[t].stream = None
      /\ t \in DOMAIN futures
  BY <1>t, <1>0, <1>1 DEF UnderPoll, Shape, Owns
<1>4. /\ DOMAIN handles' = DOMAIN handles
      /\ R!Reg(h)' = [ready |-> FALSE, waker |-> R!Reg(h).waker]
      /\ UNCHANGED polling
  BY <1>0, <1>h, PendingEffect DEF Inv
<1>p. pc' = "pick"
  BY <1>0 DEF E!PollPending
<1>5. OthersKept(t) /\ StillThere(t)
  BY <1>t, TryPendingInv
<1>6. CASE stats' = stats /\ R!NotReady(t) /\ fut' = [fut EXCEPT ![t].at = "bind"]
  <2>v. PICK v : v = [fut[t] EXCEPT !.at = "bind"]
    OBVIOUS
  <2>2. /\ v.at = "bind" /\ v.io = h /\ v.stream = fut[t].stream
        /\ v.op = fut[t].op /\ v.left = fut[t].left /\ v.calls = fut[t].calls
    BY <1>1, <1>t, <2>v DEF UnderPoll, FutType
  <2>3. DOMAIN fut' = DOMAIN fut /\ fut'[t] = v
    BY <1>6, <1>1, <2>v DEF UnderPoll
  <2>4. ~ R!Reg(h).ready
    BY <1>6, <1>h DEF R!NotReady, R!IsReady, R!Object
  <2>5. R!Reg(fut[t].io)'.ready = R!Reg(fut[t].io).ready
    <3>1. regs' = regs /\ handles' = handles
      BY <1>6 DEF R!NotReady
    <3> QED
      BY <3>1, <2>2, <2>3, <1>t
  <2>6. /\ Accepting(t)' <=> Accepting(t)
        /\ t \in Unread' <=> t \in Unread
        /\ t \in Unwritten' <=> t \in Unwritten
        /\ t \in StillListening' <=> t \in StillListening
        /\ Progress(t)' = Progress(t)
    BY <1>0, <2>2, <2>3 DEF Accepting, Unread, Unwritten, StillListening, Listening, Progress, One
  <2>7. CallsFit(t)'
    BY <1>0, <1>1, <2>2, <2>3, <1>t, <1>h, <2>5 DEF CallsFit
  <2>8. StatsTyped' /\ Accounts(t)
    <3>1. /\ Running /\ fut[t].at # "start" /\ v.at # "start" /\ t = cur
          /\ UNCHANGED <<stats, runs, polling>> /\ h = fut[t].io
      BY <1>t, <1>0, <1>4, <1>6, <2>2
    <3> QED
      BY <3>1, <1>4, <1>5, <1>h, <2>2, <2>3, <2>5, <2>6, <2>7, SilentAccounts
  <2> QED
    BY <1>t, <1>0, <1>1, <1>p, <1>5, <2>8, PollStepAcc DEF UnderPoll
<1>7. CASE /\ R!WouldBlock(t) /\ Blocks(fut[t].calls) /\ R!Reg(h).ready
           /\ fut' = [fut EXCEPT ![t].at = "bind", ![t].calls = NextCall(@)] /\ Inc(o)
  <2>v. PICK v : v = [fut[t] EXCEPT !.at = "bind", !.calls = 1]
    OBVIOUS
  <2>1. fut[t].calls = 0 /\ NextCall(fut[t].calls) = 1
    BY <1>1, <1>7 DEF Blocks, NextCall
  <2>2. /\ v.at = "bind" /\ v.io = h /\ v.stream = fut[t].stream
        /\ v.op = fut[t].op /\ v.left = fut[t].left /\ v.calls = 1
    BY <1>1, <1>t, <2>v DEF UnderPoll, FutType
  <2>3. DOMAIN fut' = DOMAIN fut /\ fut'[t] = v
    BY <1>7, <1>1, <2>v, <2>1 DEF UnderPoll, FutType
  <2>4. /\ StatsTyped' /\ Spent'[o] = Spent[o] + 1 /\ o \in StatsType
        /\ \A k \in StatsType : k # o => Spent'[k] = Spent[k]
    <3>1. o \in StatsType
      BY <1>1, <1>t DEF Ops, StatsType
    <3> QED
      BY <3>1, <1>0, <1>1, <1>7, SpentCounted
  <2>5. ~ Due(t) /\ ~ Due(t)' /\ ~ Accepting(t) /\ ~ Accepting(t)' /\ Progress(t)' = Progress(t)
    BY <2>1, <2>2, <2>3, <1>0, <1>1, <1>4, <1>t DEF Due, Accepting, Progress, One
  <2>6. /\ t \in Unread <=> fut[t].op = "read"
        /\ t \in Unread' <=> fut[t].op = "read"
        /\ t \in Unwritten <=> fut[t].op # "accept"
        /\ t \in Unwritten' <=> fut[t].op # "accept"
        /\ t \notin ReadBlocked /\ t \notin WriteBlocked
        /\ t \in ReadBlocked' <=> fut[t].op = "read"
        /\ t \in WriteBlocked' <=> fut[t].op = "write"
        /\ t \in StillListening' <=> t \in StillListening
    <3>1. t \in DOMAIN fut
      BY <1>1 DEF UnderPoll
    <3>2. fut[t].op \in Ops
      BY <1>1
    <3> QED
      BY <3>1, <3>2, <2>1, <2>2, <2>3, <1>0
      DEF Unread, Unwritten, ReadBlocked, WriteBlocked, StillListening, Listening, Ops
  <2>7. CallsFit(t)'
    BY <2>2, <2>3, <1>h, <1>t DEF CallsFit
  <2>8. fut[t].op = "accept" => ListenCounted(t)'
    <3> HAVE fut[t].op = "accept"
    <3>1. ListenCounted(t) /\ o = "accept"
      BY <1>1, <1>t
    <3>2. /\ One(Accepting(t))' = 0 /\ One(Accepting(t)) = 0
          /\ One(fut[t].at # "start")' = 1 /\ One(fut[t].at # "start") = 1
          /\ One(fut[t].stream # None)' = 0 /\ One(fut[t].stream # None) = 0
      BY <2>2, <2>3, <2>5, <1>0, <1>h DEF One
    <3>3. Spent'["accept"] = Spent["accept"] + 1 /\ Spent'["register"] = Spent["register"]
      BY <2>4, <3>1 DEF StatsType
    <3> QED
      BY <3>1, <3>2, <3>3, <2>1, <2>2, <2>3, <1>1, CapacityAssumption DEF ListenCounted
  <2>9. /\ Spent'["read"] = Spent["read"] - 2 * (One(t \in Unread') - One(t \in Unread))
                          + (One(t \in ReadBlocked') - One(t \in ReadBlocked))
        /\ Spent'["write"] = Spent["write"] - 2 * (One(t \in Unwritten') - One(t \in Unwritten))
                           + (One(t \in WriteBlocked') - One(t \in WriteBlocked))
    <3>1. /\ Spent'["read"] = Spent["read"] + One(fut[t].op = "read")
          /\ Spent'["write"] = Spent["write"] + One(fut[t].op = "write")
          /\ Spent["read"] \in Int /\ Spent["write"] \in Int
      BY <2>4, <1>1, <1>t DEF Ops, StatsType, One
    <3> QED
      BY <3>1, <2>6 DEF One
  <2>10. Accounts(t)
    <3>1. /\ Polls' = Polls
          /\ fut[t].op # "accept" => /\ Spent'["register"] = Spent["register"]
                                     /\ Spent'["accept"] = Spent["accept"]
          /\ Spent'["unregister"] = Spent'["register"] - Cardinality(DOMAIN handles')
      BY <2>4, <1>1, <1>4, <1>t DEF Polls, StatsType, Ops
    <3>2. One(Due(t))' = One(Due(t)) /\ One(Accepting(t))' = One(Accepting(t))
      BY <2>5 DEF One
    <3> QED
      BY <3>1, <3>2, <2>5, <2>6, <2>7, <2>8, <2>9 DEF Accounts
  <2> QED
    BY <1>t, <1>0, <1>1, <1>p, <1>5, <2>4, <2>10, PollStepAcc DEF UnderPoll
<1> QED
  BY <1>0, <1>6, <1>7

(* The call succeeds: the second of two, for which a poll had to come. *)
LEMMA TryOkAcc ==
  ASSUME Inv, Inv', Acc, TryOk
  PROVE  Acc'
<1>t. PICK t, h, o, p : /\ t = cur /\ h = fut[cur].io /\ o = fut[cur].op
                        /\ p = IF fut[cur].op = "accept" THEN "wrap" ELSE "finish"
  OBVIOUS
<1>0. /\ Running /\ fut[t].at = "try" /\ R!Complete(t) /\ UNCHANGED execVars /\ runs' = runs
      /\ ~ Blocks(fut[t].calls) /\ Inc(o)
      /\ fut' = [fut EXCEPT ![t].at = p, ![t].calls = NextCall(@)]
  BY <1>t DEF TryOk, Self
<1>1. /\ UnderPoll(t) /\ CallsFit(t) /\ fut[t].calls \in {0, 1} /\ fut[t].op \in Ops
      /\ StatsTyped /\ fut[t].left \in 0 .. Conns /\ (fut[t].op = "accept" => ListenCounted(t))
      /\ Spent["unregister"] = Spent["register"] - Cardinality(DOMAIN handles)
      /\ \A k \in StatsType : Spent[k] \in Int
      /\ ~ polling
  BY <1>0, <1>t, PolledAcc
<1>h. /\ h = futures[t].obj /\ h # None /\ h \in DOMAIN handles /\ fut[t].stream = None
      /\ t \in DOMAIN futures
  BY <1>t, <1>0, <1>1 DEF UnderPoll, Shape, Owns
<1>4. UNCHANGED <<regs, handles, polling, pc>> /\ R!Reg(h).ready
  BY <1>0, <1>h DEF R!Complete, R!IsReady, R!Object, execVars
<1>5. OthersKept(t) /\ StillThere(t)
  BY <1>t, TryOkInv
<1>v. PICK v : v = [fut[t] EXCEPT !.at = p, !.calls = 0]
  OBVIOUS
<1>c. fut[t].calls = 1 /\ NextCall(fut[t].calls) = 0
  BY <1>1, <1>0 DEF Blocks, NextCall
<1>2. /\ v.at = p /\ v.io = h /\ v.stream = fut[t].stream
      /\ v.op = fut[t].op /\ v.left = fut[t].left /\ v.calls = 0
  BY <1>1, <1>t, <1>v DEF UnderPoll, FutType
<1>3. DOMAIN fut' = DOMAIN fut /\ fut'[t] = v
  BY <1>0, <1>1, <1>v, <1>c DEF UnderPoll, FutType
<1>6. /\ StatsTyped' /\ Spent'[o] = Spent[o] + 1 /\ o \in StatsType
      /\ \A k \in StatsType : k # o => Spent'[k] = Spent[k]
  <2>1. o \in StatsType
    BY <1>1, <1>t DEF Ops, StatsType
  <2> QED
    BY <2>1, <1>0, <1>1, SpentCounted
<1>7. /\ One(Due(t)) = 1 /\ One(Due(t))' = 0 /\ One(Accepting(t)) = 0 /\ One(Accepting(t))' = 1
      /\ fut[t].op # "accept" => Progress(t)' = Progress(t) + 1
  BY <1>t, <1>c, <1>2, <1>3, <1>0, <1>1, <1>4 DEF Due, Accepting, Progress, One, Ops
<1>8. /\ t \in Unread <=> fut[t].op = "read"
      /\ t \notin Unread'
      /\ t \in Unwritten <=> fut[t].op # "accept"
      /\ t \in Unwritten' <=> fut[t].op = "read"
      /\ t \notin ReadBlocked' /\ t \notin WriteBlocked'
      /\ t \in ReadBlocked <=> fut[t].op = "read"
      /\ t \in WriteBlocked <=> fut[t].op = "write"
      /\ t \in StillListening' <=> t \in StillListening
  <2>1. t \in DOMAIN fut
    BY <1>1 DEF UnderPoll
  <2>2. fut[t].op \in Ops
    BY <1>1
  <2> QED
    BY <2>1, <2>2, <1>c, <1>2, <1>3, <1>0, <1>t
    DEF Unread, Unwritten, ReadBlocked, WriteBlocked, StillListening, Listening, Ops
<1>9. CallsFit(t)'
  BY <1>2, <1>3, <1>h, <1>t, <1>4 DEF CallsFit
<1>10. fut[t].op = "accept" => ListenCounted(t)'
  <2> HAVE fut[t].op = "accept"
  <2>1. ListenCounted(t) /\ o = "accept"
    BY <1>1, <1>t
  <2>2. /\ One(fut[t].at # "start")' = 1 /\ One(fut[t].at # "start") = 1
        /\ One(fut[t].stream # None)' = 0 /\ One(fut[t].stream # None) = 0
    BY <1>2, <1>3, <1>0, <1>h, <1>t DEF One
  <2>3. Spent'["accept"] = Spent["accept"] + 1 /\ Spent'["register"] = Spent["register"]
    BY <1>6, <2>1 DEF StatsType
  <2> QED
    BY <2>1, <2>2, <2>3, <1>7, <1>c, <1>2, <1>3, <1>1, CapacityAssumption DEF ListenCounted
<1>11. /\ Spent'["read"] = Spent["read"] - 2 * (One(t \in Unread') - One(t \in Unread))
                        + (One(t \in ReadBlocked') - One(t \in ReadBlocked))
       /\ Spent'["write"] = Spent["write"] - 2 * (One(t \in Unwritten') - One(t \in Unwritten))
                         + (One(t \in WriteBlocked') - One(t \in WriteBlocked))
  <2>1. /\ Spent'["read"] = Spent["read"] + One(fut[t].op = "read")
        /\ Spent'["write"] = Spent["write"] + One(fut[t].op = "write")
        /\ Spent["read"] \in Int /\ Spent["write"] \in Int
    BY <1>6, <1>1, <1>t DEF Ops, StatsType, One
  <2>2. fut[t].op \in {"accept", "read", "write"}
    BY <1>1 DEF Ops
  <2> QED
    BY <2>1, <2>2, <1>8 DEF One
<1>12. Accounts(t)
  <2>1. /\ Polls' = Polls
        /\ fut[t].op # "accept" => /\ Spent'["register"] = Spent["register"]
                                   /\ Spent'["accept"] = Spent["accept"]
        /\ Spent'["unregister"] = Spent'["register"] - Cardinality(DOMAIN handles')
    BY <1>6, <1>1, <1>4, <1>t DEF Polls, StatsType, Ops
  <2>2. /\ fut[t].op # "accept" => One(Due(t))' + Progress(t)' = One(Due(t)) + Progress(t)
        /\ One(Accepting(t))' + One(Due(t))' = One(Accepting(t)) + One(Due(t))
    <3>1. Progress(t) \in Int
      BY DEF Progress, One
    <3> QED
      BY <3>1, <1>7
  <2> QED
    BY <2>1, <2>2, <1>8, <1>9, <1>10, <1>11 DEF Accounts
<1> QED
  BY <1>t, <1>0, <1>1, <1>4, <1>5, <1>6, <1>12, PollStepAcc DEF UnderPoll

LEMMA FinishAcc ==
  ASSUME Inv, Inv', Acc, Finish
  PROVE  Acc'
<1>t. PICK t, h : t = cur /\ h = fut[cur].io
  OBVIOUS
<1>v. PICK v : v = CASE fut[t].op = "accept" -> [fut[t] EXCEPT !.at = "spawn"]
                     [] fut[t].op = "read"   -> [fut[t] EXCEPT !.at = "call", !.op = "write"]
                     [] fut[t].op = "write"  -> [fut[t] EXCEPT !.at = "close"]
  OBVIOUS
<1>0. /\ Running /\ fut[t].at = "finish" /\ R!DropFuture(t) /\ UNCHANGED <<stats, runs>>
      /\ IF R!Reg(h).waker = None THEN UNCHANGED execVars ELSE E!DropWaker(t)
  BY <1>t DEF Finish, Self
<1>a. fut' = [fut EXCEPT ![t] = v]
  BY <1>t, <1>v, Zenon DEF Finish
<1>1. UnderPoll(t) /\ CallsFit(t) /\ fut[t].op \in Ops
  BY <1>0, <1>t, PolledAcc
<1>2. /\ v.io = h /\ v.stream = fut[t].stream /\ v.left = fut[t].left /\ v.calls = fut[t].calls
      /\ \/ v.op = "accept" /\ fut[t].op = "accept" /\ v.at = "spawn"
         \/ v.op = "write" /\ fut[t].op = "read" /\ v.at = "call"
         \/ v.op = "write" /\ fut[t].op = "write" /\ v.at = "close"
  BY <1>1, <1>t, <1>v DEF UnderPoll, FutType, Ops
<1>3. DOMAIN fut' = DOMAIN fut /\ fut'[t] = v
  BY <1>a, <1>1 DEF UnderPoll
<1>h. /\ h = futures[t].obj /\ h # None /\ h \in DOMAIN handles /\ t \in DOMAIN futures
      /\ fut[t].calls = 0 /\ t \in TaskId
      /\ fut[t].stream # None => fut[t].stream \in DOMAIN handles /\ fut[t].stream # h
  BY <1>t, <1>0, <1>1 DEF UnderPoll, Shape, Owns, CallsFit
<1>4. /\ DOMAIN handles' = DOMAIN handles
      /\ R!Reg(h)' = [ready |-> R!Reg(h).ready, waker |-> None]
      /\ \A g \in DOMAIN handles : g # h => R!Reg(g)' = R!Reg(g)
      /\ UNCHANGED polling
  BY <1>0, <1>h, DropFutureEffect DEF Inv
<1>p. pc' = pc
  <2>1. t \in tasks
    BY <1>1 DEF UnderPoll
  <2>2. CASE R!Reg(h).waker = None
    BY <1>0, <2>2 DEF execVars
  <2>3. CASE R!Reg(h).waker # None
    BY <1>0, <2>3 DEF E!DropWaker
  <2> QED
    BY <2>2, <2>3
<1>5. OthersKept(t) /\ StillThere(t)
  BY <1>t, FinishInv
<1>6. StatsTyped' /\ Accounts(t)
  <2>1. t \in DOMAIN fut
    BY <1>1 DEF UnderPoll
  <2>2. /\ fut[t].op = "accept" => (Accepting(t)' <=> Accepting(t))
        /\ t \in Unread' <=> t \in Unread
        /\ t \in Unwritten' <=> t \in Unwritten
        /\ t \in StillListening' <=> t \in StillListening
        /\ Progress(t)' = Progress(t)
    BY <1>0, <1>2, <1>3, <2>1
    DEF Accepting, Unread, Unwritten, StillListening, Listening, Progress, One
  <2>4. R!Reg(fut[t].io)'.ready = R!Reg(fut[t].io).ready
    BY <1>4, <1>3, <1>2, <1>t
  <2>3. CallsFit(t)'
    BY <1>0, <1>1, <1>2, <1>3, <1>4, <1>t, <1>h, <2>4 DEF CallsFit
  <2>5. /\ fut'[t].calls = fut[t].calls /\ fut'[t].io = fut[t].io
        /\ fut'[t].stream = fut[t].stream /\ fut[t].io # None
        /\ fut[t].at # "start" /\ fut'[t].at # "start" /\ fut[t].calls = 0
    BY <1>t, <1>0, <1>2, <1>3, <1>h
  <2>6. /\ t = cur /\ Running /\ StillThere(t) /\ DOMAIN fut' = DOMAIN fut
        /\ UNCHANGED <<stats, runs, polling>> /\ DOMAIN handles' = DOMAIN handles
    BY <1>t, <1>0, <1>3, <1>4, <1>5
  <2> QED
    BY <2>2, <2>3, <2>4, <2>5, <2>6, SilentAccounts
<1> QED
  BY <1>t, <1>0, <1>1, <1>p, <1>5, <1>6, PollStepAcc DEF UnderPoll

(* Steps that make a call on the reactor: they count it, and the number of *)
(* open objects changes with it.                                           *)
LEMMA ObjectAccounts ==
  ASSUME Inv, Acc, Running, NEW t, t = cur, StillThere(t), DOMAIN fut' = DOMAIN fut,
         UNCHANGED <<runs, polling>>, NEW c \in {"register", "unregister"}, Inc(c),
         Cardinality(DOMAIN handles') = Cardinality(DOMAIN handles)
                                          + (IF c = "register" THEN 1 ELSE -1),
         c = "register" => fut[t].op = "accept",
         fut[t].op = "accept" /\ c = "register" =>
           One(fut[t].at # "start")' + One(fut[t].stream # None)'
             = One(fut[t].at # "start") + One(fut[t].stream # None) + 1,
         fut[t].op = "accept" /\ c = "unregister" =>
           One(fut[t].at # "start")' + One(fut[t].stream # None)'
             = One(fut[t].at # "start") + One(fut[t].stream # None),
         fut'[t].calls = 0, fut[t].calls = 0, fut'[t].op = fut[t].op,
         Accepting(t)' <=> Accepting(t),
         t \in Unread' <=> t \in Unread, t \in Unwritten' <=> t \in Unwritten,
         CallsFit(t)', fut[t].op # "accept" => Progress(t)' = Progress(t),
         t \in StillListening' <=> t \in StillListening
  PROVE  StatsTyped' /\ Accounts(t)
<1>0. /\ StatsTyped /\ fut[t].left \in 0 .. Conns /\ (fut[t].op = "accept" => ListenCounted(t))
      /\ Spent["unregister"] = Spent["register"] - Cardinality(DOMAIN handles)
      /\ \A k \in StatsType : Spent[k] \in Int
      /\ Cardinality(DOMAIN handles) \in Nat
  BY PolledAcc
<1>1. /\ StatsTyped' /\ Spent'[c] = Spent[c] + 1
      /\ \A k \in StatsType : k # c => Spent'[k] = Spent[k]
  <2>1. c \in StatsType
    BY DEF StatsType
  <2> QED
    BY <2>1, <1>0, SpentCounted
<1>2. /\ Polls' = Polls /\ Spent'["accept"] = Spent["accept"]
      /\ Spent'["read"] = Spent["read"] /\ Spent'["write"] = Spent["write"]
      /\ Spent'["register"] = Spent["register"] + One(c = "register")
      /\ Spent'["unregister"] = Spent["unregister"] + One(c = "unregister")
  BY <1>0, <1>1 DEF Polls, StatsType, One
<1>3. fut[t].op = "accept" => ListenCounted(t)'
  <2> HAVE fut[t].op = "accept"
  <2>1. ListenCounted(t)
    BY <1>0
  <2>2. One(Accepting(t))' = One(Accepting(t))
    BY DEF One
  <2>3. fut'[t].left = fut[t].left
    BY DEF StillThere
  <2>4. PICK a \in Int, b \in Int, x \in Int, y \in Int :
          /\ a = One(fut[t].at # "start") /\ b = One(fut[t].stream # None)
          /\ x = One(fut[t].at # "start")' /\ y = One(fut[t].stream # None)'
    BY DEF One
  <2>5. x + y = a + b + One(c = "register")
    BY <2>4 DEF One
  <2>6. Spent'["register"] = x + (Conns - fut'[t].left) + y
    <3>1. Spent["register"] = a + (Conns - fut[t].left) + b
      BY <2>1, <2>4 DEF ListenCounted
    <3>2. PICK m \in Int, o \in Int : m = Conns - fut[t].left /\ o = One(c = "register")
      <4>1. Conns - fut[t].left \in Int
        BY <1>0, CapacityAssumption
      <4> QED
        BY <4>1 DEF One
    <3>3. Spent'["register"] = a + m + b + o
      BY <1>2, <3>1, <3>2
    <3>4. x + y = a + b + o
      BY <2>5, <3>2
    <3>5. Spent'["register"] = x + m + y
      BY <3>3, <3>4
    <3> QED
      BY <3>2, <3>5, <2>3
  <2>7. Spent'["accept"] = 2 * (Conns - fut'[t].left) + 2 * One(Accepting(t))' + fut'[t].calls
    BY <2>1, <2>2, <2>3, <1>2 DEF ListenCounted
  <2> QED
    BY <2>4, <2>6, <2>7 DEF ListenCounted
<1>4. Spent'["unregister"] = Spent'["register"] - Cardinality(DOMAIN handles')
  <2>1. Spent["register"] \in Int /\ Spent["unregister"] \in Int
    BY <1>0 DEF StatsType
  <2> QED
    BY <2>1, <1>0, <1>2 DEF One
<1>5. t \notin ReadBlocked' /\ t \notin ReadBlocked /\ t \notin WriteBlocked'
      /\ t \notin WriteBlocked
  BY DEF ReadBlocked, WriteBlocked
<1>6. One(Due(t))' = One(Due(t)) /\ One(Accepting(t))' = One(Accepting(t))
  BY DEF One, Due
<1>7. /\ Spent'["read"] = Spent["read"] - 2 * (One(t \in Unread') - One(t \in Unread))
                        + (One(t \in ReadBlocked') - One(t \in ReadBlocked))
      /\ Spent'["write"] = Spent["write"] - 2 * (One(t \in Unwritten') - One(t \in Unwritten))
                         + (One(t \in WriteBlocked') - One(t \in WriteBlocked))
  <2>1. Spent["read"] \in Int /\ Spent["write"] \in Int
    BY <1>0 DEF StatsType
  <2> QED
    BY <2>1, <1>2, <1>5 DEF One
<1>8. fut[t].op # "accept" => Spent'["register"] = Spent["register"]
  BY <1>0, <1>2 DEF One, StatsType
<1> QED
  BY <1>1, <1>2, <1>3, <1>4, <1>6, <1>7, <1>8 DEF Accounts

LEMMA CloseAcc ==
  ASSUME Inv, Inv', Acc, Close
  PROVE  Acc'
<1>t. PICK t, h : t = cur /\ h = fut[cur].io
  OBVIOUS
<1>v. PICK v : v = [fut[t] EXCEPT !.at = "closed", !.io = None]
  OBVIOUS
<1>0. /\ Running /\ fut[t].at = "close" /\ R!Drop(h) /\ E!PollReady
      /\ fut' = [fut EXCEPT ![t].at = "closed", ![t].io = None]
      /\ Inc("unregister") /\ runs' = runs
  BY <1>t DEF Close, Self
<1>1. /\ UnderPoll(t) /\ CallsFit(t) /\ fut[t].op \in Ops /\ fut[t].calls \in {0, 1}
      /\ IsFiniteSet(DOMAIN handles) /\ Cardinality(DOMAIN handles) \in Nat
  BY <1>0, <1>t, PolledAcc
<1>a. fut' = [fut EXCEPT ![t] = v]
  BY <1>0, <1>1, <1>v DEF UnderPoll, FutType
<1>2. /\ v.at = "closed" /\ v.io = None /\ v.stream = fut[t].stream
      /\ v.op = fut[t].op /\ v.left = fut[t].left /\ v.calls = fut[t].calls
  BY <1>1, <1>v DEF UnderPoll, FutType
<1>3. DOMAIN fut' = DOMAIN fut /\ fut'[t] = v
  BY <1>a, <1>1 DEF UnderPoll
<1>h. fut[t].stream = None /\ fut[t].calls = 0 /\ t \in DOMAIN fut
  BY <1>t, <1>0, <1>1 DEF UnderPoll, Shape, CallsFit
<1>4. /\ h \in DOMAIN handles /\ DOMAIN handles' = DOMAIN handles \ {h} /\ UNCHANGED polling
  BY <1>0, DropEffect DEF Inv
<1>5. Cardinality(DOMAIN handles') = Cardinality(DOMAIN handles) + -1
  <2>1. Cardinality(DOMAIN handles \ {h}) = Cardinality(DOMAIN handles) - 1
    BY <1>1, <1>4, JoinOrLeave
  <2> QED
    BY <2>1, <1>1, <1>4
<1>6. OthersKept(t) /\ StillThere(t)
  BY <1>t, CloseInv
<1>7. pc' = "drop"
  BY <1>0 DEF E!PollReady
<1>8. /\ Accepting(t)' <=> Accepting(t)
      /\ t \in Unread' <=> t \in Unread
      /\ t \in Unwritten' <=> t \in Unwritten
      /\ t \in StillListening' <=> t \in StillListening
      /\ Progress(t)' = Progress(t)
  BY <1>0, <1>2, <1>3, <1>h DEF Accepting, Unread, Unwritten, StillListening, Listening, Progress, One
<1>9. CallsFit(t)'
  BY <1>0, <1>1, <1>2, <1>3, <1>h DEF CallsFit
<1>10. One(fut[t].at # "start")' + One(fut[t].stream # None)'
         = One(fut[t].at # "start") + One(fut[t].stream # None)
  BY <1>0, <1>2, <1>3, <1>h DEF One
<1>11. StatsTyped' /\ Accounts(t)
  BY <1>t, <1>0, <1>2, <1>3, <1>4, <1>5, <1>6, <1>8, <1>9, <1>10, <1>h, ObjectAccounts
<1> QED
  BY <1>t, <1>0, <1>1, <1>6, <1>7, <1>11, PollStepAcc DEF UnderPoll

LEMMA ListenStartAcc ==
  ASSUME Inv, Inv', Acc, ListenStart
  PROVE  Acc'
<1>t. PICK t, h : t = cur /\ h = NewHandle
  OBVIOUS
<1>v. PICK v : v = [fut[t] EXCEPT !.io = h, !.at = "call"]
  OBVIOUS
<1>r. Running /\ fut[t].at = "start"
  BY <1>t DEF ListenStart, Self
<1>1. /\ UnderPoll(t) /\ CallsFit(t) /\ fut[t].op \in Ops /\ fut[t].calls \in {0, 1}
      /\ IsFiniteSet(DOMAIN handles) /\ Cardinality(DOMAIN handles) \in Nat
  BY <1>r, <1>t, PolledAcc
<1>s. /\ R!CanRegister /\ h \in Handle /\ h \notin DOMAIN handles /\ h # None
      /\ fut[t].op = "accept" /\ fut[t].stream = None /\ fut[t].calls = 0 /\ t \in DOMAIN fut
  BY <1>r, <1>1, <1>t, RoomForObject, SlotAssumption DEF UnderPoll, Shape, CallsFit
<1>0. /\ R!New(h, "listener") /\ UNCHANGED execVars /\ Inc("register") /\ runs' = runs
      /\ fut' = [fut EXCEPT ![t].io = h, ![t].at = "call"]
  BY <1>t, <1>s DEF ListenStart, MakeObject
<1>a. fut' = [fut EXCEPT ![t] = v]
  BY <1>0, <1>1, <1>v DEF UnderPoll, FutType
<1>2. /\ v.at = "call" /\ v.io = h /\ v.stream = fut[t].stream
      /\ v.op = fut[t].op /\ v.left = fut[t].left /\ v.calls = fut[t].calls
  BY <1>1, <1>v DEF UnderPoll, FutType
<1>3. DOMAIN fut' = DOMAIN fut /\ fut'[t] = v
  BY <1>a, <1>1 DEF UnderPoll
<1>4. /\ DOMAIN handles' = DOMAIN handles \cup {h}
      /\ R!Reg(h)' = [ready |-> TRUE, waker |-> None] /\ UNCHANGED polling
  BY <1>0, NewEffect DEF Inv
<1>5. Cardinality(DOMAIN handles') = Cardinality(DOMAIN handles) + 1
  BY <1>1, <1>4, <1>s, JoinOrLeave
<1>6. OthersKept(t) /\ StillThere(t)
  BY <1>t, ListenStartInv
<1>7. pc' = pc
  BY <1>0 DEF execVars
<1>8. /\ Accepting(t)' <=> Accepting(t)
      /\ t \in Unread' <=> t \in Unread
      /\ t \in Unwritten' <=> t \in Unwritten
      /\ t \in StillListening' <=> t \in StillListening
  BY <1>r, <1>2, <1>3, <1>s DEF Accepting, Unread, Unwritten, StillListening, Listening
<1>9. CallsFit(t)'
  BY <1>r, <1>1, <1>2, <1>3, <1>4, <1>s DEF CallsFit
<1>10. One(fut[t].at # "start")' + One(fut[t].stream # None)'
         = One(fut[t].at # "start") + One(fut[t].stream # None) + 1
  BY <1>r, <1>2, <1>3, <1>s DEF One
<1>11. Accounts(t) /\ StatsTyped'
  BY <1>t, <1>r, <1>0, <1>2, <1>3, <1>4, <1>5, <1>6, <1>8, <1>9, <1>10, <1>s, ObjectAccounts
<1> QED
  BY <1>t, <1>r, <1>1, <1>6, <1>7, <1>11, PollStepAcc DEF UnderPoll

LEMMA WrapAcc ==
  ASSUME Inv, Inv', Acc, Wrap
  PROVE  Acc'
<1>t. PICK t, h : t = cur /\ h = NewHandle
  OBVIOUS
<1>v. PICK v : v = [fut[t] EXCEPT !.stream = h, !.at = "finish"]
  OBVIOUS
<1>r. Running /\ fut[t].at = "wrap"
  BY <1>t DEF Wrap, Self
<1>1. /\ UnderPoll(t) /\ CallsFit(t) /\ fut[t].op \in Ops /\ fut[t].calls \in {0, 1}
      /\ IsFiniteSet(DOMAIN handles) /\ Cardinality(DOMAIN handles) \in Nat
  BY <1>r, <1>t, PolledAcc
<1>s. /\ R!CanRegister /\ h \in Handle /\ h \notin DOMAIN handles /\ h # None
      /\ fut[t].io # None /\ fut[t].io \in DOMAIN handles /\ fut[t].io # h
      /\ fut[t].op = "accept" /\ fut[t].stream = None /\ fut[t].calls = 0 /\ t \in DOMAIN fut
  BY <1>r, <1>1, <1>t, RoomForObject, SlotAssumption DEF UnderPoll, Shape, CallsFit, Owns
<1>0. /\ R!New(h, "stream") /\ UNCHANGED execVars /\ Inc("register") /\ runs' = runs
      /\ fut' = [fut EXCEPT ![t].stream = h, ![t].at = "finish"]
  BY <1>t, <1>s DEF Wrap, MakeObject
<1>a. fut' = [fut EXCEPT ![t] = v]
  BY <1>0, <1>1, <1>v DEF UnderPoll, FutType
<1>2. /\ v.at = "finish" /\ v.io = fut[t].io /\ v.stream = h
      /\ v.op = fut[t].op /\ v.left = fut[t].left /\ v.calls = fut[t].calls
  BY <1>1, <1>v DEF UnderPoll, FutType
<1>3. DOMAIN fut' = DOMAIN fut /\ fut'[t] = v
  BY <1>a, <1>1 DEF UnderPoll
<1>4. /\ DOMAIN handles' = DOMAIN handles \cup {h}
      /\ R!Reg(h)' = [ready |-> TRUE, waker |-> None] /\ UNCHANGED polling
      /\ \A g \in DOMAIN handles : R!Reg(g)' = R!Reg(g)
  BY <1>0, NewEffect DEF Inv
<1>5. Cardinality(DOMAIN handles') = Cardinality(DOMAIN handles) + 1
  BY <1>1, <1>4, <1>s, JoinOrLeave
<1>6. OthersKept(t) /\ StillThere(t)
  BY <1>t, WrapInv
<1>7. pc' = pc
  BY <1>0 DEF execVars
<1>8. /\ Accepting(t)' <=> Accepting(t)
      /\ t \in Unread' <=> t \in Unread
      /\ t \in Unwritten' <=> t \in Unwritten
      /\ t \in StillListening' <=> t \in StillListening
      /\ Progress(t)' = Progress(t)
  BY <1>r, <1>2, <1>3, <1>s DEF Accepting, Unread, Unwritten, StillListening, Listening, Progress
<1>9. CallsFit(t)'
  BY <1>r, <1>1, <1>2, <1>3, <1>4, <1>s DEF CallsFit
<1>10. One(fut[t].at # "start")' + One(fut[t].stream # None)'
         = One(fut[t].at # "start") + One(fut[t].stream # None) + 1
  BY <1>r, <1>2, <1>3, <1>s DEF One
<1>11. Accounts(t) /\ StatsTyped'
  <2>1. /\ t = cur /\ Running /\ StillThere(t) /\ DOMAIN fut' = DOMAIN fut
        /\ UNCHANGED <<runs, polling>> /\ Inc("register")
    BY <1>t, <1>r, <1>0, <1>3, <1>4, <1>6
  <2>2. /\ fut[t].op = "accept" /\ fut'[t].op = fut[t].op
        /\ fut'[t].calls = 0 /\ fut[t].calls = 0
    BY <1>2, <1>3, <1>s
  <2>3. PICK c \in {"register", "unregister"} : c = "register"
    OBVIOUS
  <2>4. Inc(c) /\ Cardinality(DOMAIN handles') = Cardinality(DOMAIN handles)
                                                  + (IF c = "register" THEN 1 ELSE -1)
    BY <2>1, <2>3, <1>5
  <2> QED
    BY <2>1, <2>2, <2>3, <2>4, <1>8, <1>9, <1>10, ObjectAccounts
<1> QED
  BY <1>t, <1>r, <1>1, <1>6, <1>7, <1>11, PollStepAcc DEF UnderPoll

-----------------------------------------------------------------------------
(* A task that a step leaves alone. *)
LEMMA SameTask ==
  ASSUME NEW u, fut'[u] = fut[u], UNCHANGED <<regs, handles, polling>>
  PROVE  /\ One(Due(u))' = One(Due(u)) /\ Progress(u)' = Progress(u)
         /\ One(Accepting(u))' = One(Accepting(u))
         /\ CallsFit(u)' <=> CallsFit(u)
  BY DEF One, Due, Progress, Accepting, CallsFit

(* spawn(): the connection starts with no calls made, behind as many polls *)
(* as connections were accepted.                                           *)
LEMMA SpawnAcc ==
  ASSUME Inv, Inv', Acc, Spawn
  PROVE  Acc'
<1>t. PICK t, s, p : /\ t = cur /\ s = fut[cur].stream
                     /\ p = IF fut[cur].left = 1 THEN "close" ELSE "call"
  OBVIOUS
<1>v. PICK v : v = [fut[t] EXCEPT !.stream = None, !.left = @ - 1, !.at = p]
  OBVIOUS
<1>r. Running /\ fut[t].at = "spawn"
  BY <1>t DEF Spawn, Self
<1>1. /\ UnderPoll(t) /\ CallsFit(t) /\ Active /\ ~ polling /\ StatsTyped
      /\ (fut[t].op = "accept" => ListenCounted(t))
      /\ Spent["unregister"] = Spent["register"] - Cardinality(DOMAIN handles)
      /\ \A k \in StatsType : Spent[k] \in Int
  BY <1>r, <1>t, PolledAcc
<1>s. /\ fut[t].op = "accept" /\ s # None /\ fut[t].left \in 1 .. Conns
      /\ fut[t].calls = 0 /\ R!Reg(s).ready /\ t \in DOMAIN fut /\ fut[t].io # None
      /\ R!Reg(fut[t].io).ready
  BY <1>r, <1>1, <1>t, CapacityAssumption DEF UnderPoll, Shape, HasRoom, FutType, CallsFit
<1>n. PICK n \in TaskId :
        /\ E!Add(n)
        /\ fut' = With([fut EXCEPT ![t].stream = None, ![t].left = @ - 1, ![t].at = p],
                       n, Connection(s))
        /\ UNCHANGED reactVars /\ UNCHANGED <<stats, runs>>
  <2>1. ~ E!UserPanics
    BY DEF E!UserPanics, Inv, OwnInv, NoPanic
  <2> QED
    BY <1>t, <2>1 DEF Spawn, Self
<1>a. fut' = With([fut EXCEPT ![t] = v], n, Connection(s))
  BY <1>n, <1>1, <1>v DEF UnderPoll, FutType
<1>2. /\ v.at = p /\ v.io = fut[t].io /\ v.stream = None /\ v.calls = 0
      /\ v.op = "accept" /\ v.left = fut[t].left - 1
  BY <1>1, <1>s, <1>v DEF UnderPoll, FutType
<1>w. /\ Connection(s).at = "call" /\ Connection(s).io = s /\ Connection(s).stream = None
      /\ Connection(s).op = "read" /\ Connection(s).calls = 0
  BY DEF Connection
<1>3. /\ tasks' = tasks \cup {n} /\ n \notin tasks /\ pc' = pc /\ DOMAIN fut = tasks
  BY <1>n DEF E!Add, Inv, OwnInv, FutsAreTasks
<1>4. UNCHANGED <<regs, handles, futures, polling>>
  BY <1>n DEF reactVars
<1>5. /\ DOMAIN fut' = DOMAIN fut \cup {n} /\ n # t /\ n \notin DOMAIN fut
      /\ fut'[t] = v /\ fut'[n] = Connection(s)
      /\ \A u \in Others(t) : u \in DOMAIN fut /\ u # t /\ u # n /\ fut'[u] = fut[u]
      /\ \A u \in DOMAIN fut' : u = t \/ u = n \/ u \in Others(t)
  BY <1>a, <1>s, <1>3 DEF With, Others
<1>6. StatsTyped' /\ Spent' = Spent /\ Polls' = Polls /\ Polls \in Int
  BY <1>1, <1>n, SpentKept DEF Polls, StatsType
<1>7. /\ Active' /\ ParksAsleep'
  BY <1>1, <1>3 DEF Active, ParksAsleep, UnderPoll
<1>o. \A u \in Others(t) : fut[u].op # "accept"
  BY <1>1, <1>s DEF UnderPoll, HasRoom
<1>l. /\ Listening = {t} /\ Listening' = {t}
      /\ Spawned = Conns - fut[t].left /\ Spawned' = Conns - fut[t].left + 1
  <2>1. Listening = {t}
    BY <1>s, <1>o DEF Listening, Others
  <2>2. Listening' = {t}
    <3>1. \A u \in DOMAIN fut' : fut'[u].op = "accept" <=> u = t
      <4>1. fut'[t].op = "accept" /\ fut'[n].op = "read"
        BY <1>5, <1>2, <1>w
      <4>2. \A u \in Others(t) : fut'[u].op # "accept" /\ u # t
        BY <1>5, <1>o
      <4> QED
        BY <4>1, <4>2, <1>5
    <3>2. t \in DOMAIN fut'
      BY <1>5, <1>s
    <3> QED
      BY <3>1, <3>2 DEF Listening
  <2>3. (CHOOSE u \in Listening : TRUE) = t /\ (CHOOSE u \in Listening' : TRUE) = t
    BY <2>1, <2>2
  <2>4. Spawned = Conns - fut[t].left /\ Spawned' = Conns - fut'[t].left
    BY <2>1, <2>2, <2>3 DEF Spawned
  <2> QED
    BY <2>1, <2>2, <2>4, <1>5, <1>2, <1>s, CapacityAssumption
<1>8. CallsCounted'
  <2>1. ListenCounted(t)'
    <3>1. /\ One(fut[t].at # "start") = 1 /\ One(fut[t].stream # None) = 1
          /\ One(Accepting(t)) = 1
          /\ One(fut[t].at # "start")' = 1 /\ One(fut[t].stream # None)' = 0
          /\ One(Accepting(t))' = 0
      BY <1>r, <1>t, <1>s, <1>2, <1>5 DEF One, Accepting
    <3>2. ListenCounted(t)
      BY <1>1, <1>s
    <3> QED
      BY <3>1, <3>2, <1>s, <1>2, <1>5, <1>6, CapacityAssumption DEF ListenCounted
  <2>2. /\ Unread' = Unread \cup {n} /\ n \notin Unread
        /\ Unwritten' = Unwritten \cup {n} /\ n \notin Unwritten
        /\ ReadBlocked' = ReadBlocked /\ WriteBlocked' = WriteBlocked
    <3>1. t \notin Unread /\ t \notin Unwritten /\ t \notin ReadBlocked /\ t \notin WriteBlocked
      BY <1>s DEF Unread, Unwritten, ReadBlocked, WriteBlocked
    <3>2. \A u \in DOMAIN fut : u = t \/ u \in Others(t)
      BY DEF Others
    <3>3. Unread' = Unread \cup {n} /\ n \notin Unread
      BY <3>1, <3>2, <1>5, <1>2, <1>w DEF Unread
    <3>4. Unwritten' = Unwritten \cup {n} /\ n \notin Unwritten
      BY <3>1, <3>2, <1>5, <1>2, <1>w DEF Unwritten
    <3>5. ReadBlocked' = ReadBlocked
      BY <3>1, <3>2, <1>5, <1>2, <1>w DEF ReadBlocked
    <3>6. WriteBlocked' = WriteBlocked
      BY <3>1, <3>2, <1>5, <1>2, <1>w DEF WriteBlocked
    <3> QED
      BY <3>3, <3>4, <3>5, <3>6
  <2>3. /\ Cardinality(Unread') = Cardinality(Unread) + 1 /\ Cardinality(Unread) \in Nat
        /\ Cardinality(Unwritten') = Cardinality(Unwritten) + 1 /\ Cardinality(Unwritten) \in Nat
        /\ Cardinality(ReadBlocked) \in Nat /\ Cardinality(WriteBlocked) \in Nat
    <3>1. /\ Unread \in SUBSET DOMAIN fut /\ Unwritten \in SUBSET DOMAIN fut
          /\ ReadBlocked \in SUBSET DOMAIN fut /\ WriteBlocked \in SUBSET DOMAIN fut
      BY DEF Unread, Unwritten, ReadBlocked, WriteBlocked
    <3>2. \A S \in SUBSET DOMAIN fut : IsFiniteSet(S) /\ Cardinality(S) \in Nat
      BY FiniteTasks DEF Inv, OwnInv, FutsAreTasks
    <3> QED
      BY <3>1, <3>2, <2>2, JoinOrLeave
  <2>4. /\ Spent["read"] = 2 * (Spawned - Cardinality(Unread)) + Cardinality(ReadBlocked)
        /\ Spent["write"] = 2 * (Spawned - Cardinality(Unwritten)) + Cardinality(WriteBlocked)
    BY <1>1 DEF Acc, CallsCounted
  <2>5. Spawned' = Spawned + 1 /\ Spawned \in Int
    BY <1>l, <1>s, CapacityAssumption
  <2>6. /\ Spent'["read"] = 2 * (Spawned' - Cardinality(Unread')) + Cardinality(ReadBlocked')
        /\ Spent'["write"] = 2 * (Spawned' - Cardinality(Unwritten')) + Cardinality(WriteBlocked')
    BY <2>2, <2>3, <2>4, <2>5, <1>6
  <2> QED
    BY <2>1, <2>6, <1>1, <1>4, <1>6, <1>l DEF CallsCounted
<1>9. CallsInPlace'
  <2>1. ASSUME NEW u \in Others(t) PROVE CallsFit(u)'
    BY <1>4, <1>5, SameTask DEF Acc, CallsInPlace
  <2>2. CallsFit(t)'
    <3>1. fut[t].left - 1 = 0 \/ p = "call"
      BY <1>t, <1>s
    <3> QED
      BY <3>1, <1>1, <1>s, <1>t, <1>2, <1>4, <1>5 DEF CallsFit
  <2>3. CallsFit(n)'
    BY <1>s, <1>w, <1>4, <1>5 DEF CallsFit
  <2> QED
    BY <2>1, <2>2, <2>3, <1>5 DEF CallsInPlace
<1>10. PollsCounted'
  <2>1. Polls = Conns - fut[t].left + 1
    <3>1. t \in StillListening
      BY <1>l, <1>r DEF StillListening
    <3>2. ListenPolls(t)
      BY <3>1, <1>1 DEF Acc, PollsCounted
    <3>3. One(Accepting(t)) = 1 /\ One(Due(t)) = 0
      BY <1>r, <1>s DEF One, Accepting, Due
    <3> QED
      BY <3>2, <3>3, <1>6, <1>s, CapacityAssumption DEF ListenPolls
  <2>2. Birth(n)' = Polls
    <3>1. One(Due(n))' = 0 /\ Progress(n)' = 0
      BY <1>w, <1>5 DEF One, Due, Progress
    <3> QED
      BY <3>1, <1>6 DEF Birth
  <2>3. Connections' = Connections \cup {n} /\ n \notin Connections
    <3>1. \A u \in DOMAIN fut : u = t \/ u \in Others(t)
      BY DEF Others
    <3> QED
      BY <3>1, <1>s, <1>o, <1>5, <1>2, <1>w DEF Connections
  <2>4. \A u \in Connections : Birth(u)' = Birth(u)
    <3> TAKE u \in Connections
    <3>1. u \in Others(t)
      BY <1>s DEF Connections, Others
    <3>2. fut'[u] = fut[u]
      BY <3>1, <1>5
    <3>3. One(Due(u))' = One(Due(u)) /\ Progress(u)' = Progress(u)
      BY <3>2, <1>4, SameTask
    <3> QED
      BY <3>3, <1>6 DEF Birth
  <2>5. \A u \in Connections' : Birth(u)' \in 1 .. Conns
    <3>1. Polls \in 1 .. Conns
      BY <2>1, <1>s, CapacityAssumption
    <3>2. \A u \in Connections : Birth(u) \in 1 .. Conns
      BY <1>1 DEF Acc, PollsCounted
    <3> QED
      BY <3>1, <3>2, <2>2, <2>3, <2>4
  <2>6. ASSUME NEW u \in StillListening' PROVE ListenPolls(u)'
    <3>1. u = t
      BY <1>l DEF StillListening
    <3>2. One(Accepting(t))' = 0 /\ One(Due(t))' = 0
      BY <1>t, <1>2, <1>5 DEF One, Accepting, Due
    <3> QED
      BY <3>1, <3>2, <2>1, <1>2, <1>5, <1>6, <1>s, CapacityAssumption DEF ListenPolls
  <2>7. StillListening' = {} => Birth(n)' = Conns
    <3> HAVE StillListening' = {}
    <3>1. fut[t].left = 1
      BY <1>l, <1>t, <1>2, <1>5 DEF StillListening
    <3> QED
      BY <3>1, <2>1, <2>2, CapacityAssumption
  <2>8. n \in Connections'
    BY <2>3
  <2> QED
    BY <2>5, <2>6, <2>7, <2>8 DEF PollsCounted
<1> QED
  BY <1>6, <1>7, <1>8, <1>9, <1>10 DEF Acc, CleanBetween

(* A run starts with nothing on the account. *)
LEMMA SpawnListenAcc ==
  ASSUME Inv, Inv', Acc, SpawnListen
  PROVE  Acc'
<1>1. PICK n \in TaskId : E!Add(n) /\ fut' = With(fut, n, Listen)
  BY DEF SpawnListen
<1>2. /\ DOMAIN fut = {} /\ DOMAIN handles = {} /\ ~ Active /\ pc = "idle"
  BY DEF SpawnListen, Inv, OwnInv, FutsAreTasks, OneOwner, Active
<1>3. tasks' = {n} /\ pc' = pc
  BY <1>1 DEF E!Add, SpawnListen
<1>4. UNCHANGED <<regs, handles, futures, polling>> /\ UNCHANGED <<stats, runs>>
  BY DEF SpawnListen, reactVars
<1>5. /\ Listen.at = "start" /\ Listen.op = "accept" /\ Listen.calls = 0
      /\ Listen.io = None /\ Listen.stream = None /\ Listen.left = Conns
  BY DEF Listen
<1>6. DOMAIN fut' = {n} /\ fut'[n] = Listen
  BY <1>1, <1>2 DEF With
<1>7. /\ StatsTyped' /\ Spent' = Spent
  BY <1>4, SpentKept DEF Acc
<1>8. \A k \in StatsType : Spent'[k] = 0
  BY <1>2, <1>7 DEF Acc, CleanBetween, ZeroStats
<1>9. Active' /\ ParksAsleep'
  BY <1>2, <1>3 DEF Active, ParksAsleep
<1>10. Listening' = {n} /\ Spawned' = 0
  <2>1. Listening' = {n}
    BY <1>5, <1>6 DEF Listening
  <2>2. (CHOOSE u \in Listening' : TRUE) = n
    BY <2>1
  <2>3. Spawned' = Conns - fut'[n].left
    BY <2>1, <2>2 DEF Spawned
  <2> QED
    BY <2>1, <2>3, <1>5, <1>6, CapacityAssumption
<1>11. CallsCounted'
  <2>1. /\ One(fut[n].at # "start")' = 0 /\ One(fut[n].stream # None)' = 0
        /\ One(Accepting(n))' = 0
    BY <1>5, <1>6 DEF One, Accepting
  <2>2. ListenCounted(n)'
    BY <2>1, <1>5, <1>6, <1>8, CapacityAssumption DEF ListenCounted, StatsType
  <2>3. Unread' = {} /\ Unwritten' = {} /\ ReadBlocked' = {} /\ WriteBlocked' = {}
    BY <1>5, <1>6 DEF Unread, Unwritten, ReadBlocked, WriteBlocked
  <2>4. DOMAIN handles' = {} /\ Cardinality({}) = 0
    BY <1>2, <1>4, FS_EmptySet
  <2> QED
    BY <2>2, <2>3, <2>4, <1>8, <1>10 DEF CallsCounted, StatsType
<1>12. CallsInPlace'
  BY <1>5, <1>6 DEF CallsInPlace, CallsFit
<1>13. PollsCounted'
  <2>1. One(Accepting(n))' = 0 /\ One(Due(n))' = 0 /\ Polls' = 0
    BY <1>5, <1>6, <1>8 DEF One, Accepting, Due, Polls, StatsType
  <2>2. ListenPolls(n)'
    BY <2>1, <1>5, <1>6, CapacityAssumption DEF ListenPolls
  <2>3. Connections' = {} /\ StillListening' = {n}
    BY <1>5, <1>6, <1>10 DEF Connections, StillListening
  <2> QED
    BY <2>2, <2>3 DEF PollsCounted
<1> QED
  BY <1>7, <1>9, <1>11, <1>12, <1>13 DEF Acc, CleanBetween

(* A task that has returned has made all its calls; the connection that    *)
(* was spawned last ends two polls later.                                  *)
LEMMA TaskDoneAcc ==
  ASSUME Inv, Inv', Acc, TaskDone
  PROVE  Acc'
<1>t. PICK t : t = cur
  OBVIOUS
<1>0. E!TaskDone /\ fut' = Without(fut, t) /\ UNCHANGED reactVars /\ UNCHANGED <<stats, runs>>
  BY <1>t DEF TaskDone
<1>1. pc = "drop" /\ t \in tasks /\ t \in DOMAIN fut
  BY <1>0, <1>t, ExecutorFacts DEF E!TaskDone, Inv, OwnInv, FutsAreTasks
<1>2. /\ fut[t].at = "closed" /\ CallsFit(t) /\ fut[t] \in FutType /\ fut[t].stream = None
  BY <1>1, <1>t DEF Inv, OwnInv, FutsAreTasks, FutsInShape, Shape, InStep, IsSlab, Acc, CallsInPlace
<1>3. fut[t].calls = 0 /\ fut[t].op # "read" /\ (fut[t].op = "accept" => fut[t].left = 0)
  BY <1>2 DEF CallsFit
<1>4. pc' = "pick" /\ tasks' = tasks \ {t}
  BY <1>0, <1>t DEF E!TaskDone, Inv, OwnInv, NoPanic
<1>5. UNCHANGED <<regs, handles, futures, polling>>
  BY <1>0 DEF reactVars
<1>6. /\ DOMAIN fut' = DOMAIN fut \ {t} /\ \A u \in DOMAIN fut' : fut'[u] = fut[u]
  BY <1>0 DEF Without
<1>7. /\ StatsTyped' /\ Spent' = Spent /\ Polls' = Polls /\ Polls \in Int
  BY <1>0, SpentKept, SpentType DEF Acc, Polls, StatsType
<1>8. Active /\ Active' /\ ParksAsleep'
  BY <1>1, <1>4 DEF Active, ParksAsleep
<1>9. /\ Unread' = Unread /\ Unwritten' = Unwritten
      /\ ReadBlocked' = ReadBlocked /\ WriteBlocked' = WriteBlocked
  <2>1. t \notin Unread /\ t \notin Unwritten /\ t \notin ReadBlocked /\ t \notin WriteBlocked
    BY <1>2, <1>3 DEF Unread, Unwritten, ReadBlocked, WriteBlocked
  <2>2. Unread' = Unread /\ Unwritten' = Unwritten
    BY <2>1, <1>6 DEF Unread, Unwritten
  <2>3. ReadBlocked' = ReadBlocked /\ WriteBlocked' = WriteBlocked
    BY <2>1, <1>6 DEF ReadBlocked, WriteBlocked
  <2> QED
    BY <2>2, <2>3
<1>10. Listening' = Listening \ {t} /\ StillListening' = StillListening
  BY <1>2, <1>6 DEF Listening, StillListening
<1>11. CASE fut[t].op = "accept"
  <2>1. Listening = {t} /\ Spawned = Conns
    <3>1. t \in Listening
      BY <1>1, <1>11 DEF Listening
    <3>2. Listening = {t} /\ Spawned = Conns - fut[t].left
      BY <3>1, OneListener DEF Inv, OwnInv
    <3> QED
      BY <3>2, <1>3, <1>11, CapacityAssumption
  <2>2. Listening' = {} /\ Spawned' = Conns
    BY <2>1, <1>10 DEF Spawned
  <2>3. Spent["register"] = Conns + 1 /\ Spent["accept"] = 2 * Conns
    <3>1. ListenCounted(t)
      BY <2>1, <1>8 DEF Acc, CallsCounted
    <3>2. /\ One(fut[t].at # "start") = 1 /\ One(fut[t].stream # None) = 0
          /\ One(Accepting(t)) = 0
      BY <1>2 DEF One, Accepting
    <3> QED
      BY <3>1, <3>2, <1>3, <1>11, CapacityAssumption DEF ListenCounted
  <2> QED
    <3>1. CallsCounted'
      BY <2>1, <2>2, <2>3, <1>5, <1>7, <1>8, <1>9 DEF CallsCounted, Acc
    <3>2. Connections' = Connections
      BY <1>6, <1>11 DEF Connections
    <3>3. \A u \in Connections : Birth(u)' = Birth(u)
      <4> TAKE u \in Connections
      <4>1. fut'[u] = fut[u]
        BY <3>2, <1>6 DEF Connections
      <4>2. One(Due(u))' = One(Due(u)) /\ Progress(u)' = Progress(u)
        BY <4>1, <1>5, SameTask
      <4> QED
        BY <4>2, <1>7 DEF Birth
    <3>4. StillListening = {}
      BY <2>1, <1>2 DEF StillListening
    <3>5. PollsCounted'
      BY <3>2, <3>3, <3>4, <1>7, <1>8, <1>10 DEF PollsCounted, Acc
    <3>6. CallsInPlace'
      BY <1>5, <1>6, SameTask DEF CallsInPlace, Acc
    <3> QED
      BY <3>1, <3>5, <3>6, <1>7, <1>8 DEF Acc, CleanBetween
<1>12. CASE fut[t].op # "accept"
  <2>1. Listening' = Listening /\ Spawned' = Spawned
    <3>1. t \notin Listening
      BY <1>12 DEF Listening
    <3>2. Listening' = Listening
      BY <3>1, <1>10
    <3>3. \A u \in Listening : fut'[u] = fut[u]
      BY <3>1, <1>6 DEF Listening
    <3> QED
      BY <3>2, <3>3 DEF Spawned
  <2>2. \A u \in Listening : ListenCounted(u)'
    <3> TAKE u \in Listening
    <3>1. ListenCounted(u) /\ fut'[u] = fut[u]
      BY <2>1, <1>6, <1>8, <1>12 DEF Acc, CallsCounted, Listening
    <3> QED
      BY <3>1, <1>7 DEF ListenCounted, Accepting
  <2>3. CallsCounted'
    BY <2>1, <2>2, <1>5, <1>7, <1>8, <1>9 DEF CallsCounted, Acc
  <2>4. CallsInPlace'
    BY <1>5, <1>6, SameTask DEF CallsInPlace, Acc
  <2>5. \A u \in DOMAIN fut' : Birth(u)' = Birth(u)
    <3> TAKE u \in DOMAIN fut'
    <3>1. fut'[u] = fut[u]
      BY <1>6
    <3>2. One(Due(u))' = One(Due(u)) /\ Progress(u)' = Progress(u)
      BY <3>1, <1>5, SameTask
    <3> QED
      BY <3>2, <1>7 DEF Birth
  <2>6. Connections' = Connections \ {t} /\ Connections' \subseteq DOMAIN fut'
    BY <1>6 DEF Connections
  <2>7. \A u \in StillListening' : ListenPolls(u)'
    <3> TAKE u \in StillListening'
    <3>1. ListenPolls(u) /\ fut'[u] = fut[u]
      BY <1>8, <1>10, <2>1, <1>6 DEF Acc, PollsCounted, StillListening, Listening
    <3>2. One(Due(u))' = One(Due(u)) /\ One(Accepting(u))' = One(Accepting(u))
      BY <3>1, <1>5, SameTask
    <3> QED
      BY <3>1, <3>2, <1>7 DEF ListenPolls
  <2>8. Birth(t) = Conns => Polls = Conns + 2
    <3>1. One(Due(t)) = 0 /\ Progress(t) = 2
      BY <1>2, <1>3, <1>12 DEF One, Due, Progress
    <3> QED
      BY <3>1, <1>7, CapacityAssumption DEF Birth
  <2>9. /\ \A u \in Connections : Birth(u) \in 1 .. Conns
        /\ StillListening = {} => \/ \E u \in Connections : Birth(u) = Conns
                                  \/ Polls = Conns + 2
    BY <1>8 DEF Acc, PollsCounted
  <2>10. StillListening' = {} => \/ \E u \in Connections' : Birth(u)' = Conns
                                 \/ Polls' = Conns + 2
    BY <2>5, <2>6, <2>8, <2>9, <1>7, <1>10
  <2>11. \A u \in Connections' : Birth(u)' \in 1 .. Conns
    BY <2>5, <2>6, <2>9
  <2> QED
    BY <2>3, <2>4, <2>7, <2>10, <2>11, <1>7, <1>8 DEF Acc, CleanBetween, PollsCounted
<1> QED
  BY <1>11, <1>12

-----------------------------------------------------------------------------
(* Steps outside the futures that make no call. *)
LEMMA QuietAcc ==
  ASSUME Inv, Acc, UNCHANGED <<fut, tasks, stats, runs>>, DOMAIN handles' = DOMAIN handles,
         Active' <=> Active, ParksAsleep',
         \A u \in DOMAIN fut : CallsFit(u)' /\ (Due(u)' <=> Due(u))
  PROVE  Acc'
<1>1. StatsTyped' /\ Spent' = Spent /\ Polls' = Polls
  BY SpentKept DEF Acc, Polls
<1>2. /\ Listening' = Listening /\ StillListening' = StillListening /\ Connections' = Connections
      /\ Unread' = Unread /\ Unwritten' = Unwritten
      /\ ReadBlocked' = ReadBlocked /\ WriteBlocked' = WriteBlocked
  BY DEF Listening, StillListening, Connections, Unread, Unwritten, ReadBlocked, WriteBlocked
<1>3. Spawned' = Spawned
  BY <1>2 DEF Spawned
<1>4. \A u : /\ ListenCounted(u)' <=> ListenCounted(u)
             /\ One(Accepting(u))' = One(Accepting(u)) /\ Progress(u)' = Progress(u)
  BY <1>1 DEF ListenCounted, Accepting, Progress
<1>5. CallsCounted'
  BY <1>1, <1>2, <1>3, <1>4 DEF CallsCounted, Acc
<1>6. \A u \in DOMAIN fut : One(Due(u))' = One(Due(u))
  BY DEF One
<1>7. /\ \A u \in Connections : Birth(u)' = Birth(u)
      /\ \A u \in StillListening : ListenPolls(u)' <=> ListenPolls(u)
  BY <1>1, <1>4, <1>6 DEF Birth, ListenPolls, Connections, StillListening, Listening
<1>8. PollsCounted'
  BY <1>1, <1>2, <1>7 DEF PollsCounted, Acc
<1>9. CallsInPlace'
  BY DEF CallsInPlace
<1> QED
  BY <1>1, <1>5, <1>8, <1>9 DEF Acc, CleanBetween

LEMMA ControlAcc ==
  ASSUME Inv, Inv', Acc, PickTask \/ NothingToPick \/ RunStart \/ UNCHANGED vars
  PROVE  Acc'
<1>0. UNCHANGED <<fut, tasks, stats, runs, regs, handles, polling>>
  BY DEF PickTask, NothingToPick, RunStart, vars, execVars, reactVars, E!Pick, E!NothingToPick,
    E!RunStart
<1>1. \A u \in DOMAIN fut : CallsFit(u)' /\ (Due(u)' <=> Due(u))
  BY <1>0 DEF Acc, CallsInPlace, CallsFit, Due
<1>2. (Active' <=> Active) /\ ParksAsleep'
  <2>1. CASE PickTask
    BY <2>1 DEF PickTask, E!Pick, Active, ParksAsleep
  <2>2. CASE NothingToPick
    <3>1. next = <<>> /\ pc = "pick" /\ pc' = "check" /\ UNCHANGED <<tasks, awake>>
      BY <2>2 DEF NothingToPick, E!NothingToPick
    <3>2. EP!ToSet(next) = awake
      BY DEF Inv, EP!Inv, EP!QueueIsAwake
    <3>3. awake = {}
      BY <3>1, <3>2 DEF EP!ToSet
    <3> QED
      BY <3>1, <3>3 DEF Active, ParksAsleep
  <2>3. CASE RunStart
    BY <2>3 DEF RunStart, E!RunStart, Active, ParksAsleep
  <2>4. CASE UNCHANGED vars
    BY <2>4 DEF vars, execVars, reactVars, Active, ParksAsleep, Acc
  <2> QED
    BY <2>1, <2>2, <2>3, <2>4
<1> QED
  BY <1>0, <1>1, <1>2, QuietAcc

(* What is left of the tasks, and of what they own, when the last is gone. *)
LEMMA NothingLeft ==
  ASSUME Inv, tasks = {}
  PROVE  /\ DOMAIN fut = {} /\ DOMAIN handles = {} /\ DOMAIN futures = {}
         /\ DOMAIN regs = {} /\ DOMAIN items = {} /\ awake = {}
<1>1. DOMAIN fut = {} /\ DOMAIN futures = {} /\ awake = {}
  BY ExecutorFacts DEF Inv, OwnInv, FutsAreTasks
<1>2. DOMAIN handles = {}
  BY <1>1 DEF Inv, OwnInv, OneOwner
<1>3. DOMAIN regs = {} /\ DOMAIN items = {}
  BY <1>2 DEF Inv, RP!Inv, RP!SlabsMatchHandles, RP!Open
<1> QED
  BY <1>1, <1>2, <1>3

(* run() returns or parks. *)
LEMMA RunCheckAcc ==
  ASSUME Inv, Inv', Acc, RunCheck
  PROVE  Acc'
<1>0. /\ pc = "check" /\ UNCHANGED <<fut, tasks, awake, stats, regs, handles, polling>>
      /\ pc' = IF tasks = {} THEN "idle" ELSE "park"
      /\ runs' = IF tasks = {} THEN runs + 1 ELSE runs
  BY DEF RunCheck, E!RunCheck, reactVars
<1>1. Active /\ awake = {}
  BY <1>0 DEF Active, Acc, ParksAsleep
<1>2. CASE tasks # {}
  <2>1. Active' /\ ParksAsleep'
    BY <1>0, <1>1, <1>2 DEF Active, ParksAsleep
  <2>2. \A u \in DOMAIN fut : CallsFit(u)' /\ (Due(u)' <=> Due(u))
    BY <1>0 DEF Acc, CallsInPlace, CallsFit, Due
  <2> QED
    BY <1>0, <1>1, <1>2, <2>1, <2>2, QuietAcc
<1>3. CASE tasks = {}
  <2>1. ~ Active' /\ runs' = runs + 1 /\ pc' = "idle" /\ DOMAIN fut = {} /\ DOMAIN handles = {}
    BY <1>0, <1>3, NothingLeft DEF Active
  <2>2. /\ Listening = {} /\ Unread = {} /\ Unwritten = {} /\ ReadBlocked = {}
        /\ WriteBlocked = {} /\ Connections = {} /\ StillListening = {} /\ Spawned = Conns
    BY <2>1 DEF Listening, Unread, Unwritten, ReadBlocked, WriteBlocked, Connections,
      StillListening, Spawned
  <2>3. Cardinality({}) = 0
    BY FS_EmptySet
  <2>4. /\ Spent["register"] = Conns + 1 /\ Spent["unregister"] = Conns + 1
        /\ Spent["poll"] = Conns + 2 /\ Spent["accept"] = 2 * Conns
        /\ Spent["read"] = 2 * Conns /\ Spent["write"] = 2 * Conns
    <3>1. /\ Spent["register"] = Conns + 1 /\ Spent["accept"] = 2 * Conns
          /\ Spent["unregister"] = Spent["register"] - Cardinality({})
          /\ Spent["read"] = 2 * (Conns - Cardinality({})) + Cardinality({})
          /\ Spent["write"] = 2 * (Conns - Cardinality({})) + Cardinality({})
      BY <1>1, <2>1, <2>2 DEF Acc, CallsCounted
    <3>2. Spent["poll"] = Conns + 2
      BY <1>1, <2>2 DEF Acc, PollsCounted, Polls
    <3> QED
      BY <3>1, <3>2, <2>3, CapacityAssumption
  <2>5. stats \in [StatsType -> Nat] /\ runs \in Nat /\ Conns \in Nat
    BY CapacityAssumption DEF Acc, StatsTyped
  <2>6. CallsSince(stats, Conns, runs + 1) = ZeroStats
    BY <2>4, <2>5, SinceAtEnd DEF Spent
  <2>7. Spent' = ZeroStats /\ StatsTyped'
    BY <2>1, <2>5, <2>6, <1>0 DEF Spent, StatsTyped
  <2>8. CallsInPlace' /\ ParksAsleep'
    BY <1>0, <2>1 DEF CallsInPlace, ParksAsleep
  <2> QED
    BY <2>1, <2>7, <2>8 DEF Acc, CallsCounted, PollsCounted, CleanBetween
<1> QED
  BY <1>2, <1>3

(* park() when everyone sleeps: each task made a call that blocked behind  *)
(* the last poll, so that this one is due for all of them.                 *)
LEMMA ParkPollAcc ==
  ASSUME Inv, Inv', Acc, ParkPoll
  PROVE  Acc'
<1>0. /\ pc = "park" /\ ~ polling /\ polling' /\ Inc("poll")
      /\ UNCHANGED <<fut, tasks, awake, cur, pc, regs, handles, runs>>
  BY DEF ParkPoll, R!PollBegin, R!ClientCode, execVars
<1>1. awake = {} /\ tasks # {} /\ Active /\ Active' /\ cur = None /\ DOMAIN fut = tasks
  BY <1>0, ExecutorFacts DEF Acc, ParksAsleep, Active, Inv, OwnInv, FutsAreTasks
<1>2. ASSUME NEW u \in DOMAIN fut
      PROVE  /\ fut[u].at = "bind" /\ fut[u].calls = 1 /\ fut[u] \in FutType
             /\ ~ Due(u) /\ Due(u)' /\ CallsFit(u)'
  <2>1. u # None
    BY <1>1, ExecutorFacts, SlotAssumption DEF Inv
  <2>2. Armed(u) /\ Shape(u) /\ CallsFit(u) /\ fut[u] \in FutType
    BY <2>1, <1>1 DEF Inv, OwnInv, OthersWait, Waits, FutsInShape, Acc, CallsInPlace,
      FutsAreTasks, IsSlab
  <2>3. /\ fut[u].at = "bind" /\ fut[u].io # None /\ ~ R!Reg(fut[u].io).ready
    BY <2>2 DEF Armed, Shape
  <2>4. fut[u].calls = 1
    BY <2>2, <2>3 DEF CallsFit
  <2>5. CallsFit(u)'
    BY <1>0, <2>2 DEF CallsFit
  <2> QED
    BY <1>0, <2>2, <2>3, <2>4, <2>5 DEF Due
<1>3. /\ StatsTyped' /\ Polls' = Polls + 1 /\ Polls \in Int
      /\ \A k \in StatsType : k # "poll" => Spent'[k] = Spent[k]
  <2>1. "poll" \in StatsType
    BY DEF StatsType
  <2> QED
    BY <2>1, <1>0, SpentCounted, SpentType DEF Acc, Polls
<1>4. /\ Listening' = Listening /\ StillListening' = StillListening /\ Connections' = Connections
      /\ Unread' = Unread /\ Unwritten' = Unwritten
      /\ ReadBlocked' = ReadBlocked /\ WriteBlocked' = WriteBlocked
  BY <1>0 DEF Listening, StillListening, Connections, Unread, Unwritten, ReadBlocked, WriteBlocked
<1>5. CallsCounted'
  <2>1. Spawned' = Spawned
    BY <1>0, <1>4 DEF Spawned
  <2>2. \A u : ListenCounted(u)' <=> ListenCounted(u)
    BY <1>0, <1>3 DEF ListenCounted, Accepting, StatsType
  <2> QED
    BY <2>1, <2>2, <1>0, <1>1, <1>3, <1>4 DEF CallsCounted, Acc, StatsType
<1>6. \A u \in DOMAIN fut : One(Due(u)) = 0 /\ One(Due(u))' = 1 /\ Progress(u)' = Progress(u)
                            /\ Progress(u) \in {0, 1}
  BY <1>0, <1>2 DEF One, Progress
<1>7. PollsCounted'
  <2>1. \A u \in Connections : /\ Birth(u)' = Birth(u) /\ Birth(u) \in 1 .. Conns
                               /\ Polls <= Birth(u) + 1
    <3> TAKE u \in Connections
    <3>1. Birth(u) \in 1 .. Conns /\ u \in DOMAIN fut
      BY <1>1 DEF Acc, PollsCounted, Connections
    <3>2. PICK s \in {0, 1} : s = Progress(u) /\ s = Progress(u)'
      BY <3>1, <1>6
    <3>3. Birth(u) = Polls - 0 - s /\ Birth(u)' = Polls' - 1 - s
      BY <3>1, <3>2, <1>6 DEF Birth
    <3> QED
      BY <3>1, <3>3, <1>3
  <2>2. \A u \in StillListening : ListenPolls(u)'
    <3> TAKE u \in StillListening
    <3>1. ListenPolls(u) /\ u \in DOMAIN fut
      BY <1>1 DEF Acc, PollsCounted, StillListening, Listening
    <3>2. One(Accepting(u))' = 0 /\ One(Accepting(u)) = 0
      BY <3>1, <1>0, <1>2 DEF One, Accepting
    <3>3. fut[u].left \in 0 .. Conns
      BY <3>1, <1>2 DEF FutType
    <3> QED
      BY <3>1, <3>2, <3>3, <1>0, <1>3, <1>6, CapacityAssumption DEF ListenPolls
  <2>3. StillListening = {} => \E u \in Connections : Birth(u) = Conns
    <3> HAVE StillListening = {}
    <3>1. PICK u \in DOMAIN fut : TRUE
      BY <1>1
    <3>2. u \in Connections
      BY <1>2 DEF Connections, StillListening, Listening
    <3>3. Polls # Conns + 2
      BY <3>2, <2>1, <1>3, CapacityAssumption
    <3> QED
      BY <3>3, <1>1 DEF Acc, PollsCounted
  <2> QED
    BY <2>1, <2>2, <2>3, <1>4 DEF PollsCounted
<1>8. CallsInPlace'
  BY <1>0, <1>2 DEF CallsInPlace
<1>9. ParksAsleep'
  BY <1>0, <1>1 DEF ParksAsleep
<1> QED
  BY <1>1, <1>3, <1>5, <1>7, <1>8, <1>9 DEF Acc, CleanBetween

LEMMA ParkEventAcc ==
  ASSUME Inv, Inv', Acc, ParkEvent
  PROVE  Acc'
<1>w. PICK w : w = R!Woken
  OBVIOUS
<1>0. /\ R!PollEvent /\ UNCHANGED <<fut, stats, runs>> /\ polling /\ polling'
      /\ IF w = None THEN UNCHANGED execVars ELSE E!Wake(w)
  BY <1>w DEF ParkEvent, R!PollEvent
<1>1. /\ pc = "park" /\ cur = None
  BY <1>0, ExecutorFacts DEF Inv, OwnInv, InStep
<1>2. /\ handles' = handles
      /\ \A g \in DOMAIN handles : R!Reg(g)'.ready \/ R!Reg(g)' = R!Reg(g)
  BY <1>0, PollEventEffect DEF Inv
<1>3. UNCHANGED <<tasks, pc>>
  <2>1. CASE w = None
    BY <1>0, <2>1 DEF execVars
  <2>2. CASE w # None
    BY <1>0, <1>1, <2>2 DEF E!Wake
  <2> QED
    BY <2>1, <2>2
<1>4. ASSUME NEW u \in DOMAIN fut
      PROVE  CallsFit(u)' /\ (Due(u)' <=> Due(u))
  <2>1. CallsFit(u) /\ \A h : Owns(u, h) => h \in DOMAIN handles
    BY DEF Acc, CallsInPlace, Inv, OwnInv, OneOwner
  <2>2. CallsFit(u)'
    BY <2>1, <1>0, <1>2 DEF CallsFit, Owns
  <2> QED
    BY <2>2, <1>0 DEF Due
<1>5. (Active' <=> Active) /\ ParksAsleep'
  BY <1>0, <1>1, <1>3 DEF Active, ParksAsleep, Acc
<1> QED
  BY <1>0, <1>2, <1>3, <1>4, <1>5, QuietAcc

(* When poll() returns, every object is ready: the call that was due is    *)
(* still due.                                                              *)
LEMMA ParkReturnAcc ==
  ASSUME Inv, Inv', Acc, ParkReturn
  PROVE  Acc'
<1>0. /\ polling /\ ~ polling' /\ events = <<>> /\ pc = "park" /\ pc' = "pick"
      /\ UNCHANGED <<fut, tasks, stats, runs, regs, handles>>
  BY DEF ParkReturn, R!PollEnd, E!ParkReturn
<1>1. \A h \in DOMAIN handles : R!Reg(h).ready
  <2> TAKE h \in DOMAIN handles
  <2>1. DOMAIN events = {}
    BY <1>0
  <2>2. RP!Reg(h) = [ready |-> TRUE, waker |-> None]
    BY <1>0, <2>1 DEF Inv, RP!Inv, RP!PollReachesAll, RP!EventToCome, RP!Open
  <2> QED
    BY <2>2 DEF RP!Reg
<1>2. ASSUME NEW u \in DOMAIN fut
      PROVE  CallsFit(u)' /\ (Due(u)' <=> Due(u))
  <2>1. CallsFit(u) /\ Shape(u) /\ \A h : Owns(u, h) => h \in DOMAIN handles
    BY DEF Acc, CallsInPlace, Inv, OwnInv, OneOwner, FutsInShape
  <2>2. CallsFit(u)'
    BY <2>1, <1>0 DEF CallsFit
  <2>3. fut[u].calls = 1 => R!Reg(fut[u].io).ready
    BY <2>1, <1>1 DEF CallsFit, Shape, Owns
  <2> QED
    BY <2>2, <2>3, <1>0 DEF Due
<1>3. (Active' <=> Active) /\ ParksAsleep'
  BY <1>0 DEF Active, ParksAsleep
<1> QED
  BY <1>0, <1>2, <1>3, QuietAcc

LEMMA InitAcc == Init => Acc
<1> SUFFICES ASSUME Init PROVE Acc
  OBVIOUS
<1>1. /\ stats = ZeroStats /\ runs = 0 /\ DOMAIN fut = {} /\ pc = "idle" /\ tasks = {}
      /\ Conns \in Nat
  BY CapacityAssumption DEF Init, E!Init
<1>2. Spent = ZeroStats
  BY <1>1, SinceStart DEF Spent
<1>3. StatsTyped
  BY <1>1 DEF StatsTyped, ZeroStats
<1> QED
  BY <1>1, <1>2, <1>3
  DEF Acc, CallsCounted, CallsInPlace, ParksAsleep, PollsCounted, CleanBetween, Active

LEMMA NextAcc == Inv /\ Inv' /\ Acc /\ [Next]_vars => Acc'
  BY ListenStartAcc, CallAcc, BindAcc, TryPendingAcc, TryOkAcc, WrapAcc, FinishAcc, SpawnAcc,
     CloseAcc, TaskDoneAcc, SpawnListenAcc, RunCheckAcc, ParkPollAcc, ParkEventAcc,
     ParkReturnAcc, ControlAcc
     DEF Next, Server, FutureStep, Terminated

-----------------------------------------------------------------------------
(* The closure is called no more often than the harness wants. *)
RunsBounded == runs \in 0 .. Runs /\ (Active => runs < Runs)

LEMMA RunsBoundedStep ==
  ASSUME Inv, RunsBounded, [Next]_vars
  PROVE  RunsBounded'
<1>0. runs \in 0 .. Runs /\ (Active => runs < Runs) /\ runs \in Nat /\ Runs \in Nat
  BY CapacityAssumption DEF RunsBounded
<1>1. CASE UNCHANGED vars
  BY <1>0, <1>1 DEF vars, execVars, RunsBounded, Active
<1>2. CASE SpawnListen
  BY <1>0, <1>2 DEF SpawnListen, RunsBounded
<1>3. CASE RunCheck
  BY <1>0, <1>3 DEF RunCheck, E!RunCheck, RunsBounded, Active
<1>4. CASE FutureStep
  <2>1. runs' = runs
    BY <1>4 DEF FutureStep, ListenStart, Call, Bind, TryPending, TryOk, Wrap, Finish, Spawn,
      Close, MakeObject
  <2>2. Active
    BY <1>4 DEF FutureStep, ListenStart, Call, Bind, TryPending, TryOk, Wrap, Finish, Spawn,
      Close, Running, Active
  <2> QED
    BY <1>0, <2>1, <2>2 DEF RunsBounded
<1>5. CASE PickTask \/ NothingToPick \/ TaskDone \/ RunStart \/ ParkPoll \/ ParkEvent \/ ParkReturn
  <2>1. runs' = runs
    BY <1>5 DEF PickTask, NothingToPick, TaskDone, RunStart, ParkPoll, ParkEvent, ParkReturn
  <2>2. polling => pc = "park"
    BY DEF Inv, OwnInv, InStep
  <2>3. Active
    BY <1>5, <2>2 DEF PickTask, E!Pick, NothingToPick, E!NothingToPick, TaskDone, E!TaskDone,
      RunStart, ParkPoll, ParkEvent, R!PollEvent, ParkReturn, E!ParkReturn, Active
  <2> QED
    BY <1>0, <2>1, <2>3 DEF RunsBounded
<1> QED
  BY <1>1, <1>2, <1>3, <1>4, <1>5 DEF Next, Server, Terminated

(* Together with the invariants it gives every variable its type. *)
LEMMA ServerTyped ==
  ASSUME Inv, Acc, RunsBounded
  PROVE  TypeOK
<1>1. E!TypeOK
  BY DEF Inv, EP!Inv, EP!TypeOK, E!TypeOK, EP!Flavors, E!Flavors, EP!Places, E!Places,
    EP!Panics, E!Panics
<1>2. R!TypeOK
  BY DEF Inv, RP!Inv, RP!TypeOK, R!TypeOK, RP!IsSlab, R!IsSlab, RP!Index, R!Index,
    RP!Cardinality, R!Cardinality, RP!Interests, R!Interests, RP!Interest, R!Interest,
    RP!READABLE, R!READABLE, RP!WRITABLE, R!WRITABLE, RP!Kinds, R!Kinds, RP!Ops, R!Ops
<1> QED
  BY <1>1, <1>2 DEF TypeOK, Inv, OwnInv, FutsAreTasks, FutType, Acc, StatsTyped, RunsBounded

-----------------------------------------------------------------------------
(***************************************************************************)
(* The servers and the abstract server of module Server: the counters it   *)
(* keeps follow from how far each future is.                               *)
(***************************************************************************)
Unserved == Reading \cup Writing

(* run() is entered right behind the spawn of the listen task. *)
IdleListens == pc = "idle" /\ tasks # {} => Listening # {}

LEMMA IdleListensStep ==
  ASSUME Inv, IdleListens, [Next]_vars
  PROVE  IdleListens'
<1>0. polling => pc = "park"
  BY DEF Inv, OwnInv, InStep
<1>1. CASE UNCHANGED vars
  BY <1>1 DEF vars, execVars, IdleListens, Listening
<1>2. CASE SpawnListen
  <2>1. PICK t \in TaskId : fut' = With(fut, t, Listen)
    BY <1>2 DEF SpawnListen
  <2>2. t \in Listening'
    BY <2>1 DEF Listening, With, Listen
  <2> QED
    BY <2>2 DEF IdleListens
<1>3. CASE RunCheck
  BY <1>3 DEF RunCheck, E!RunCheck, IdleListens
<1>4. CASE FutureStep
  <2>1. pc = "poll"
    BY <1>4 DEF FutureStep, ListenStart, Call, Bind, TryPending, TryOk, Wrap, Finish, Spawn,
      Close, Running
  <2>2. pc' # "idle"
    <3>1. CASE ListenStart \/ Call \/ TryOk \/ Wrap
      BY <2>1, <3>1 DEF ListenStart, Call, TryOk, Wrap, MakeObject, execVars, E!UserPanics
    <3>2. CASE Bind \/ Finish
      BY <2>1, <3>2 DEF Bind, Finish, execVars, E!CloneWaker, E!DropWaker
    <3>3. CASE TryPending \/ Close
      BY <3>3 DEF TryPending, Close, E!PollPending, E!PollReady
    <3>4. CASE Spawn
      BY <2>1, <3>4 DEF Spawn, E!Add, E!UserPanics
    <3> QED
      BY <1>4, <3>1, <3>2, <3>3, <3>4 DEF FutureStep
  <2> QED
    BY <2>2 DEF IdleListens
<1>5. CASE PickTask \/ NothingToPick \/ TaskDone \/ RunStart
  <2>1. pc' # "idle"
    BY <1>5 DEF PickTask, E!Pick, NothingToPick, E!NothingToPick, TaskDone, E!TaskDone,
      RunStart, E!RunStart
  <2> QED
    BY <2>1 DEF IdleListens
<1>6. CASE ParkPoll \/ ParkEvent \/ ParkReturn
  <2>1. pc' # "idle"
    BY <1>0, <1>6 DEF ParkPoll, execVars, ParkEvent, R!PollEvent, E!Wake, ParkReturn
  <2> QED
    BY <2>1 DEF IdleListens
<1> QED
  BY <1>1, <1>2, <1>3, <1>4, <1>5, <1>6 DEF Next, Server, Terminated

(* The counters are numbers. *)
LEMMA CounterTypes ==
  ASSUME Inv
  PROVE  /\ IsFiniteSet(Reading) /\ IsFiniteSet(Unserved)
         /\ Cardinality(Reading) \in Nat /\ Cardinality(Unserved) \in Nat
         /\ accepted \in 0 .. Conns
         /\ \A t \in Listening : Listening = {t} /\ accepted = Conns - fut[t].left
<1>0. IsSlab(fut, TaskId, FutType) /\ RoomForAll /\ Conns \in Nat
  BY CapacityAssumption DEF Inv, OwnInv, FutsAreTasks
<1>1. Reading \in SUBSET DOMAIN fut /\ Unserved \in SUBSET DOMAIN fut
  BY DEF Reading, Unserved, Writing
<1>2. /\ IsFiniteSet(Reading) /\ IsFiniteSet(Unserved)
      /\ Cardinality(Reading) \in Nat /\ Cardinality(Unserved) \in Nat
  BY <1>0, <1>1, FiniteTasks
<1>3. ASSUME NEW t \in Listening
      PROVE  Listening = {t} /\ accepted = Conns - fut[t].left /\ fut[t].left \in 0 .. Conns
  <2>1. Listening = {t}
    BY <1>0, OneListener
  <2>2. (CHOOSE u \in Listening : TRUE) = t
    BY <2>1
  <2>3. fut[t].left \in 0 .. Conns
    BY <1>0 DEF IsSlab, FutType, Listening
  <2> QED
    BY <2>1, <2>2, <2>3 DEF accepted
<1>4. accepted \in 0 .. Conns
  <2>1. CASE Listening = {}
    BY <1>0, <2>1 DEF accepted
  <2>2. CASE Listening # {}
    BY <1>0, <1>3, <2>2
  <2> QED
    BY <2>1, <2>2
<1> QED
  BY <1>2, <1>3, <1>4

(* No counter moves unless some future gets further. *)
LEMMA SameCounters ==
  ASSUME UNCHANGED <<accepted, Reading, Writing>>
  PROVE  UNCHANGED V!vars
  BY DEF V!vars

LEMMA QuietServer ==
  ASSUME fut' = fut,
         Listening = {} => ((pc' = "idle" /\ runs' = 0) <=> (pc = "idle" /\ runs = 0))
  PROVE  UNCHANGED V!vars
<1>1. UNCHANGED <<Listening, Reading, Writing>>
  BY DEF Listening, Reading, Writing
<1>2. UNCHANGED accepted
  BY <1>1 DEF accepted
<1> QED
  BY <1>1, <1>2, SameCounters

(* A step of the future of task t that leaves it on the same operation. *)
LEMMA PollServer ==
  ASSUME Inv, NEW t, t = cur, Running, pc' \in {"poll", "drop", "pick"},
         DOMAIN fut' = DOMAIN fut, \A u \in Others(t) : fut'[u] = fut[u],
         fut'[t].op = fut[t].op, fut'[t].left = fut[t].left,
         fut'[t].at \in {"close", "closed"} <=> fut[t].at \in {"close", "closed"}
  PROVE  UNCHANGED V!vars
<1>1. UNCHANGED <<Listening, Reading, Writing>>
  BY DEF Listening, Reading, Writing, Others
<1>2. UNCHANGED accepted
  <2>1. CASE Listening = {}
    BY <1>1, <2>1 DEF accepted, Running
  <2>2. CASE Listening # {}
    <3>1. PICK u : u = CHOOSE w \in Listening : TRUE
      OBVIOUS
    <3>2. u \in Listening /\ fut'[u].left = fut[u].left
      BY <2>2, <3>1 DEF Listening, Others
    <3> QED
      BY <1>1, <2>2, <3>1, <3>2 DEF accepted
  <2> QED
    BY <2>1, <2>2
<1> QED
  BY <1>1, <1>2, SameCounters

LEMMA SameOperation ==
  ASSUME Inv, Inv', ListenStart \/ Call \/ Bind \/ TryPending \/ TryOk \/ Wrap \/ Close
  PROVE  UNCHANGED V!vars
<1>t. PICK t : t = cur
  OBVIOUS
<1>0. Running /\ panic' = "none"
  BY DEF ListenStart, Call, Bind, TryPending, TryOk, Wrap, Close, Inv, OwnInv, NoPanic
<1>1. UnderPoll(t)
  BY <1>0, <1>t, PolledTask
<1>2. t \in DOMAIN fut /\ fut[t] \in FutType /\ fut[t].at # "closed"
  BY <1>1 DEF UnderPoll
<1> DEFINE Moved(p) ==
      /\ DOMAIN fut' = DOMAIN fut /\ \A u \in Others(t) : fut'[u] = fut[u]
      /\ fut'[t].op = fut[t].op /\ fut'[t].left = fut[t].left /\ fut'[t].at = p
      /\ pc' \in {"poll", "drop", "pick"}
<1>3. CASE ListenStart
  <2>1. fut[t].at = "start" /\ UNCHANGED execVars
        /\ fut' = [fut EXCEPT ![t]["io"] = NewHandle, ![t].at = "call"]
    BY <1>0, <1>3, <1>t DEF ListenStart, MakeObject, E!UserPanics, Self
  <2>2. Moved("call")
    BY <2>1, <1>0, <1>2 DEF FutType, Others, execVars, Running
  <2> QED
    BY <2>1, <2>2, <1>0, <1>t, PollServer
<1>4. CASE Call
  <2>1. fut[t].at = "call" /\ UNCHANGED execVars /\ fut' = [fut EXCEPT ![t].at = "bind"]
    BY <1>4, <1>t DEF Call, Goto, Self
  <2>2. Moved("bind")
    BY <2>1, <1>0, <1>2 DEF FutType, Others, execVars, Running
  <2> QED
    BY <2>1, <2>2, <1>0, <1>t, PollServer
<1>5. CASE Bind
  <2>1. fut[t].at = "bind" /\ fut' = [fut EXCEPT ![t].at = "try"] /\ pc' = pc
    BY <1>5, <1>t DEF Bind, Goto, Self, execVars, E!CloneWaker
  <2>2. Moved("try")
    BY <2>1, <1>0, <1>2 DEF FutType, Others, Running
  <2> QED
    BY <2>1, <2>2, <1>0, <1>t, PollServer
<1>6. CASE TryPending
  <2>1. /\ fut[t].at = "try" /\ pc' = "pick"
        /\ \/ fut' = [fut EXCEPT ![t].at = "bind"]
           \/ fut' = [fut EXCEPT ![t].at = "bind", ![t].calls = NextCall(@)]
    BY <1>6, <1>t DEF TryPending, Goto, Self, E!PollPending
  <2>2. Moved("bind")
    BY <2>1, <1>2 DEF FutType, Others
  <2> QED
    BY <2>1, <2>2, <1>0, <1>t, PollServer
<1>7. CASE TryOk
  <2>1. PICK p \in {"wrap", "finish"} :
          fut' = [fut EXCEPT ![t].at = p, ![t].calls = NextCall(@)]
    BY <1>7, <1>t DEF TryOk, Self
  <2>2. fut[t].at = "try" /\ pc' = pc
    BY <1>7, <1>t DEF TryOk, Self, execVars
  <2>3. Moved(p)
    BY <2>1, <2>2, <1>0, <1>2 DEF FutType, Others, Running
  <2> QED
    BY <2>1, <2>2, <2>3, <1>0, <1>t, PollServer
<1>8. CASE Wrap
  <2>1. fut[t].at = "wrap" /\ UNCHANGED execVars
        /\ fut' = [fut EXCEPT ![t]["stream"] = NewHandle, ![t].at = "finish"]
    BY <1>0, <1>8, <1>t DEF Wrap, MakeObject, E!UserPanics, Self
  <2>2. Moved("finish")
    BY <2>1, <1>0, <1>2 DEF FutType, Others, execVars, Running
  <2> QED
    BY <2>1, <2>2, <1>0, <1>t, PollServer
<1>9. CASE Close
  <2>1. /\ fut[t].at = "close" /\ pc' = "drop"
        /\ fut' = [fut EXCEPT ![t].at = "closed", ![t].io = None]
    BY <1>9, <1>t DEF Close, Self, E!PollReady
  <2>2. Moved("closed")
    BY <2>1, <1>2 DEF FutType, Others
  <2> QED
    BY <2>1, <2>2, <1>0, <1>t, PollServer
<1> QED
  BY <1>3, <1>4, <1>5, <1>6, <1>7, <1>8, <1>9

(* The request has been read, or the response written. *)
LEMMA FinishServer ==
  ASSUME Inv, Inv', Finish
  PROVE  [V!Next]_(V!vars)
<1>t. PICK t : t = cur
  OBVIOUS
<1>0. Running /\ fut[t].at = "finish" /\ pc' = "poll"
  BY <1>t DEF Finish, Self, Running, execVars, E!DropWaker
<1>1. t \in DOMAIN fut /\ fut[t] \in FutType
  BY <1>0, <1>t, PolledTask DEF UnderPoll
<1>v. PICK v : v = CASE fut[t].op = "accept" -> [fut[t] EXCEPT !.at = "spawn"]
                     [] fut[t].op = "read"   -> [fut[t] EXCEPT !.at = "call", !.op = "write"]
                     [] fut[t].op = "write"  -> [fut[t] EXCEPT !.at = "close"]
  OBVIOUS
<1>2. fut' = [fut EXCEPT ![t] = v]
  BY <1>t, <1>v DEF Finish
<1>3. DOMAIN fut' = DOMAIN fut /\ fut'[t] = v /\ \A u \in Others(t) : fut'[u] = fut[u]
  BY <1>1, <1>2 DEF Others
<1>4. CASE fut[t].op = "accept"
  <2>1. v.op = "accept" /\ v.left = fut[t].left /\ v.at = "spawn"
    BY <1>1, <1>v, <1>4 DEF FutType
  <2> QED
    BY <1>0, <1>3, <1>4, <1>t, <2>1, PollServer
<1>5. ASSUME fut[t].op # "accept", v.op # "accept"
      PROVE  UNCHANGED accepted
  <2>1. UNCHANGED Listening /\ t \notin Listening
    BY <1>3, <1>5 DEF Listening, Others
  <2>2. CASE Listening = {}
    BY <1>0, <2>1, <2>2 DEF accepted, Running
  <2>3. CASE Listening # {}
    <3>1. PICK u : u = CHOOSE w \in Listening : TRUE
      OBVIOUS
    <3>2. u \in Listening /\ fut'[u].left = fut[u].left
      BY <2>1, <2>3, <3>1, <1>3 DEF Listening, Others
    <3> QED
      BY <2>1, <2>3, <3>1, <3>2 DEF accepted
  <2> QED
    BY <2>2, <2>3
<1>6. PICK a \in Nat, r \in Nat, s \in Nat :
        a = accepted /\ r = Cardinality(Reading) /\ s = Cardinality(Unserved)
  BY CounterTypes, CapacityAssumption
<1>7. IsFiniteSet(Reading) /\ IsFiniteSet(Unserved)
  BY CounterTypes
<1>8. CASE fut[t].op = "read"
  <2>1. v.op = "write" /\ v.at = "call"
    BY <1>1, <1>v, <1>8 DEF FutType
  <2>2. t \in Reading /\ Reading' = Reading \ {t} /\ Unserved' = Unserved
    BY <1>1, <1>3, <1>8, <2>1 DEF Reading, Writing, Unserved, Others
  <2>3. /\ Cardinality(Reading)' = r - 1 /\ Cardinality(Unserved)' = s
        /\ accepted' = a
    BY <1>5, <1>6, <1>7, <1>8, <2>1, <2>2, JoinOrLeave
  <2>4. V!Receive
    <3>1. /\ Cardinality(Reading \cup Writing) = s /\ Cardinality(Reading' \cup Writing') = s
      BY <1>6, <2>3 DEF Unserved
    <3>2. r > 0
      BY <1>6, <1>7, <2>2, FS_EmptySet
    <3> QED
      BY <1>6, <2>3, <3>1, <3>2 DEF V!Receive
  <2> QED
    BY <2>4 DEF V!Next
<1>9. CASE fut[t].op = "write"
  <2>1. v.op = "write" /\ v.at = "close"
    BY <1>1, <1>v, <1>9 DEF FutType
  <2>2. /\ t \in Unserved /\ t \notin Reading
        /\ Reading' = Reading /\ Unserved' = Unserved \ {t}
    BY <1>0, <1>1, <1>3, <1>9, <2>1 DEF Reading, Writing, Unserved, Others
  <2>3. /\ Cardinality(Reading)' = r /\ Cardinality(Unserved)' = s - 1
        /\ accepted' = a
    BY <1>5, <1>6, <1>7, <1>9, <2>1, <2>2, JoinOrLeave
  <2>4. r < s
    <3>1. Reading \in SUBSET (Unserved \ {t}) /\ IsFiniteSet(Unserved \ {t})
      BY <1>7, <2>2, FS_RemoveElement DEF Unserved
    <3>2. Cardinality(Reading) <= Cardinality(Unserved \ {t})
      BY <3>1, FS_Subset
    <3>3. Cardinality(Unserved \ {t}) = s - 1
      BY <2>2, <2>3
    <3> QED
      BY <1>6, <3>2, <3>3
  <2>5. V!Respond
    <3>1. Cardinality(Reading \cup Writing) = s /\ Cardinality(Reading' \cup Writing') = s - 1
      BY <1>6, <2>3 DEF Unserved
    <3> QED
      BY <1>6, <2>3, <2>4, <3>1 DEF V!Respond
  <2> QED
    BY <2>5 DEF V!Next
<1> QED
  BY <1>1, <1>4, <1>8, <1>9 DEF FutType, Ops

(* A connection has been accepted once its task exists. *)
LEMMA SpawnServer ==
  ASSUME Inv, Inv', Spawn
  PROVE  V!Accept
<1>t. PICK t, s, p : /\ t = cur /\ s = fut[cur].stream
                     /\ p = IF fut[cur].left = 1 THEN "close" ELSE "call"
  OBVIOUS
<1>v. PICK v : v = [fut[t] EXCEPT !.stream = None, !.left = @ - 1, !.at = p]
  OBVIOUS
<1>1. UnderPoll(t) /\ fut[t].at = "spawn"
  BY <1>t, PolledTask DEF Spawn, Self
<1>2. /\ t \in DOMAIN fut /\ fut[t] \in FutType /\ fut[t].op = "accept"
      /\ fut[t].left \in 1 .. Conns /\ \A u \in Others(t) : fut[u].op # "accept"
  BY <1>1, CapacityAssumption DEF UnderPoll, Shape, HasRoom, FutType
<1>3. v.op = "accept" /\ v.left = fut[t].left - 1
  BY <1>2, <1>v DEF FutType
<1>4. PICK n \in TaskId \ DOMAIN fut : fut' = With([fut EXCEPT ![t] = v], n, Connection(s))
  <2>1. PICK n \in TaskId :
          /\ E!Add(n)
          /\ fut' = With([fut EXCEPT ![t].stream = None, ![t].left = @ - 1, ![t].at = p],
                         n, Connection(s))
    BY <1>t DEF Spawn, Self, E!UserPanics, Inv, OwnInv, NoPanic
  <2>2. [fut EXCEPT ![t].stream = None, ![t].left = @ - 1, ![t].at = p] = [fut EXCEPT ![t] = v]
    BY <1>2, <1>v DEF FutType
  <2>3. n \notin DOMAIN fut
    BY <2>1 DEF E!Add, Inv, OwnInv, FutsAreTasks
  <2> QED
    BY <2>1, <2>2, <2>3
<1>5. Connection(s).op = "read"
  BY DEF Connection
<1>6. /\ DOMAIN fut' = DOMAIN fut \cup {n} /\ n # t /\ fut'[t] = v /\ fut'[n] = Connection(s)
      /\ \A u \in Others(t) : u # n /\ fut'[u] = fut[u]
  BY <1>2, <1>4 DEF With, Others
<1>7. /\ Reading' = Reading \cup {n} /\ Writing' = Writing /\ n \notin Reading /\ n \notin Writing
  <2>1. \A u \in DOMAIN fut' : u = t \/ u = n \/ u \in Others(t)
    BY <1>6 DEF Others
  <2>2. \A u \in DOMAIN fut : u = t \/ u \in Others(t)
    BY DEF Others
  <2>3. Reading' = Reading \cup {n}
    BY <1>2, <1>3, <1>5, <1>6, <2>1, <2>2 DEF Reading, Others
  <2>4. Writing' = Writing
    BY <1>2, <1>3, <1>5, <1>6, <2>1, <2>2 DEF Writing, Others
  <2> QED
    BY <2>3, <2>4, <1>4 DEF Reading, Writing
<1>8. t \in Listening /\ t \in Listening'
  BY <1>2, <1>3, <1>6 DEF Listening
<1>9. accepted = Conns - fut[t].left /\ accepted' = Conns - fut[t].left + 1
  <2>1. accepted = Conns - fut[t].left
    BY <1>8, CounterTypes
  <2>2. Listening' = {t}
    BY <1>2, <1>5, <1>6, <1>8 DEF Listening, Others
  <2>3. (CHOOSE u \in Listening' : TRUE) = t
    BY <2>2
  <2>4. accepted' = Conns - fut'[t].left
    BY <2>2, <2>3 DEF accepted
  <2> QED
    BY <2>1, <2>4, <1>2, <1>3, <1>6, CapacityAssumption
<1>10. PICK r \in Nat, d \in Nat : r = Cardinality(Reading) /\ d = Cardinality(Unserved)
  BY CounterTypes
<1>11. Cardinality(Reading)' = r + 1 /\ Cardinality(Unserved)' = d + 1
  <2>1. Unserved' = Unserved \cup {n} /\ n \notin Unserved
    BY <1>7 DEF Unserved
  <2> QED
    BY <2>1, <1>7, <1>10, CounterTypes, JoinOrLeave
<1>12. PICK a \in Nat : a = accepted /\ a < Conns /\ accepted' = a + 1
  BY <1>2, <1>9, CapacityAssumption
<1>13. Cardinality(Reading \cup Writing) = d /\ Cardinality(Reading' \cup Writing') = d + 1
  BY <1>10, <1>11 DEF Unserved
<1> QED
  BY <1>10, <1>11, <1>12, <1>13 DEF V!Accept

(* A task that is gone has been served. *)
LEMMA TaskDoneServer ==
  ASSUME Inv, Inv', Acc, TaskDone
  PROVE  UNCHANGED V!vars
<1>t. PICK t : t = cur
  OBVIOUS
<1>0. E!TaskDone /\ fut' = Without(fut, t)
  BY <1>t DEF TaskDone
<1>1. pc = "drop" /\ t \in tasks /\ t \in DOMAIN fut /\ pc' = "pick"
  BY <1>0, <1>t, ExecutorFacts DEF E!TaskDone, Inv, OwnInv, FutsAreTasks, NoPanic
<1>2. fut[t].at = "closed" /\ CallsFit(t)
  BY <1>1, <1>t DEF Inv, OwnInv, InStep, Acc, CallsInPlace
<1>3. fut[t].op # "read" /\ (fut[t].op = "accept" => fut[t].left = 0)
  BY <1>2 DEF CallsFit
<1>4. /\ DOMAIN fut' = DOMAIN fut \ {t} /\ \A u \in DOMAIN fut' : fut'[u] = fut[u]
  BY <1>0 DEF Without
<1>5. UNCHANGED <<Reading, Writing>> /\ Listening' = Listening \ {t}
  BY <1>2, <1>3, <1>4 DEF Reading, Writing, Listening
<1>6. UNCHANGED accepted
  <2>1. CASE t \in Listening
    <3>1. Listening = {t} /\ accepted = Conns - fut[t].left
      BY <2>1, CounterTypes
    <3>2. accepted = Conns
      BY <2>1, <3>1, <1>3, CapacityAssumption DEF Listening
    <3>3. Listening' = {}
      BY <3>1, <1>5
    <3> QED
      BY <3>2, <3>3, <1>1 DEF accepted
  <2>2. CASE t \notin Listening /\ Listening = {}
    BY <2>2, <1>1, <1>5 DEF accepted
  <2>3. CASE t \notin Listening /\ Listening # {}
    <3>1. PICK u : u = CHOOSE w \in Listening : TRUE
      OBVIOUS
    <3>2. u \in Listening /\ fut'[u] = fut[u] /\ Listening' = Listening
      BY <2>3, <3>1, <1>4, <1>5 DEF Listening
    <3> QED
      BY <2>3, <3>1, <3>2 DEF accepted
  <2> QED
    BY <2>1, <2>2, <2>3
<1> QED
  BY <1>5, <1>6, SameCounters

(* The listen task starts the next run, behind one that has served all. *)
LEMMA SpawnListenServer ==
  ASSUME Inv, RunsBounded, SpawnListen
  PROVE  [V!Next]_(V!vars)
<1>1. PICK n \in TaskId : fut' = With(fut, n, Listen)
  BY DEF SpawnListen
<1>2. DOMAIN fut = {} /\ pc = "idle"
  BY DEF SpawnListen, Inv, OwnInv, FutsAreTasks
<1>3. Listen.op = "accept" /\ Listen.left = Conns
  BY DEF Listen
<1>4. DOMAIN fut' = {n} /\ fut'[n] = Listen
  BY <1>1, <1>2 DEF With
<1>5. /\ Listening = {} /\ Reading = {} /\ Writing = {}
      /\ Listening' = {n} /\ Reading' = {} /\ Writing' = {}
  BY <1>2, <1>3, <1>4 DEF Listening, Reading, Writing
<1>6. accepted' = 0
  <2>1. (CHOOSE u \in Listening' : TRUE) = n
    BY <1>5
  <2>2. accepted' = Conns - fut'[n].left
    BY <1>5, <2>1 DEF accepted
  <2> QED
    BY <2>2, <1>3, <1>4, CapacityAssumption
<1>7. accepted = IF runs = 0 THEN 0 ELSE Conns
  BY <1>2, <1>5 DEF accepted
<1>8. CASE runs = 0
  BY <1>5, <1>6, <1>7, <1>8, SameCounters
<1>9. CASE runs # 0
  <2>1. Reading \cup Writing = {} /\ Reading' \cup Writing' = {}
    BY <1>5
  <2>2. /\ Cardinality(Reading \cup Writing) = 0 /\ Cardinality(Reading') = 0
        /\ Cardinality(Reading' \cup Writing') = 0
    BY <1>5, <2>1, FS_EmptySet
  <2>3. V!Restart
    BY <1>6, <1>7, <1>9, <2>2, CapacityAssumption DEF V!Restart
  <2> QED
    BY <2>3 DEF V!Next
<1> QED
  BY <1>8, <1>9

(* The rest moves no future. *)
LEMMA ControlServer ==
  ASSUME Inv, RunsBounded, IdleListens,
         \/ PickTask \/ NothingToPick \/ RunStart \/ RunCheck
         \/ ParkPoll \/ ParkEvent \/ ParkReturn \/ UNCHANGED vars
  PROVE  UNCHANGED V!vars
<1>0. (polling => pc = "park") /\ DOMAIN fut = tasks
  BY DEF Inv, OwnInv, InStep, FutsAreTasks
<1>1. CASE RunStart
  <2>1. fut' = fut /\ Listening # {}
    BY <1>1 DEF RunStart, E!RunStart, IdleListens
  <2> QED
    BY <2>1, QuietServer
<1>2. CASE RunCheck
  <2>1. /\ fut' = fut /\ pc = "check" /\ pc' \in {"idle", "park"}
        /\ pc' = "idle" => runs' = runs + 1
    BY <1>2 DEF RunCheck, E!RunCheck
  <2>2. runs \in Nat
    BY CapacityAssumption DEF RunsBounded
  <2> QED
    BY <2>1, <2>2, QuietServer
<1>3. CASE PickTask \/ NothingToPick
  BY <1>3, QuietServer DEF PickTask, E!Pick, NothingToPick, E!NothingToPick
<1>4. CASE ParkPoll \/ ParkEvent \/ ParkReturn
  <2>1. fut' = fut /\ pc = "park" /\ pc' # "idle"
    BY <1>0, <1>4 DEF ParkPoll, execVars, ParkEvent, R!PollEvent, E!Wake, ParkReturn, E!ParkReturn
  <2> QED
    BY <2>1, QuietServer
<1>5. CASE UNCHANGED vars
  BY <1>5, QuietServer DEF vars, execVars
<1> QED
  BY <1>1, <1>2, <1>3, <1>4, <1>5

LEMMA InitServer == Init => V!Init
<1> SUFFICES ASSUME Init PROVE V!Init
  OBVIOUS
<1>1. DOMAIN fut = {} /\ pc = "idle" /\ runs = 0
  BY DEF Init, E!Init
<1>2. Listening = {} /\ Reading = {} /\ Reading \cup Writing = {}
  BY <1>1 DEF Listening, Reading, Writing
<1>3. Cardinality(Reading) = 0 /\ Cardinality(Reading \cup Writing) = 0
  BY <1>2, FS_EmptySet
<1> QED
  BY <1>1, <1>2, <1>3 DEF V!Init, accepted

LEMMA NextServer ==
  ASSUME Inv, Inv', Acc, RunsBounded, IdleListens, [Next]_vars
  PROVE  [V!Next]_(V!vars)
<1>1. V!Accept => V!Next
  BY DEF V!Next
<1> QED
  BY <1>1, SameOperation, FinishServer, SpawnServer, TaskDoneServer, SpawnListenServer,
     ControlServer
  DEF Next, Server, FutureStep, Terminated

-----------------------------------------------------------------------------
(***************************************************************************)
(* Theorems.                                                               *)
(***************************************************************************)

(* The inductive invariant holds in every behaviour of the servers. *)
THEOREM InvHolds == Spec => []Inv
  BY InitInv, NextInv, PTL DEF Spec

(* However many connections come in and however their tasks interleave, no *)
(* unwrap() of run.rs and no assertion of the executor fails: both slabs   *)
(* have room when one of their keys is asked for, and no waker outlives    *)
(* its task.                                                               *)
THEOREM NeverPanics == Spec => []NoPanic
<1>1. Inv => NoPanic
  BY DEF Inv, OwnInv
<1> QED
  BY <1>1, InvHolds, PTL

(* No task is forgotten: one that is neither queued nor running is bound   *)
(* to an object the reactor watches, and the next event there wakes it.    *)
THEOREM SleepersArmed == Spec => []SleepersAreArmed
<1>1. Inv => SleepersAreArmed
  <2> SUFFICES ASSUME Inv, NEW t \in tasks, t \notin awake, t # cur
               PROVE  /\ fut[t].at = "bind"
                      /\ t \in R!Live /\ futures[t].obj = fut[t].io
                      /\ futures[t].op = "pending"
                      /\ R!Reg(fut[t].io) = [ready |-> FALSE, waker |-> t]
    BY DEF SleepersAreArmed
  <2>1. Waits(t) /\ Shape(t)
    BY DEF Inv, OwnInv, FutsAreTasks, OthersWait, FutsInShape
  <2> QED
    BY <2>1 DEF Waits, Armed, Shape
<1> QED
  BY <1>1, InvHolds, PTL

(* The reference counts of the executor and the registrations of the       *)
(* reactor agree: each clone counted for a task is in one registration.    *)
THEOREM ClonesBound == Spec => []ClonesAreBound
  BY BoundOnce, InvHolds, PTL

(* Each open listener or stream belongs to exactly one future, also while  *)
(* a stream is on its way from accept() to its connection's task.          *)
THEOREM ObjectsOwned == Spec => []ObjectsAreOwned
<1>1. Inv => ObjectsAreOwned
  <2> SUFFICES ASSUME Inv PROVE ObjectsAreOwned
    OBVIOUS
  <2>1. ASSUME NEW h
        PROVE  h \in DOMAIN handles <=> \E t \in DOMAIN fut : Owns(t, h)
    BY DEF Inv, OwnInv, OneOwner
  <2>2. ASSUME NEW h
        PROVE  h \in (UNION { {fut[t].io, fut[t].stream} : t \in DOMAIN fut }) \ {None}
                 <=> \E t \in DOMAIN fut : Owns(t, h)
    BY DEF Owns
  <2>3. ASSUME NEW t \in DOMAIN fut, NEW u \in DOMAIN fut, t # u
        PROVE  {fut[t].io, fut[t].stream} \cap {fut[u].io, fut[u].stream} \subseteq {None}
    BY <2>3 DEF Inv, OwnInv, OneOwner, Owns
  <2> QED
    BY <2>1, <2>2, <2>3 DEF ObjectsAreOwned
<1> QED
  BY <1>1, InvHolds, PTL

(* The servers drive the executor only in ways that module Executor        *)
(* allows for, so that what ExecutorProofs shows holds inside them.        *)
THEOREM ImplementsExecutor == Spec => E!Safety
<1>1. Init => E!Init
  BY DEF Init
<1>2. Inv /\ [Next]_vars => [E!Next]_(E!vars)
  BY StepsOfExecutor, ExecutorNext, ExecutorFacts DEF Inv, E!vars, execVars
<1> QED
  BY <1>1, <1>2, InvHolds, PTL DEF Spec, E!Safety

(* Likewise the reactor, and ReactorProofs. *)
THEOREM ImplementsReactor == Spec => R!Spec
<1>1. Init => R!Init
  BY DEF Init
<1>2. Inv /\ [Next]_vars => [R!Next]_(R!vars)
  BY StepsOfReactor DEF R!vars, reactVars
<1> QED
  BY <1>1, <1>2, InvHolds, PTL DEF Spec, R!Spec

(* The account of the calls holds in every behaviour: which calls each     *)
(* task has made and how many polls have passed since it was spawned.      *)
THEOREM AccHolds == Spec => [](Inv /\ Acc)
  BY InitInv, NextInv, InitAcc, NextAcc, PTL DEF Spec

(* However the tasks interleave, a run makes exactly the calls that        *)
(* EXPECTED_STATS lists, one poll per connection and two more, and leaves  *)
(* nothing behind in executor or reactor.                                  *)
THEOREM RunsExact == Spec => []RunsAreClean
<1>1. Inv /\ Acc => RunsAreClean
  <2> SUFFICES ASSUME Inv, Acc, pc = "idle", tasks = {}
               PROVE  /\ stats = ExpectedStats(Conns, runs)
                      /\ regs = <<>> /\ items = <<>> /\ futures = <<>> /\ fut = <<>>
                      /\ next = <<>>
    BY DEF RunsAreClean
  <2>1. stats = ExpectedStats(Conns, runs)
    <3>1. Spent = ZeroStats /\ stats \in [StatsType -> Nat] /\ runs \in Nat /\ Conns \in Nat
      BY CapacityAssumption DEF Acc, CleanBetween, Active, StatsTyped
    <3> QED
      BY <3>1, SinceZero DEF Spent
  <2>2. /\ DOMAIN fut = {} /\ DOMAIN futures = {} /\ DOMAIN regs = {} /\ DOMAIN items = {}
        /\ awake = {}
    BY NothingLeft
  <2>3. ASSUME NEW f, NEW D, NEW R0, IsSlab(f, D, R0), DOMAIN f = {}
        PROVE  f = <<>>
    BY <2>3 DEF IsSlab
  <2>4. fut = <<>>
    BY <2>2, <2>3 DEF Inv, OwnInv, FutsAreTasks
  <2>5. futures = <<>>
    BY <2>2, <2>3, ReactorFacts DEF Inv
  <2>6. regs = <<>>
    BY <2>2 DEF Inv, RP!Inv, RP!TypeOK, RP!IsSlab
  <2>7. items = <<>>
    BY <2>2 DEF Inv, RP!Inv, RP!TypeOK, RP!IsSlab
  <2>8. next = <<>>
    <3>1. next \in Seq(TaskId) /\ EP!ToSet(next) = {}
      BY <2>2 DEF Inv, EP!Inv, EP!TypeOK, EP!QueueIsAwake
    <3>2. next # <<>> => Head(next) \in ToSet(next)
      BY <3>1, HeadInQueue
    <3> QED
      BY <3>1, <3>2 DEF ToSet, EP!ToSet
  <2> QED
    BY <2>1, <2>4, <2>5, <2>6, <2>7, <2>8
<1> QED
  BY <1>1, AccHolds, PTL

(* Every variable keeps its type, and the counters of the statistics too. *)
THEOREM TypeCorrect == Spec => []TypeOK
<1>1. Init => RunsBounded
  BY CapacityAssumption DEF Init, E!Init, RunsBounded, Active
<1>2. Inv /\ Acc /\ RunsBounded => TypeOK
  BY ServerTyped
<1>3. Inv /\ RunsBounded /\ [Next]_vars => RunsBounded'
  BY RunsBoundedStep
<1> QED
  BY <1>1, <1>2, <1>3, AccHolds, PTL DEF Spec

(* Step by step the tasks together do what the abstract server does: no    *)
(* connection answers before its request was read, and no run starts with  *)
(* a connection of the last one unserved.                                  *)
THEOREM ServesLikeServer == Spec => V!Safety
<1>1. Init => V!Init
  BY InitServer
<1>2. Init => RunsBounded /\ IdleListens
  BY CapacityAssumption DEF Init, E!Init, RunsBounded, Active, IdleListens
<1>3. Inv /\ RunsBounded /\ IdleListens /\ [Next]_vars => RunsBounded' /\ IdleListens'
  BY RunsBoundedStep, IdleListensStep
<1>4. Inv /\ Inv' /\ Acc /\ RunsBounded /\ IdleListens /\ [Next]_vars => [V!Next]_V!vars
  BY NextServer
<1> QED
  BY <1>1, <1>2, <1>3, <1>4, AccHolds, PTL DEF Spec, V!Safety

-----------------------------------------------------------------------------
(***************************************************************************)
(* Teardown: what holds once the run_* function has returned or panicked.  *)
(***************************************************************************)

(* While the objects are being dropped, each still has one owner and its   *)
(* own key and index.  A registration that register() did not finish has   *)
(* no handle, and no waker either; an item that unregister() did not take  *)
(* out has no handle.                                                      *)
OwnersOnly ==
  /\ \A t \in DOMAIN fut : \A h : Owns(t, h) => h \in DOMAIN handles
  /\ \A h \in DOMAIN handles : \E t \in DOMAIN fut : Owns(t, h)
  /\ \A t, u \in DOMAIN fut : \A h : Owns(t, h) /\ Owns(u, h) => t = u
  /\ \A h \in DOMAIN handles : handles[h].key \in DOMAIN regs
  /\ \A g, h \in DOMAIN handles :
       g # h => handles[g].key # handles[h].key /\ handles[g].index # handles[h].index
  /\ \A k \in DOMAIN regs :
       regs[k].waker # None => \E h \in DOMAIN handles : k = handles[h].key
  /\ fault # "unregister" =>
       \A i \in DOMAIN items : \E h \in DOMAIN handles : i = handles[h].index

(* Both sides of a waker agree on its count, until one of them is freed. *)
CountsAgree ==
  ~ wild => E!RefsCountClones /\ E!WakersHaveTasks /\ ClonesAreBound

(* The fault hit outside the listen task, which has more to accept. *)
HitsOthers ==
  /\ fault \notin {"register", "accept"}
  /\ stats["accept"] < 2 * Conns * (runs + 1)

(* Then, and only then, the listen task is there behind the fault; and the *)
(* futures are there behind the executor if it held them together.         *)
ListenLeft ==
  /\ stage = "unwind" => (Listening \ {cur} # {} <=> HitsOthers)
  /\ stage = "executor" /\ panic # "none" => (Listening # {} <=> HitsOthers)
  /\ stage \in {"reactor", "stats", "over"} /\ panic # "none" /\ flavor # "arg" =>
       (fut # <<>> <=> flavor = "boxrc" /\ HitsOthers)
  /\ stage \in {"unwind", "executor", "reactor", "stats"} /\ panic # "none" => pipe = "open"
  /\ stage = "over" /\ panic # "none" => (pipe = "open" <=> HeldByFutures)

(* A function that returns leaves nothing behind, from that moment on. *)
NothingBehind ==
  panic = "none" /\ stage # "live" =>
    /\ regs = <<>> /\ items = <<>> /\ fut = <<>>
    /\ ~ failed
    /\ stage = "over" => pipe # "open"

(* What each stage finds: the state of a server at first, and then what    *)
(* the drops before it have left.                                          *)
StageFits ==
  /\ stage = "live" => Inv /\ Acc /\ RunsBounded /\ fault = "none"
  /\ stage # "live" => TypeOK /\ CountsAgree
  /\ stage \in {"unwind", "executor", "reactor"} => OwnersOnly
  /\ stage = "unwind" => panic # "none" /\ (cur # None => cur \in DOMAIN fut)
  /\ stage \in {"live", "unwind", "executor", "reactor"} => ~ wild /\ ~ failed
  /\ panic # "refs"

TearVarsTyped ==
  /\ stage \in Stages
  /\ fault \in StatsType \cup {"none"}
  /\ pipe \in {"none", "open", "closed"}
  /\ freed \in BOOLEAN /\ wild \in BOOLEAN /\ failed \in BOOLEAN

(* The inductive invariant of the teardown. *)
TearInv ==
  /\ TearVarsTyped
  /\ StageFits
  /\ ListenLeft
  /\ NothingBehind
  /\ NoUseAfterFree
  /\ AssertionFailsOnlyAfter

(* What the invariant of the servers says of the state a teardown starts   *)
(* from.                                                                   *)
LEMMA ServerCounts ==
  ASSUME Inv
  PROVE  E!RefsCountClones /\ E!WakersHaveTasks /\ ClonesAreBound
  BY BoundOnce DEF Inv, EP!Inv, EP!RefsCountClones, E!RefsCountClones, EP!WakersHaveTasks,
     E!WakersHaveTasks, EP!VacantRefs, E!VacantRefs, EP!Embedded, E!Embedded

LEMMA ServerObjects ==
  ASSUME Inv
  PROVE  OwnersOnly
<1>1. /\ DOMAIN regs = {handles[h].key : h \in DOMAIN handles}
      /\ DOMAIN items = {handles[h].index : h \in DOMAIN handles}
      /\ \A g, h \in DOMAIN handles :
           g # h => handles[g].key # handles[h].key /\ handles[g].index # handles[h].index
  BY DEF Inv, RP!Inv, RP!SlabsMatchHandles, RP!Open
<1> QED
  BY <1>1 DEF OwnersOnly, Inv, OwnInv, OneOwner

-----------------------------------------------------------------------------
(* Dropping the wakers of K together with the registrations that hold them *)
(* exhausts no count, and keeps the counts on both sides equal.            *)
LEMMA DropWakersCounts ==
  ASSUME TypeOK, E!RefsCountClones, E!WakersHaveTasks, ClonesAreBound,
         NEW K \in SUBSET DOMAIN regs, DropWakers(K), UNCHANGED <<flavor, tasks>>,
         DOMAIN regs' = DOMAIN regs \ K, \A k \in DOMAIN regs' : regs'[k] = regs[k]
  PROVE  /\ refs' \in [TaskId -> 0 .. Conns + 2]
         /\ clones' \in [TaskId -> 0 .. Conns + 1]
         /\ UNCHANGED panic
         /\ E!RefsCountClones' /\ E!WakersHaveTasks' /\ ClonesAreBound'
<1>0. /\ refs \in [TaskId -> 0 .. Conns + 2] /\ clones \in [TaskId -> 0 .. Conns + 1]
      /\ IsFiniteSet(DOMAIN regs) /\ Conns \in Nat
  <2>1. refs \in [TaskId -> 0 .. Conns + 1 + 1] /\ clones \in [TaskId -> 0 .. Conns + 1]
    BY DEF TypeOK, E!TypeOK
  <2>2. DOMAIN regs \subseteq Key
    BY DEF TypeOK, R!TypeOK, R!IsSlab
  <2> QED
    BY <2>1, <2>2, CapacityAssumption, SlotAssumption, FS_Subset
<1>1. ASSUME NEW t \in TaskId
      PROVE  /\ Bound(K, t) \in Nat /\ clones[t] \in Nat /\ Bound(K, t) <= clones[t]
             /\ clones[t] - Bound(K, t)
                  = Cardinality({k \in DOMAIN regs' : regs'[k].waker = t})
  <2> DEFINE A == {k \in DOMAIN regs : regs[k].waker = t}
             B == {k \in K : regs[k].waker = t}
             C == {k \in DOMAIN regs' : regs'[k].waker = t}
  <2>1. C = A \ B /\ A \cap B = B /\ B \in SUBSET A
    OBVIOUS
  <2>2. IsFiniteSet(A)
    <3>1. A \in SUBSET DOMAIN regs
      OBVIOUS
    <3> QED
      BY <3>1, <1>0, FS_Subset
  <2> HIDE DEF A, B, C
  <2>3. /\ IsFiniteSet(B) /\ Cardinality(B) <= Cardinality(A)
        /\ Cardinality(A) \in Nat /\ Cardinality(B) \in Nat
    BY <2>1, <2>2, FS_Subset, FS_CardinalityType
  <2>4. Cardinality(A \ B) = Cardinality(A) - Cardinality(A \cap B)
    BY <2>2, FS_Difference
  <2>5. clones[t] = Cardinality(A)
    BY DEF ClonesAreBound, A
  <2>6. Bound(K, t) = Cardinality(B)
    BY DEF Bound, B
  <2>7. clones[t] - Bound(K, t) = Cardinality(C)
    BY <2>1, <2>3, <2>4, <2>5, <2>6
  <2> QED
    BY <2>3, <2>5, <2>6, <2>7 DEF C
<1>2. ASSUME NEW t \in TaskId
      PROVE  refs[t] = IF t \in tasks THEN clones[t] + 1 ELSE E!VacantRefs
  BY DEF E!RefsCountClones
<1>3. ASSUME NEW t \in TaskId, t \notin tasks
      PROVE  clones[t] = 0 /\ Bound(K, t) = 0
  <2>1. ~ (clones[t] > 0)
    BY <1>3 DEF E!WakersHaveTasks
  <2>2. PICK b \in Nat, c \in Nat : b = Bound(K, t) /\ c = clones[t] /\ b <= c
    BY <1>1
  <2> QED
    BY <2>1, <2>2
<1>a. \A t \in TaskId : Bound(K, t) > 0 => refs[t] > Bound(K, t)
  <2> SUFFICES ASSUME NEW t \in TaskId, Bound(K, t) > 0 PROVE refs[t] > Bound(K, t)
    OBVIOUS
  <2>1. PICK b \in Nat, c \in Nat : b = Bound(K, t) /\ c = clones[t] /\ b <= c
    BY <1>1
  <2>2. t \in tasks
    BY <1>3, <2>1
  <2>3. refs[t] = c + 1
    BY <1>2, <2>1, <2>2
  <2> QED
    BY <2>1, <2>3
<1>b. /\ refs' = [t \in TaskId |-> refs[t] - Bound(K, t)]
      /\ clones' = [t \in TaskId |-> clones[t] - Bound(K, t)]
      /\ UNCHANGED panic
  BY <1>a DEF DropWakers
<1>4. E!VacantRefs' = E!VacantRefs /\ E!VacantRefs \in 0 .. 1
  BY DEF E!VacantRefs, E!Embedded
<1>5. ASSUME NEW t \in TaskId
      PROVE  /\ clones'[t] \in 0 .. Conns + 1 /\ clones'[t] <= clones[t]
             /\ refs'[t] \in 0 .. Conns + 2
             /\ refs'[t] = IF t \in tasks THEN clones'[t] + 1 ELSE E!VacantRefs
  <2>1. clones[t] \in 0 .. Conns + 1 /\ refs[t] \in 0 .. Conns + 2
    BY <1>0
  <2>2. PICK b \in Nat : b = Bound(K, t)
    BY <1>1
  <2>3. b <= clones[t] /\ refs'[t] = refs[t] - b /\ clones'[t] = clones[t] - b
    BY <2>2, <1>1, <1>b
  <2>4. t \notin tasks => b = 0
    BY <2>2, <1>3
  <2> QED
    BY <2>1, <2>3, <2>4, <1>0, <1>2, <1>4
<1>6. /\ DOMAIN refs' = TaskId /\ refs' = [t \in TaskId |-> refs'[t]]
      /\ DOMAIN clones' = TaskId /\ clones' = [t \in TaskId |-> clones'[t]]
  BY <1>b
<1>7. refs' \in [TaskId -> 0 .. Conns + 2] /\ clones' \in [TaskId -> 0 .. Conns + 1]
  BY <1>5, <1>6
<1>8. E!RefsCountClones'
  BY <1>4, <1>5 DEF E!RefsCountClones
<1>9. E!WakersHaveTasks'
  BY <1>0, <1>5, <1>7 DEF E!WakersHaveTasks
<1>10. ClonesAreBound'
  BY <1>1, <1>b DEF ClonesAreBound
<1> QED
  BY <1>b, <1>7, <1>8, <1>9, <1>10

(* The typing facts as the lemmas on slabs need them. *)
LEMMA SlabsTyped ==
  ASSUME TypeOK
  PROVE  /\ IsSlab(regs, Key, [ready : BOOLEAN, waker : TaskId \cup {None}])
         /\ IsSlab(items, R!Index, R!Interests \X Key)
         /\ IsSlab(handles, Handle, [kind : R!Kinds, key : Key, index : R!Index,
                                     last : TaskId \cup {None}])
         /\ IsSlab(futures, TaskId, [obj : Handle, op : R!Ops, by : TaskId \cup {None}])
         /\ IsSlab(fut, TaskId, FutType)
  BY DEF TypeOK, R!TypeOK, IsSlab, R!IsSlab, FutType

(* Dropping the futures of the tasks T with all they own leaves a state of *)
(* the same kind, with those of the others.                                *)
LEMMA DropFuturesKeeps ==
  ASSUME TypeOK, OwnersOnly, E!RefsCountClones, E!WakersHaveTasks, ClonesAreBound,
         NEW T \in SUBSET DOMAIN fut, DropFutures(T),
         UNCHANGED <<flavor, tasks, awake, next, cur, pc, events, polling, runs, fault>>
  PROVE  /\ TypeOK' /\ OwnersOnly'
         /\ UNCHANGED panic /\ stats'["accept"] = stats["accept"]
         /\ E!RefsCountClones' /\ E!WakersHaveTasks' /\ ClonesAreBound'
         /\ DOMAIN fut' = DOMAIN fut \ T
         /\ \A t \in DOMAIN fut' : fut'[t] = fut[t]
         /\ DOMAIN regs' \subseteq DOMAIN regs /\ DOMAIN items' \subseteq DOMAIN items
<1> DEFINE H == (UNION {{fut[t].io, fut[t].stream} : t \in T}) \ {None}
           K == {handles[h].key : h \in H}
           I == {handles[h].index : h \in H}
<1>1. /\ DropWakers(K)
      /\ regs' = Restrict(regs, DOMAIN regs \ K)
      /\ items' = Restrict(items, DOMAIN items \ I)
      /\ handles' = Restrict(handles, DOMAIN handles \ H)
      /\ futures' = Restrict(futures, DOMAIN futures \ T)
      /\ fut' = Restrict(fut, DOMAIN fut \ T)
      /\ stats' = [stats EXCEPT !["unregister"] = @ + Cardinality(H)]
  BY DEF DropFutures
<1>2. \A h : h \in H <=> \E t \in T : Owns(t, h)
  BY DEF Owns
<1>3. /\ \A k : k \in K <=> \E h \in H : k = handles[h].key
      /\ \A i : i \in I <=> \E h \in H : i = handles[h].index
  OBVIOUS
<1> HIDE DEF H, K, I
<1>4. H \subseteq DOMAIN handles /\ K \in SUBSET DOMAIN regs
  BY <1>2, <1>3 DEF OwnersOnly
<1>5. /\ IsSlab(regs, Key, [ready : BOOLEAN, waker : TaskId \cup {None}])
      /\ IsSlab(items, R!Index, R!Interests \X Key)
      /\ IsSlab(handles, Handle, [kind : R!Kinds, key : Key, index : R!Index,
                                  last : TaskId \cup {None}])
      /\ IsSlab(futures, TaskId, [obj : Handle, op : R!Ops, by : TaskId \cup {None}])
      /\ IsSlab(fut, TaskId, FutType)
  BY SlabsTyped
<1>6. /\ DOMAIN regs' = DOMAIN regs \ K /\ \A k \in DOMAIN regs' : regs'[k] = regs[k]
      /\ IsSlab(regs', Key, [ready : BOOLEAN, waker : TaskId \cup {None}])
  BY <1>1, <1>5, RestrictSlab
<1>7. /\ DOMAIN items' = DOMAIN items \ I
      /\ IsSlab(items', R!Index, R!Interests \X Key)
  BY <1>1, <1>5, RestrictSlab
<1>8. /\ DOMAIN handles' = DOMAIN handles \ H
      /\ \A h \in DOMAIN handles' : handles'[h] = handles[h]
      /\ IsSlab(handles', Handle, [kind : R!Kinds, key : Key, index : R!Index,
                                   last : TaskId \cup {None}])
  BY <1>1, <1>5, RestrictSlab
<1>9. IsSlab(futures', TaskId, [obj : Handle, op : R!Ops, by : TaskId \cup {None}])
  BY <1>1, <1>5, RestrictSlab
<1>10. /\ DOMAIN fut' = DOMAIN fut \ T /\ \A t \in DOMAIN fut' : fut'[t] = fut[t]
       /\ IsSlab(fut', TaskId, FutType)
  BY <1>1, <1>5, RestrictSlab
<1>11. stats' \in [StatsType -> Nat]
  <2>1. IsFiniteSet(H)
    <3>1. H \in SUBSET Handle /\ IsFiniteSet(Handle)
      <4>1. DOMAIN handles \subseteq Handle
        BY <1>5 DEF IsSlab
      <4>2. IsFiniteSet(Handle)
        BY CapacityAssumption, FS_Interval DEF Handle
      <4> QED
        BY <4>1, <4>2, <1>4
    <3> QED
      BY <3>1, FS_Subset
  <2>2. Cardinality(H) \in Nat
    BY <2>1, FS_CardinalityType
  <2>3. stats \in [StatsType -> Nat]
    BY DEF TypeOK
  <2> QED
    BY <1>1, <2>2, <2>3 DEF StatsType
<1>15. stats'["accept"] = stats["accept"]
  <2>1. stats \in [StatsType -> Nat]
    BY DEF TypeOK
  <2> QED
    BY <1>1, <2>1 DEF StatsType
<1>12. /\ refs' \in [TaskId -> 0 .. Conns + 2]
       /\ clones' \in [TaskId -> 0 .. Conns + 1]
       /\ UNCHANGED panic
       /\ E!RefsCountClones' /\ E!WakersHaveTasks' /\ ClonesAreBound'
  BY <1>1, <1>4, <1>6, DropWakersCounts
<1>13. TypeOK'
  <2>1. E!TypeOK'
    <3>1. Conns + 1 + 1 = Conns + 2
      BY CapacityAssumption
    <3> QED
      BY <3>1, <1>12 DEF TypeOK, E!TypeOK
  <2>2. R!TypeOK'
    <3>1. R!IsSlab(events, R!Index, Key \X R!Interests)' /\ polling' \in BOOLEAN
      BY DEF TypeOK, R!TypeOK, R!IsSlab
    <3> QED
      BY <3>1, <1>6, <1>7, <1>8, <1>9 DEF R!TypeOK, IsSlab, R!IsSlab
  <2> QED
    BY <2>1, <2>2, <1>10, <1>11 DEF TypeOK, FutType
<1>14. OwnersOnly'
  <2>1. ASSUME NEW t \in DOMAIN fut', NEW h PROVE Owns(t, h)' <=> Owns(t, h)
    BY <1>10 DEF Owns
  <2>2. ASSUME NEW t \in DOMAIN fut', NEW h, Owns(t, h)' PROVE h \in DOMAIN handles'
    BY <2>1, <2>2, <1>2, <1>8, <1>10 DEF OwnersOnly
  <2>3. ASSUME NEW h \in DOMAIN handles' PROVE \E t \in DOMAIN fut' : Owns(t, h)'
    <3>1. PICK t \in DOMAIN fut : Owns(t, h)
      BY <1>8 DEF OwnersOnly
    <3>2. t \in DOMAIN fut'
      BY <3>1, <1>2, <1>8, <1>10
    <3> QED
      BY <3>1, <3>2, <2>1
  <2>4. ASSUME NEW t \in DOMAIN fut', NEW u \in DOMAIN fut', NEW h, Owns(t, h)', Owns(u, h)'
        PROVE  t = u
    BY <2>1, <2>4, <1>10 DEF OwnersOnly
  <2>5. ASSUME NEW h \in DOMAIN handles' PROVE handles'[h].key \in DOMAIN regs'
    <3>1. h \in DOMAIN handles /\ h \notin H /\ handles'[h] = handles[h]
      BY <1>8
    <3>2. handles[h].key \in DOMAIN regs /\ handles[h].key \notin K
      BY <3>1, <1>3, <1>4 DEF OwnersOnly
    <3> QED
      BY <3>1, <3>2, <1>6
  <2>6. ASSUME NEW g \in DOMAIN handles', NEW h \in DOMAIN handles', g # h
        PROVE  handles'[g].key # handles'[h].key /\ handles'[g].index # handles'[h].index
    BY <2>6, <1>8 DEF OwnersOnly
  <2>7. ASSUME NEW k \in DOMAIN regs', regs'[k].waker # None
        PROVE  \E h \in DOMAIN handles' : k = handles'[h].key
    <3>1. k \in DOMAIN regs /\ k \notin K /\ regs[k].waker # None
      BY <2>7, <1>6
    <3>2. PICK h \in DOMAIN handles : k = handles[h].key
      BY <3>1 DEF OwnersOnly
    <3> QED
      BY <3>1, <3>2, <1>3, <1>8
  <2>8. ASSUME fault' # "unregister", NEW i \in DOMAIN items'
        PROVE  \E h \in DOMAIN handles' : i = handles'[h].index
    <3>1. i \in DOMAIN items /\ i \notin I
      BY <1>7
    <3>2. PICK h \in DOMAIN handles : i = handles[h].index
      BY <2>8, <3>1 DEF OwnersOnly
    <3> QED
      BY <3>1, <3>2, <1>3, <1>8
  <2> QED
    BY <2>2, <2>3, <2>4, <2>5, <2>6, <2>7, <2>8 DEF OwnersOnly
<1> QED
  BY <1>6, <1>7, <1>10, <1>12, <1>13, <1>14, <1>15

-----------------------------------------------------------------------------
(* An assertion in a counted call fails.  What the call has done already   *)
(* moves no waker.                                                         *)
LEMMA SameWakers ==
  ASSUME TypeOK, E!RefsCountClones, E!WakersHaveTasks, ClonesAreBound, panic' = "user",
         UNCHANGED <<flavor, tasks, awake, next, refs, clones, cur, pc, items, futures, events,
                     polling, stats, runs>>,
         IsSlab(regs', Key, [ready : BOOLEAN, waker : TaskId \cup {None}]),
         IsSlab(handles', Handle, [kind : R!Kinds, key : Key, index : R!Index,
                                   last : TaskId \cup {None}]),
         IsSlab(fut', TaskId, FutType),
         \A t \in TaskId : \A k : (k \in DOMAIN regs' /\ regs'[k].waker = t)
                                    <=> (k \in DOMAIN regs /\ regs[k].waker = t)
  PROVE  TypeOK' /\ E!RefsCountClones' /\ E!WakersHaveTasks' /\ ClonesAreBound'
<1>1. E!TypeOK'
  BY DEF TypeOK, E!TypeOK, E!Panics
<1>2. R!TypeOK'
  BY DEF TypeOK, R!TypeOK, IsSlab, R!IsSlab
<1>3. TypeOK'
  BY <1>1, <1>2 DEF TypeOK, FutType
<1>4. E!RefsCountClones' /\ E!WakersHaveTasks'
  BY DEF E!RefsCountClones, E!WakersHaveTasks, E!VacantRefs, E!Embedded
<1>5. ASSUME NEW t \in TaskId
      PROVE  {k \in DOMAIN regs' : regs'[k].waker = t} = {k \in DOMAIN regs : regs[k].waker = t}
  OBVIOUS
<1>6. ClonesAreBound'
  BY <1>5 DEF ClonesAreBound
<1> QED
  BY <1>3, <1>4, <1>6

LEMMA FaultState ==
  ASSUME Inv, TypeOK, E!RefsCountClones, E!WakersHaveTasks, ClonesAreBound, OwnersOnly,
         NEW call, Calling(call), Interrupted(call), fault' = call, panic' = "user",
         fault = "none",
         UNCHANGED <<flavor, tasks, awake, next, refs, clones, cur, pc, items, futures, events,
                     polling, stats, runs>>
  PROVE  /\ TypeOK' /\ OwnersOnly'
         /\ E!RefsCountClones' /\ E!WakersHaveTasks' /\ ClonesAreBound'
         /\ cur' # None => cur' \in DOMAIN fut'
<1>0. cur # None => cur \in DOMAIN fut
  BY ExecutorFacts DEF Inv, OwnInv, FutsAreTasks
<1>1. CASE call = "register"
  <2>1. PICK k \in Key \ DOMAIN regs : regs' = With(regs, k, [ready |-> FALSE, waker |-> None])
    BY <1>1 DEF Interrupted
  <2>2. UNCHANGED <<handles, fut>>
    BY <1>1 DEF Interrupted
  <2>3. /\ DOMAIN regs' = DOMAIN regs \cup {k} /\ regs'[k] = [ready |-> FALSE, waker |-> None]
        /\ \A j \in DOMAIN regs : regs'[j] = regs[j]
        /\ IsSlab(regs', Key, [ready : BOOLEAN, waker : TaskId \cup {None}])
    <3>1. [ready |-> FALSE, waker |-> None] \in [ready : BOOLEAN, waker : TaskId \cup {None}]
      OBVIOUS
    <3>2. IsSlab(regs', Key, [ready : BOOLEAN, waker : TaskId \cup {None}])
      BY <2>1, <3>1, WithSlab, SlabsTyped
    <3> QED
      BY <2>1, <3>2 DEF With
  <2>4. \A t \in TaskId : \A j : (j \in DOMAIN regs' /\ regs'[j].waker = t)
                                   <=> (j \in DOMAIN regs /\ regs[j].waker = t)
    <3>1. None \notin TaskId
      BY SlotAssumption
    <3>2. regs'[k].waker = None
      BY <2>3
    <3> QED
      BY <2>1, <2>3, <3>1, <3>2
  <2>5. TypeOK' /\ E!RefsCountClones' /\ E!WakersHaveTasks' /\ ClonesAreBound'
    BY <2>2, <2>3, <2>4, SameWakers, SlabsTyped
  <2>6. OwnersOnly'
    BY <2>2, <2>3 DEF OwnersOnly, Owns
  <2> QED
    BY <2>2, <2>5, <2>6, <1>0
<1>2. CASE call = "unregister"
  <2>t. PICK t : t = cur
    OBVIOUS
  <2>0. Running /\ fut[t].at = "close"
    BY <2>t, <1>2 DEF Calling, Self, Ops
  <2>1. UnderPoll(t)
    BY <2>0, <2>t, PolledTask
  <2>h. PICK h : h = fut[t].io
    OBVIOUS
  <2>2. /\ h \in DOMAIN handles /\ h # None /\ fut[t].stream = None /\ Owns(t, h)
        /\ regs[handles[h].key].waker = None
    BY <2>0, <2>1, <2>h DEF UnderPoll, Shape, InPlace, Owns
  <2>k. PICK k : k = handles[h].key
    OBVIOUS
  <2>3. /\ regs' = Without(regs, k) /\ handles' = Without(handles, h)
        /\ fut' = [fut EXCEPT ![t].io = None]
    BY <1>2, <2>t, <2>h, <2>k DEF Interrupted, Self
  <2>v. PICK v : v = [fut[t] EXCEPT !.io = None]
    OBVIOUS
  <2>4. v \in FutType /\ v.io = None /\ v.stream = None /\ fut' = [fut EXCEPT ![t] = v]
    BY <2>1, <2>2, <2>3, <2>v DEF UnderPoll, FutType
  <2>5. /\ IsSlab(fut', TaskId, FutType) /\ DOMAIN fut' = DOMAIN fut
        /\ fut'[t] = v /\ \A u \in Others(t) : fut'[u] = fut[u]
    BY <2>1, <2>4, FutChange DEF UnderPoll
  <2>6. /\ DOMAIN regs' = DOMAIN regs \ {k}
        /\ \A j \in DOMAIN regs' : regs'[j] = regs[j]
        /\ IsSlab(regs', Key, [ready : BOOLEAN, waker : TaskId \cup {None}])
    BY <2>3, WithoutEntries, WithoutSlab, SlabsTyped
  <2>7. /\ DOMAIN handles' = DOMAIN handles \ {h}
        /\ \A g \in DOMAIN handles' : handles'[g] = handles[g]
        /\ IsSlab(handles', Handle, [kind : R!Kinds, key : Key, index : R!Index,
                                     last : TaskId \cup {None}])
    BY <2>3, WithoutEntries, WithoutSlab, SlabsTyped
  <2>8. \A u \in TaskId : \A j : (j \in DOMAIN regs' /\ regs'[j].waker = u)
                                   <=> (j \in DOMAIN regs /\ regs[j].waker = u)
    BY <2>2, <2>6, <2>k, SlotAssumption
  <2>9. TypeOK' /\ E!RefsCountClones' /\ E!WakersHaveTasks' /\ ClonesAreBound'
    BY <2>5, <2>6, <2>7, <2>8, SameWakers
  <2>10. OwnersOnly'
    <3>1. ASSUME NEW u \in DOMAIN fut, NEW g
          PROVE  Owns(u, g)' <=> Owns(u, g) /\ u # t
      BY <2>2, <2>4, <2>5, <2>h DEF Owns, Others
    <3>2. \A u \in DOMAIN fut : \A g : Owns(u, g) /\ u # t => g # h
      BY <2>1, <2>2 DEF OwnersOnly, UnderPoll
    <3>3. \A g \in DOMAIN handles' : \E u \in DOMAIN fut' : Owns(u, g)'
      <4> SUFFICES ASSUME NEW g \in DOMAIN handles' PROVE \E u \in DOMAIN fut' : Owns(u, g)'
        OBVIOUS
      <4>1. PICK u \in DOMAIN fut : Owns(u, g)
        BY <2>7 DEF OwnersOnly
      <4>2. u # t
        BY <4>1, <2>2, <2>7, <2>h DEF Owns
      <4> QED
        BY <4>1, <4>2, <3>1, <2>5
    <3>4. \A u \in DOMAIN fut' : \A g : Owns(u, g)' => g \in DOMAIN handles'
      BY <3>1, <3>2, <2>5, <2>7 DEF OwnersOnly
    <3>5. \A u, w \in DOMAIN fut' : \A g : Owns(u, g)' /\ Owns(w, g)' => u = w
      BY <3>1, <2>5 DEF OwnersOnly
    <3>6. /\ \A g \in DOMAIN handles' : handles'[g].key \in DOMAIN regs'
          /\ \A f, g \in DOMAIN handles' :
               f # g => handles'[f].key # handles'[g].key /\ handles'[f].index # handles'[g].index
      BY <2>2, <2>6, <2>7, <2>k DEF OwnersOnly
    <3>7. \A j \in DOMAIN regs' :
            regs'[j].waker # None => \E g \in DOMAIN handles' : j = handles'[g].key
      BY <2>6, <2>7, <2>k DEF OwnersOnly
    <3> QED
      BY <3>3, <3>4, <3>5, <3>6, <3>7, <1>2 DEF OwnersOnly
  <2> QED
    BY <2>5, <2>9, <2>10, <1>0
<1>3. CASE call \notin {"register", "unregister"}
  <2>1. UNCHANGED <<regs, handles, fut>>
    BY <1>3 DEF Interrupted
  <2>2. TypeOK' /\ E!RefsCountClones' /\ E!WakersHaveTasks' /\ ClonesAreBound'
    BY <2>1, SameWakers, SlabsTyped
  <2>3. OwnersOnly'
    BY <2>1 DEF OwnersOnly, Owns
  <2> QED
    BY <2>1, <2>2, <2>3, <1>0
<1> QED
  BY <1>1, <1>2, <1>3

-----------------------------------------------------------------------------
(* Each step of the teardown keeps the invariant. *)
LEMMA LiveFacts ==
  ASSUME TearInv
  PROVE  /\ TypeOK /\ CountsAgree
         /\ stage = "live" => OwnersOnly
<1>1. CASE stage = "live"
  BY <1>1, ServerTyped, ServerCounts, ServerObjects DEF TearInv, StageFits, CountsAgree
<1>2. CASE stage # "live"
  BY <1>2 DEF TearInv, StageFits
<1> QED
  BY <1>1, <1>2

LEMMA ServeInv ==
  ASSUME TearInv, stage = "live", [Next]_vars, UNCHANGED tearVars
  PROVE  TearInv'
<1>1. /\ Inv /\ Acc /\ RunsBounded /\ fault = "none" /\ ~ wild /\ ~ failed /\ TearVarsTyped
      /\ NoUseAfterFree /\ AssertionFailsOnlyAfter
  BY DEF TearInv, StageFits
<1>2. Inv'
  BY <1>1, NextInv
<1>3. Acc'
  BY <1>1, <1>2, NextAcc
<1>4. RunsBounded'
  BY <1>1, RunsBoundedStep
<1>5. UNCHANGED <<stage, fault, pipe, freed, wild, failed>>
  BY DEF tearVars
<1>6. TearVarsTyped' /\ NothingBehind' /\ NoUseAfterFree' /\ AssertionFailsOnlyAfter'
  BY <1>1, <1>5 DEF TearVarsTyped, NothingBehind, NoUseAfterFree, AssertionFailsOnlyAfter
<1>7. StageFits'
  <2>1. panic' # "refs"
    BY <1>2 DEF Inv, OwnInv, NoPanic
  <2> QED
    BY <1>1, <1>2, <1>3, <1>4, <1>5, <2>1 DEF StageFits
<1>8. ListenLeft'
  BY <1>5 DEF ListenLeft
<1> QED
  BY <1>6, <1>7, <1>8 DEF TearInv

(* The listen task makes no call to register() or accept() for others, and *)
(* none of its own behind the last accept() but unregister(); a task that  *)
(* makes another call finds it asleep with more to accept, or gone.        *)
LEMMA ListenBehindFault ==
  ASSUME Inv, Acc, NEW call \in StatsType, Calling(call)
  PROVE  Listening \ {cur} # {} <=>
           call \notin {"register", "accept"} /\ stats["accept"] < 2 * Conns * (runs + 1)
<1>c. PICK c : c = cur
  OBVIOUS
<1>n. Conns \in Nat /\ runs \in Nat /\ stats["accept"] \in Nat
  BY CapacityAssumption DEF Acc, StatsTyped, StatsType
<1>0. RoomForAll /\ FutsInShape /\ OthersWait /\ CallsInPlace /\ IsSlab(fut, TaskId, FutType)
  BY DEF Inv, OwnInv, FutsAreTasks, Acc
<1>1. Active
  BY DEF Calling, Running, Active
<1>2. /\ \A t \in Listening : ListenCounted(t)
      /\ Listening = {} => Spent["accept"] = 2 * Conns
  BY <1>1 DEF Acc, CallsCounted
<1>3. PICK a \in Int : a = Spent["accept"]
  BY SpentType DEF Acc, StatsType
<1>4. stats["accept"] < 2 * Conns * (runs + 1) <=> a < 2 * Conns
  <2>1. a = stats["accept"] - runs * (2 * Conns)
    BY <1>3 DEF Spent, CallsSince, ExpectedStats, StatsType
  <2>2. 2 * Conns * (runs + 1) = runs * (2 * Conns) + 2 * Conns
    BY <1>n
  <2>3. PICK x \in Nat : x = runs * (2 * Conns)
    BY <1>n
  <2> QED
    BY <1>n, <2>1, <2>2, <2>3
<1>5. ASSUME NEW t \in Listening
      PROVE  /\ Listening = {t} /\ t \in DOMAIN fut /\ fut[t] \in FutType
             /\ a = 2 * (Conns - fut[t].left) + 2 * One(Accepting(t)) + fut[t].calls
  BY <1>0, <1>2, <1>3, OneListener DEF ListenCounted, Listening, IsSlab
<1>6. CASE call \in {"register", "accept"}
  <2>1. Running /\ (fut[c].at \in {"start", "wrap"} \/ fut[c].op = "accept")
    BY <1>6, <1>c DEF Calling, Self, Ops
  <2>2. UnderPoll(c)
    BY <1>c, <2>1, PolledTask
  <2>3. c \in Listening
    BY <2>1, <2>2 DEF UnderPoll, Shape, Listening
  <2> QED
    BY <1>c, <1>5, <1>6, <2>3
<1>7. CASE call \notin {"register", "accept"} /\ c \in Listening
  <2>1. fut[c].at = "close"
    <3>1. c # None
      BY <1>0, <1>7, SlotAssumption DEF Listening, IsSlab
    <3>2. fut[c].op = "accept"
      BY <1>7 DEF Listening
    <3>3. Running
      BY <1>c, <3>1, ExecutorFacts DEF Calling, Inv, Running
    <3> QED
      BY <1>7, <1>c, <3>2, <3>3 DEF Calling, Self, Running, Ops
  <2>2. fut[c].left = 0 /\ fut[c].calls = 0 /\ ~ Accepting(c)
    BY <1>0, <1>5, <1>7, <2>1 DEF CallsInPlace, CallsFit, Accepting, Listening
  <2>3. a = 2 * Conns
    BY <1>5, <1>7, <2>2, <1>n DEF One
  <2> QED
    BY <1>c, <1>4, <1>5, <1>7, <2>3, <1>n
<1>8. CASE call \notin {"register", "accept"} /\ c \notin Listening
  <2>1. CASE Listening = {}
    BY <1>2, <1>3, <1>4, <1>n, <2>1
  <2>2. CASE Listening # {}
    <3>1. PICK t : t \in Listening
      BY <2>2
    <3>2. t # c /\ t \in DOMAIN fut /\ fut[t] \in FutType /\ fut[t].op = "accept"
      BY <1>5, <1>8, <3>1 DEF Listening
    <3>3. fut[t].at \in {"start", "call", "bind"}
      BY <1>0, <1>c, <3>2 DEF OthersWait, Waits
    <3>4. fut[t].left > 0 /\ ~ Accepting(t)
      BY <1>0, <3>2, <3>3 DEF RoomForAll, HasRoom, Accepting
    <3>5. PICK l \in 1 .. Conns, k \in 0 .. 1 : l = fut[t].left /\ k = fut[t].calls
      BY <3>2, <3>4, <1>n DEF FutType, Parity
    <3>6. a = 2 * (Conns - l) + k
      BY <1>5, <3>1, <3>4, <3>5, <1>n DEF One
    <3>7. a < 2 * Conns
      BY <3>5, <3>6, <1>n
    <3> QED
      BY <1>4, <1>8, <1>c, <3>1, <3>2, <3>7
  <2> QED
    BY <2>1, <2>2
<1> QED
  BY <1>6, <1>7, <1>8

LEMMA FaultInv ==
  ASSUME TearInv, NEW call \in StatsType, Fault(call)
  PROVE  TearInv'
<1>1. Inv /\ Acc /\ fault = "none" /\ ~ wild /\ ~ failed /\ TearVarsTyped /\ stage = "live"
  BY DEF TearInv, StageFits, Fault
<1>2. /\ TypeOK /\ E!RefsCountClones /\ E!WakersHaveTasks /\ ClonesAreBound /\ OwnersOnly
  BY <1>1, LiveFacts DEF CountsAgree
<1>3. /\ Calling(call) /\ Interrupted(call) /\ fault' = call /\ panic' = "user"
      /\ stage' = "unwind"
      /\ UNCHANGED <<flavor, tasks, awake, next, refs, clones, cur, pc, items, futures, events,
                     polling, stats, runs>>
      /\ UNCHANGED <<pipe, freed, wild, failed>>
  BY DEF Fault
<1>4. /\ TypeOK' /\ OwnersOnly'
      /\ E!RefsCountClones' /\ E!WakersHaveTasks' /\ ClonesAreBound'
      /\ cur' # None => cur' \in DOMAIN fut'
  BY <1>1, <1>2, <1>3, FaultState
<1>5. /\ TearVarsTyped' /\ NothingBehind' /\ NoUseAfterFree' /\ AssertionFailsOnlyAfter'
  BY <1>1, <1>3 DEF TearVarsTyped, Stages, NothingBehind, NoUseAfterFree,
    AssertionFailsOnlyAfter
<1>6. StageFits'
  BY <1>1, <1>3, <1>4 DEF StageFits, CountsAgree
<1>7. Listening' = Listening
  <2>1. CASE UNCHANGED fut
    BY <2>1 DEF Listening
  <2>2. CASE fut' = [fut EXCEPT ![cur].io = None]
    <3>1. DOMAIN fut' = DOMAIN fut /\ \A t \in DOMAIN fut : fut'[t].op = fut[t].op
      <4>1. \A t \in DOMAIN fut : fut[t] \in FutType
        BY <1>2, SlabsTyped DEF IsSlab
      <4> QED
        BY <2>2, <4>1 DEF FutType
    <3> QED
      BY <3>1 DEF Listening
  <2> QED
    BY <1>3, <2>1, <2>2 DEF Interrupted
<1>8. Listening' \ {cur'} # {} <=> HitsOthers'
  BY <1>1, <1>3, <1>7, ListenBehindFault DEF HitsOthers
<1>9. ListenLeft'
  BY <1>3, <1>8 DEF ListenLeft, Fault
<1> QED
  BY <1>5, <1>6, <1>9 DEF TearInv

(* An empty slab is that slab. *)
LEMMA EmptyAgain ==
  ASSUME TypeOK
  PROVE  /\ DOMAIN fut = {} => fut = <<>>
         /\ DOMAIN regs = {} => regs = <<>>
         /\ DOMAIN items = {} => items = <<>>
  BY SlabsTyped DEF IsSlab

LEMMA SameState ==
  ASSUME TypeOK, UNCHANGED vars
  PROVE  TypeOK'
<1>1. E!TypeOK'
  BY DEF TypeOK, vars, execVars, E!TypeOK
<1>2. R!TypeOK'
  BY DEF TypeOK, vars, reactVars, R!TypeOK, R!IsSlab
<1> QED
  BY <1>1, <1>2 DEF TypeOK, vars, IsSlab

LEMMA SameObjects ==
  ASSUME OwnersOnly, UNCHANGED <<fut, handles, regs, items, fault>>
  PROVE  OwnersOnly'
  BY DEF OwnersOnly, Owns

LEMMA SameCounts ==
  ASSUME CountsAgree, UNCHANGED <<flavor, tasks, refs, clones, regs, wild>>
  PROVE  CountsAgree'
  BY DEF CountsAgree, ClonesAreBound, E!RefsCountClones, E!WakersHaveTasks, E!VacantRefs,
     E!Embedded

LEMMA ReturnInv ==
  ASSUME TearInv, Return
  PROVE  TearInv'
<1>1. /\ Inv /\ ~ wild /\ ~ failed /\ TearVarsTyped /\ stage = "live" /\ tasks = {}
      /\ stage' = "executor" /\ UNCHANGED vars /\ UNCHANGED <<fault, pipe, freed, wild, failed>>
  BY DEF TearInv, StageFits, Return
<1>2. /\ TypeOK /\ CountsAgree /\ OwnersOnly
  BY <1>1, LiveFacts
<1>3. /\ regs = <<>> /\ items = <<>> /\ fut = <<>>
  BY <1>1, <1>2, NothingLeft, EmptyAgain
<1>4. UNCHANGED <<flavor, tasks, refs, clones, panic, cur, fut, handles, regs, items>>
  BY <1>1 DEF vars, execVars, reactVars
<1>5. TypeOK' /\ OwnersOnly' /\ CountsAgree'
  BY <1>1, <1>2, <1>4, SameState, SameObjects, SameCounts
<1>6. /\ TearVarsTyped' /\ NothingBehind' /\ NoUseAfterFree' /\ AssertionFailsOnlyAfter'
  BY <1>1, <1>3, <1>4 DEF TearVarsTyped, Stages, NothingBehind, NoUseAfterFree,
    AssertionFailsOnlyAfter
<1>7. StageFits' /\ ListenLeft'
  <2>1. panic' = "none"
    BY <1>1, <1>4 DEF Inv, OwnInv, NoPanic
  <2> QED
    BY <1>1, <1>5, <2>1 DEF StageFits, ListenLeft
<1> QED
  BY <1>6, <1>7 DEF TearInv

(* The state behind a step that drops futures, or keeps them. *)
LEMMA DroppedState ==
  ASSUME TearInv, stage \in {"unwind", "executor"}, NEW T \in SUBSET DOMAIN fut,
         DropFutures(T) \/ (KeepFutures /\ T = {}),
         UNCHANGED <<flavor, tasks, awake, next, cur, pc, events, polling, runs, fault,
                     wild, failed>>
  PROVE  /\ TypeOK' /\ OwnersOnly' /\ CountsAgree'
         /\ UNCHANGED panic /\ (HitsOthers' <=> HitsOthers)
         /\ Listening' = Listening \ T
         /\ DOMAIN fut' = DOMAIN fut \ T
         /\ \A t \in DOMAIN fut' : fut'[t] = fut[t]
         /\ panic' = "none" => regs' = <<>> /\ items' = <<>> /\ fut' = <<>>
         /\ DOMAIN fut' = {} => fut' = <<>>
<1>1. /\ TypeOK /\ CountsAgree /\ OwnersOnly /\ ~ wild
      /\ panic = "none" => regs = <<>> /\ items = <<>> /\ fut = <<>>
  BY DEF TearInv, StageFits, NothingBehind
<1>2. CASE DropFutures(T)
  <2>1. E!RefsCountClones /\ E!WakersHaveTasks /\ ClonesAreBound
    BY <1>1 DEF CountsAgree
  <2>2. /\ TypeOK' /\ OwnersOnly'
        /\ UNCHANGED panic /\ stats'["accept"] = stats["accept"]
        /\ E!RefsCountClones' /\ E!WakersHaveTasks' /\ ClonesAreBound'
        /\ DOMAIN fut' = DOMAIN fut \ T
        /\ \A t \in DOMAIN fut' : fut'[t] = fut[t]
        /\ DOMAIN regs' \subseteq DOMAIN regs /\ DOMAIN items' \subseteq DOMAIN items
    BY <1>1, <1>2, <2>1, DropFuturesKeeps
  <2>3. /\ IsSlab(regs', Key, [ready : BOOLEAN, waker : TaskId \cup {None}])
        /\ IsSlab(items', R!Index, R!Interests \X Key)
        /\ IsSlab(fut', TaskId, FutType)
    BY <2>2 DEF TypeOK, R!TypeOK, IsSlab, R!IsSlab, FutType
  <2>4. ASSUME NEW f, NEW D, NEW E0, IsSlab(f, D, E0), DOMAIN f = {}
        PROVE  f = <<>>
    BY <2>4 DEF IsSlab
  <2>5. DOMAIN fut' = {} => fut' = <<>>
    BY <2>3, <2>4
  <2>6. ASSUME panic' = "none" PROVE regs' = <<>> /\ items' = <<>> /\ fut' = <<>>
    <3>1. DOMAIN regs' = {} /\ DOMAIN items' = {} /\ DOMAIN fut' = {}
      <4>1. panic = "none"
        BY <2>6, <2>2
      <4>2. regs = <<>> /\ items = <<>> /\ fut = <<>>
        BY <4>1, <1>1
      <4>3. DOMAIN regs = {} /\ DOMAIN items = {} /\ DOMAIN fut = {}
        BY <4>2
      <4> QED
        BY <4>3, <2>2
    <3> QED
      BY <3>1, <2>3, <2>4
  <2>7. Listening' = Listening \ T
    BY <2>2 DEF Listening
  <2>8. HitsOthers' <=> HitsOthers
    BY <2>2 DEF HitsOthers
  <2> QED
    BY <2>2, <2>5, <2>6, <2>7, <2>8 DEF CountsAgree
<1>3. CASE KeepFutures /\ T = {}
  <2>1. UNCHANGED vars
    BY <1>3 DEF KeepFutures, vars, execVars, reactVars
  <2>2. UNCHANGED <<flavor, tasks, refs, clones, panic, cur, fut, handles, regs, items>>
    BY <2>1 DEF vars, execVars, reactVars
  <2>3. TypeOK' /\ OwnersOnly' /\ CountsAgree'
    BY <1>1, <2>1, <2>2, SameState, SameObjects, SameCounts
  <2>4. DOMAIN fut = {} => fut = <<>>
    BY <1>1, EmptyAgain
  <2>5. Listening' = Listening \ T /\ (HitsOthers' <=> HitsOthers)
    BY <1>3, <2>1, <2>2 DEF Listening, HitsOthers, vars
  <2> QED
    BY <1>1, <1>3, <2>2, <2>3, <2>4, <2>5
<1> QED
  BY <1>2, <1>3

LEMMA UnwindInv ==
  ASSUME TearInv, Unwind
  PROVE  TearInv'
<1>1. /\ TearVarsTyped /\ ~ wild /\ ~ failed /\ stage = "unwind" /\ Then("executor")
      /\ panic # "none" /\ panic # "refs" /\ (cur # None => cur \in DOMAIN fut)
      /\ UNCHANGED <<flavor, tasks, awake, next, cur, pc, events, polling, runs, fault,
                     pipe, freed, wild, failed>>
  BY DEF TearInv, StageFits, Unwind
<1>0. None \notin Listening
  <2>1. TypeOK
    BY LiveFacts
  <2> QED
    BY <2>1, SlabsTyped, SlotAssumption DEF Listening, IsSlab
<1>2. PICK T \in SUBSET DOMAIN fut :
        /\ DropFutures(T) \/ (KeepFutures /\ T = {})
        /\ Listening \ T = Listening \ {cur}
  <2>1. CASE cur = None
    <3>1. PICK T \in SUBSET DOMAIN fut : T = {}
      OBVIOUS
    <3>2. KeepFutures /\ Listening \ T = Listening \ {cur}
      BY <1>0, <2>1, <3>1 DEF Unwind
    <3> QED
      BY <3>1, <3>2
  <2>2. CASE cur # None
    BY <2>2, <1>1 DEF Unwind
  <2> QED
    BY <2>1, <2>2
<1>3. /\ TypeOK' /\ OwnersOnly' /\ CountsAgree'
      /\ UNCHANGED panic /\ (HitsOthers' <=> HitsOthers)
      /\ Listening' = Listening \ T
  BY <1>1, <1>2, DroppedState
<1>6. stage' = "executor"
  BY <1>1, <1>3 DEF Then
<1>4. /\ TearVarsTyped' /\ NothingBehind' /\ NoUseAfterFree' /\ AssertionFailsOnlyAfter'
  BY <1>1, <1>3, <1>6 DEF TearVarsTyped, Stages, NothingBehind, NoUseAfterFree,
    AssertionFailsOnlyAfter
<1>5. StageFits'
  BY <1>1, <1>3, <1>6 DEF StageFits
<1>7. ListenLeft'
  <2>1. Listening' # {} <=> HitsOthers'
    BY <1>1, <1>2, <1>3 DEF TearInv, ListenLeft
  <2> QED
    BY <1>1, <1>3, <1>6, <2>1 DEF TearInv, ListenLeft
<1> QED
  BY <1>4, <1>5, <1>7 DEF TearInv

(* The executor drops all futures, or forgets all, or is held by one. *)
LEMMA DropExecutorInv ==
  ASSUME TearInv, DropExecutor
  PROVE  TearInv'
<1>1. /\ TearVarsTyped /\ ~ wild /\ ~ failed /\ stage = "executor" /\ Then("reactor")
      /\ freed' = ~ HeldByTask /\ panic # "refs"
      /\ UNCHANGED <<flavor, tasks, awake, next, cur, pc, events, polling, runs, fault,
                     pipe, wild, failed>>
  BY DEF TearInv, StageFits, DropExecutor
<1>0. panic # "none" => (Listening # {} <=> HitsOthers) /\ pipe = "open"
  BY <1>1 DEF TearInv, ListenLeft
<1>2. /\ TypeOK' /\ OwnersOnly' /\ CountsAgree'
      /\ UNCHANGED panic
      /\ panic' = "none" => regs' = <<>> /\ items' = <<>> /\ fut' = <<>>
      /\ panic' # "none" /\ flavor' # "arg" =>
           (fut' # <<>> <=> flavor' = "boxrc" /\ HitsOthers')
  <2>1. CASE flavor = "arg" \/ HeldByTask
    <3>1. KeepFutures /\ fut' = fut
      BY <2>1 DEF DropExecutor, KeepFutures
    <3>2. /\ TypeOK' /\ OwnersOnly' /\ CountsAgree'
          /\ UNCHANGED panic /\ (HitsOthers' <=> HitsOthers)
          /\ panic' = "none" => regs' = <<>> /\ items' = <<>> /\ fut' = <<>>
      <4>1. PICK T \in SUBSET DOMAIN fut : T = {}
        OBVIOUS
      <4> QED
        BY <1>1, <3>1, <4>1, DroppedState
    <3>3. flavor # "arg" => flavor = "boxrc" /\ Listening # {} /\ fut' # <<>>
      BY <2>1, <3>1 DEF HeldByTask, Listening
    <3> QED
      BY <1>0, <1>1, <3>2, <3>3
  <2>2. CASE ~ (flavor = "arg" \/ HeldByTask)
    <3>1. DropFutures(DOMAIN fut)
      BY <2>2 DEF DropExecutor
    <3>2. /\ TypeOK' /\ OwnersOnly' /\ CountsAgree'
          /\ UNCHANGED panic /\ (HitsOthers' <=> HitsOthers)
          /\ panic' = "none" => regs' = <<>> /\ items' = <<>> /\ fut' = <<>>
          /\ DOMAIN fut' = DOMAIN fut \ DOMAIN fut
          /\ DOMAIN fut' = {} => fut' = <<>>
      BY <1>1, <3>1, DroppedState
    <3>3. flavor = "boxrc" => Listening = {}
      BY <2>2 DEF HeldByTask
    <3> QED
      BY <1>0, <1>1, <3>2, <3>3
  <2> QED
    BY <2>1, <2>2
<1>6. stage' = "reactor"
  BY <1>1, <1>2 DEF Then
<1>3. freed' \in BOOLEAN
  BY <1>1 DEF HeldByTask
<1>4. /\ TearVarsTyped' /\ NothingBehind' /\ NoUseAfterFree' /\ AssertionFailsOnlyAfter'
  BY <1>1, <1>2, <1>3, <1>6 DEF TearVarsTyped, Stages, NothingBehind, NoUseAfterFree,
    AssertionFailsOnlyAfter
<1>5. StageFits' /\ ListenLeft'
  BY <1>0, <1>1, <1>2, <1>6 DEF StageFits, ListenLeft
<1> QED
  BY <1>4, <1>5 DEF TearInv

(* The reactor drops the wakers that are still bound, and Poll the items.  *)
(* A waker is bound only where a future was forgotten.                     *)
LEMMA DropReactorInv ==
  ASSUME TearInv, DropReactor
  PROVE  TearInv'
<1>1. /\ TearVarsTyped /\ ~ wild /\ ~ failed /\ stage = "reactor" /\ TypeOK /\ OwnersOnly
      /\ E!RefsCountClones /\ E!WakersHaveTasks /\ ClonesAreBound
      /\ flavor = "arg" \/ fut = <<>>
      /\ panic = "none" => regs = <<>> /\ items = <<>> /\ fut = <<>>
      /\ panic # "refs"
  BY DEF TearInv, StageFits, NothingBehind, CountsAgree, DropReactor, HeldByFutures
<1>2. /\ wild' = Dangling /\ wild' \in BOOLEAN
      /\ UNCHANGED <<flavor, tasks, awake, next, cur, pc, items, handles, futures,
                     events, polling, fut, stats, runs, fault, pipe, freed>>
  BY DEF DropReactor, Dangling
<1>3. wild' => flavor = "arg" /\ panic # "none"
  <2> SUFFICES ASSUME wild' PROVE flavor = "arg" /\ panic # "none"
    OBVIOUS
  <2>1. PICK k \in DOMAIN regs : regs[k].waker # None
    BY <1>2 DEF Dangling
  <2>2. PICK h \in DOMAIN handles : k = handles[h].key
    BY <1>1, <2>1 DEF OwnersOnly
  <2>3. PICK t \in DOMAIN fut : Owns(t, h)
    BY <1>1, <2>2 DEF OwnersOnly
  <2>4. fut # <<>> /\ regs # <<>>
    BY <2>1, <2>3
  <2> QED
    BY <1>1, <2>4
<1>4. items # <<>> => fault = "unregister" \/ (flavor = "arg" /\ fut # <<>>)
  <2> SUFFICES ASSUME items # <<>>, fault # "unregister" PROVE flavor = "arg" /\ fut # <<>>
    OBVIOUS
  <2>1. PICK i : i \in DOMAIN items
    BY <1>1, EmptyAgain
  <2>2. PICK h \in DOMAIN handles : i = handles[h].index
    BY <1>1, <2>1 DEF OwnersOnly
  <2>3. PICK t \in DOMAIN fut : Owns(t, h)
    BY <1>1, <2>2 DEF OwnersOnly
  <2>4. fut # <<>>
    BY <2>3
  <2> QED
    BY <1>1, <2>4
<1>6. TypeOK' /\ CountsAgree' /\ UNCHANGED panic
  <2>1. CASE UNCHANGED <<refs, clones, panic>> /\ Dangling /\ regs' \in {regs, <<>>}
    <3>1. E!TypeOK'
      BY <1>1, <1>2, <2>1 DEF TypeOK, E!TypeOK
    <3>2. IsSlab(regs', Key, [ready : BOOLEAN, waker : TaskId \cup {None}])
      BY <1>1, <2>1, SlabsTyped, EmptySlab
    <3>3. R!TypeOK'
      BY <1>1, <1>2, <3>2 DEF TypeOK, R!TypeOK, IsSlab, R!IsSlab
    <3> QED
      BY <1>1, <1>2, <2>1, <3>1, <3>3 DEF TypeOK, CountsAgree, IsSlab
  <2>2. CASE DropWakers(DOMAIN regs) /\ regs' = <<>> /\ ~ Dangling
    <3>1. PICK K \in SUBSET DOMAIN regs : K = DOMAIN regs
      OBVIOUS
    <3>2. DOMAIN regs' = {}
      BY <2>2
    <3>3. DOMAIN regs' = DOMAIN regs \ K /\ \A k \in DOMAIN regs' : regs'[k] = regs[k]
      BY <3>1, <3>2
    <3>4. /\ refs' \in [TaskId -> 0 .. Conns + 2]
          /\ clones' \in [TaskId -> 0 .. Conns + 1]
          /\ UNCHANGED panic
          /\ E!RefsCountClones' /\ E!WakersHaveTasks' /\ ClonesAreBound'
      BY <1>1, <1>2, <2>2, <3>1, <3>3, DropWakersCounts
    <3>5. E!TypeOK'
      <4>1. Conns + 1 + 1 = Conns + 2
        BY CapacityAssumption
      <4> QED
        BY <1>1, <1>2, <3>4, <4>1 DEF TypeOK, E!TypeOK
    <3>6. IsSlab(regs', Key, [ready : BOOLEAN, waker : TaskId \cup {None}])
      BY <2>2, EmptySlab
    <3>7. R!TypeOK'
      BY <1>1, <1>2, <3>6 DEF TypeOK, R!TypeOK, IsSlab, R!IsSlab
    <3> QED
      BY <1>1, <1>2, <3>4, <3>5, <3>7 DEF TypeOK, CountsAgree, IsSlab
  <2> QED
    BY <2>1, <2>2 DEF DropReactor
<1>5. /\ stage' \in {"aborted", "stats"} /\ failed' \in BOOLEAN
      /\ failed' => items # <<>>
      /\ stage' = "stats" => regs' = <<>>
      /\ panic = "none" => stage' = "stats"
  <2>1. CASE Dangling /\ stage' = "aborted" /\ UNCHANGED failed
    BY <1>1, <1>2, <1>3, <2>1 DEF TearVarsTyped
  <2>2. CASE /\ regs' = <<>> /\ failed' = (items # <<>>)
             /\ IF failed' /\ panic # "none" THEN stage' = "aborted" ELSE Then("stats")
    BY <1>1, <1>6, <2>2 DEF Then
  <2> QED
    BY <2>1, <2>2 DEF DropReactor
<1>7. TearVarsTyped'
  BY <1>1, <1>2, <1>5 DEF TearVarsTyped, Stages
<1>8. /\ NothingBehind' /\ NoUseAfterFree' /\ AssertionFailsOnlyAfter'
  BY <1>1, <1>2, <1>3, <1>4, <1>5, <1>6
  DEF NothingBehind, NoUseAfterFree, AssertionFailsOnlyAfter
<1>9. StageFits'
  BY <1>1, <1>2, <1>5, <1>6 DEF StageFits
<1>10. ListenLeft'
  BY <1>1, <1>2, <1>5, <1>6 DEF TearInv, ListenLeft, HitsOthers
<1> QED
  BY <1>7, <1>8, <1>9, <1>10 DEF TearInv

(* The steps that drop nothing but an Rc or the stats. *)
LEMMA RestInv ==
  ASSUME TearInv, KeepReactor \/ DropStats \/ Ended \/ UNCHANGED allVars
  PROVE  TearInv'
<1>1. CASE stage = "live"
  <2>1. UNCHANGED vars /\ UNCHANGED tearVars
    BY <1>1 DEF KeepReactor, DropStats, Ended, allVars
  <2> QED
    BY <1>1, <2>1, ServeInv
<1>2. CASE stage # "live"
  <2>1. UNCHANGED vars /\ UNCHANGED <<fault, freed, wild, failed>>
    BY DEF KeepReactor, DropStats, Ended, allVars, tearVars
  <2>2. UNCHANGED <<flavor, tasks, refs, clones, panic, cur, fut, handles, regs, items>>
    BY <2>1 DEF vars, execVars, reactVars
  <2>3. TypeOK /\ CountsAgree
    BY <1>2 DEF TearInv, StageFits
  <2>4. TypeOK' /\ CountsAgree'
    BY <2>1, <2>2, <2>3, SameState, SameCounts
  <2>5. \/ stage' = stage /\ pipe' = pipe
        \/ stage = "reactor" /\ stage' = "stats" /\ pipe' = pipe
        \/ /\ stage = "stats" /\ stage' = "over"
           /\ pipe' = IF pipe = "open" /\ ~ HeldByFutures THEN "closed" ELSE pipe
    BY DEF KeepReactor, DropStats, Ended, allVars, tearVars
  <2>6. OwnersOnly => OwnersOnly'
    BY <2>1, <2>2, SameObjects
  <2>7. (HeldByTask' <=> HeldByTask) /\ (HeldByFutures' <=> HeldByFutures)
    BY <2>2 DEF HeldByTask, HeldByFutures, Listening
  <2>8. TearVarsTyped'
    BY <2>1, <2>5 DEF TearInv, TearVarsTyped, Stages
  <2>9. /\ NothingBehind' /\ NoUseAfterFree' /\ AssertionFailsOnlyAfter'
    BY <1>2, <2>1, <2>2, <2>5
    DEF TearInv, NothingBehind, NoUseAfterFree, AssertionFailsOnlyAfter, HeldByFutures
  <2>10. StageFits'
    BY <1>2, <2>1, <2>2, <2>4, <2>5, <2>6, <2>7 DEF TearInv, StageFits
  <2>11. (HitsOthers' <=> HitsOthers) /\ Listening' = Listening
    BY <2>1, <2>2 DEF HitsOthers, Listening, vars
  <2>12. ListenLeft'
    BY <1>2, <2>2, <2>5, <2>7, <2>11 DEF TearInv, ListenLeft
  <2> QED
    BY <2>8, <2>9, <2>10, <2>12 DEF TearInv
<1> QED
  BY <1>1, <1>2

LEMMA TearInitInv == TearInit => TearInv
<1> SUFFICES ASSUME TearInit PROVE TearInv
  OBVIOUS
<1>1. Inv /\ Acc
  BY InitInv, InitAcc DEF TearInit
<1>2. RunsBounded
  BY CapacityAssumption DEF TearInit, Init, E!Init, RunsBounded, Active
<1>3. panic = "none"
  BY DEF TearInit, Init, E!Init
<1> QED
  BY <1>1, <1>2, <1>3 DEF TearInit, TearInv, TearVarsTyped, Stages, StageFits, NothingBehind,
    ListenLeft, NoUseAfterFree, AssertionFailsOnlyAfter

LEMMA TearNextInv == TearInv /\ [TearNext]_allVars => TearInv'
<1> SUFFICES ASSUME TearInv, [TearNext]_allVars PROVE TearInv'
  OBVIOUS
<1>1. CASE Serve
  BY <1>1, ServeInv DEF Serve, Next
<1> QED
  BY <1>1, FaultInv, UnwindInv, ReturnInv, DropExecutorInv, DropReactorInv, RestInv
  DEF TearNext

-----------------------------------------------------------------------------
(* The invariant of the teardown holds in every behaviour, wherever the    *)
(* fault hits.                                                             *)
THEOREM TearInvHolds == TearSpec => []TearInv
  BY TearInitInv, TearNextInv, PTL DEF TearSpec

(* Every variable keeps its type while the locals are dropped: no count    *)
(* falls below zero.                                                       *)
THEOREM TearTyped == TearSpec => []TearTypeOK
<1>1. TearInv => TearTypeOK
  BY LiveFacts DEF TearInv, TearVarsTyped, TearTypeOK
<1> QED
  BY <1>1, TearInvHolds, PTL

(* Only ArgExecutor, and only when a panic unwinds, lets the reactor drop  *)
(* a waker whose task's memory is gone.                                    *)
THEOREM UseAfterFreeOnlyInArg == TearSpec => []NoUseAfterFree
<1>1. TearInv => NoUseAfterFree
  BY DEF TearInv
<1> QED
  BY <1>1, TearInvHolds, PTL

(* A function that returns leaves no registration, no future and no open   *)
(* pipe, and the assertion in Poll::drop holds.                            *)
THEOREM ReturnsClean == TearSpec => []ReturnIsClean
<1>1. TearInv => ReturnIsClean
  BY DEF TearInv, NothingBehind, ReturnIsClean
<1> QED
  BY <1>1, TearInvHolds, PTL

(* The drops of unwinding keep the counts of the wakers equal to what the  *)
(* registrations hold: EmbedWaker::drop finds no count exhausted.          *)
THEOREM CountsStayRight == TearSpec => []CountsSurvive
<1>1. TearInv => CountsSurvive
  BY LiveFacts DEF TearInv, StageFits, CountsAgree, CountsSurvive
<1> QED
  BY <1>1, TearInvHolds, PTL

(* With boxed futures a panic leaks nothing, except in run_box_rc while    *)
(* the listen task sleeps: exactly if the panic hits outside that task,    *)
(* before the last connection of the run was accepted.                     *)
THEOREM LeaksExactly == TearSpec => []LeaksUntilAllAccepted
<1>1. TearInv => LeaksUntilAllAccepted
  <2> SUFFICES ASSUME TearInv, stage = "over", panic # "none", flavor # "arg"
               PROVE  /\ fut # <<>> <=> flavor = "boxrc" /\ HitsOthers
                      /\ pipe = "open" <=> flavor = "boxrc" /\ HitsOthers
    BY DEF LeaksUntilAllAccepted, HitsOthers
  <2>1. fut # <<>> <=> flavor = "boxrc" /\ HitsOthers
    BY DEF TearInv, ListenLeft
  <2>2. pipe = "open" <=> fut # <<>>
    BY DEF TearInv, ListenLeft, HeldByFutures
  <2> QED
    BY <2>1, <2>2
<1> QED
  BY <1>1, TearInvHolds, PTL

(* The assertion in Poll::drop fails only behind an interrupted            *)
(* unregister, or when ArgExecutor has forgotten futures.                  *)
THEOREM AssertionFailsRarely == TearSpec => []AssertionFailsOnlyAfter
<1>1. TearInv => AssertionFailsOnlyAfter
  BY DEF TearInv
<1> QED
  BY <1>1, TearInvHolds, PTL
=============================================================================
