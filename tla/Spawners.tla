------------------------------ MODULE Spawners ------------------------------
(***************************************************************************)
(* The spawner handles of src/src/executor.rs (ArgSpawner, BoxSpawner).  A *)
(* spawner holds the address of an executor, which set_spawner writes; the *)
(* executor remembers the spawner and resets it in its Drop.  The borrow   *)
(* checker makes spawners outlive the executors that remember them, but    *)
(* not the reverse, and set_spawner takes &self: a client may call it      *)
(* again with another spawner, hand one spawner to two executors, and move *)
(* an executor afterwards.  The address is then the only link left.        *)
(*                                                                         *)
(* The clients here do all of that.  What the executors do with the tasks  *)
(* is module Executor; here tasks are counted.                             *)
(***************************************************************************)
EXTENDS Naturals

CONSTANTS
  Exec,       \* executors; each is created and dropped once
  Spawner,
  Address,    \* places an executor can be at
  TasksMax,   \* the capacity of each executor
  None

ASSUME TasksMaxAssumption == TasksMax \in Nat
ASSUME NoneAssumption == None \notin Exec \cup Spawner \cup Address

VARIABLES
  born,       \* the executors created so far
  addr,       \* executor |-> where it is, None before and after its life
  spawner,    \* ArgExecutor::spawner, BoxExecutor::spawner
  tasks,      \* executor |-> the number of its tasks
  ctx,        \* spawner |-> SpawnerData::ctx, or None
  wild,       \* the spawner whose ctx was followed to where no executor is
  home,       \* history: the executor that took the spawner last
  forsaken,   \* history: spawners whose home took another one or moved
  shared      \* history: spawners taken while another executor had them

vars == <<born, addr, spawner, tasks, ctx, wild, home, forsaken, shared>>

TypeOK ==
  /\ born \subseteq Exec
  /\ addr \in [Exec -> Address \cup {None}]
  /\ spawner \in [Exec -> Spawner \cup {None}]
  /\ tasks \in [Exec -> 0 .. TasksMax]
  /\ ctx \in [Spawner -> Address \cup {None}]
  /\ wild \in Spawner \cup {None}
  /\ home \in [Spawner -> Exec \cup {None}]
  /\ forsaken \subseteq Spawner /\ shared \subseteq Spawner

Init ==
  /\ born = {} /\ addr = [e \in Exec |-> None]
  /\ spawner = [e \in Exec |-> None] /\ tasks = [e \in Exec |-> 0]
  /\ ctx = [s \in Spawner |-> None] /\ wild = None
  /\ home = [s \in Spawner |-> None] /\ forsaken = {} /\ shared = {}

Alive(e) == addr[e] # None
Vacant(a) == \A e \in Exec : addr[e] # a

-----------------------------------------------------------------------------
(* ArgExecutor::new, BoxExecutor::new. *)
New(e, a) ==
  /\ wild = None
  /\ e \notin born /\ Vacant(a)
  /\ born' = born \cup {e}
  /\ addr' = [addr EXCEPT ![e] = a]
  /\ UNCHANGED <<spawner, tasks, ctx, wild, home, forsaken, shared>>

(* The client moves the executor, which nothing forbids it to. *)
Move(e, a) ==
  /\ wild = None
  /\ Alive(e) /\ Vacant(a)
  /\ addr' = [addr EXCEPT ![e] = a]
  /\ forsaken' = forsaken \cup {s \in Spawner : home[s] = e}
  /\ UNCHANGED <<born, spawner, tasks, ctx, wild, home, shared>>

(* History of the call e.set_spawner(s). *)
Taken(e, s) ==
  /\ home' = [home EXCEPT ![s] = e]
  /\ forsaken' = (forsaken \cup {r \in Spawner : home[r] = e}) \ {s}
  /\ shared' = IF \E d \in Exec \ {e} : spawner[d] = s
               THEN shared \cup {s} ELSE shared \ {s}

(* Mutant: the executor does not remember the spawner. *)
MutSetSpawnerForgets(e, s) ==
  /\ wild = None
  /\ Alive(e)
  /\ ctx' = [ctx EXCEPT ![s] = addr[e]]
  /\ Taken(e, s)
  /\ UNCHANGED <<born, addr, spawner, tasks, wild>>

(* Mutant: a spawner that was set before keeps its data. *)
MutSetSpawnerOnce(e, s) ==
  /\ wild = None
  /\ Alive(e)
  /\ spawner' = [spawner EXCEPT ![e] = s]
  /\ ctx' = [ctx EXCEPT ![s] = IF home[s] = None THEN addr[e] ELSE @]
  /\ Taken(e, s)
  /\ UNCHANGED <<born, addr, tasks, wild>>

(* set_spawner: what was in either cell before is overwritten. *)
SetSpawner(e, s) ==
  /\ wild = None
  /\ Alive(e)
  /\ spawner' = [spawner EXCEPT ![e] = s]
  /\ ctx' = [ctx EXCEPT ![s] = addr[e]]
  /\ Taken(e, s)
  /\ UNCHANGED <<born, addr, tasks, wild>>

(* Tasks::add, which returns Err(()) when the slab is full. *)
Add(e) == tasks' = [tasks EXCEPT ![e] = IF @ = TasksMax THEN @ ELSE @ + 1]

(* spawn, spawn_boxed: Err(()) when the spawner is not set ... *)
SpawnUnset(s) ==
  /\ wild = None
  /\ ctx[s] = None
  /\ UNCHANGED vars

(* ... otherwise ctx is taken for the address of the executor, whichever   *)
(* one is there ...                                                        *)
SpawnThrough(s, e) ==
  /\ wild = None
  /\ ctx[s] # None /\ ctx[s] = addr[e]
  /\ Add(e)
  /\ UNCHANGED <<born, addr, spawner, ctx, wild, home, forsaken, shared>>

(* ... or none. *)
SpawnWild(s) ==
  /\ wild = None
  /\ ctx[s] # None /\ Vacant(ctx[s])
  /\ wild' = s
  /\ UNCHANGED <<born, addr, spawner, tasks, ctx, home, forsaken, shared>>

(* A task of e ends (module Executor). *)
TaskDone(e) ==
  /\ wild = None
  /\ Alive(e) /\ tasks[e] > 0
  /\ tasks' = [tasks EXCEPT ![e] = @ - 1]
  /\ UNCHANGED <<born, addr, spawner, ctx, wild, home, forsaken, shared>>

(* Mutant: the spawner is not reset. *)
MutDropKeepsCtx(e) ==
  /\ wild = None
  /\ Alive(e)
  /\ addr' = [addr EXCEPT ![e] = None]
  /\ spawner' = [spawner EXCEPT ![e] = None]
  /\ tasks' = [tasks EXCEPT ![e] = 0]
  /\ UNCHANGED <<born, ctx, wild, home, forsaken, shared>>

(* Drop: reset the spawner that is remembered, whoever set it last. *)
Drop(e) ==
  /\ wild = None
  /\ Alive(e)
  /\ ctx' = [s \in Spawner |-> IF s = spawner[e] THEN None ELSE ctx[s]]
  /\ addr' = [addr EXCEPT ![e] = None]
  /\ spawner' = [spawner EXCEPT ![e] = None]
  /\ tasks' = [tasks EXCEPT ![e] = 0]
  /\ UNCHANGED <<born, wild, home, forsaken, shared>>

(* Behind a call through a stray address nothing is known. *)
Stopped == wild # None /\ UNCHANGED vars

Next ==
  \/ \E e \in Exec :
       \/ \E a \in Address : New(e, a) \/ Move(e, a)
       \/ \E s \in Spawner : SetSpawner(e, s)
       \/ TaskDone(e) \/ Drop(e)
  \/ \E s \in Spawner :
       SpawnUnset(s) \/ SpawnWild(s) \/ \E e \in Exec : SpawnThrough(s, e)
  \/ Stopped

Spec == Init /\ [][Next]_vars

-----------------------------------------------------------------------------
(***************************************************************************)
(* Properties.                                                             *)
(***************************************************************************)

(* A spawner that is set leads to the executor that took it last, and not  *)
(* to another one that has come to live at the same address, unless that   *)
(* executor moved or took another spawner since.  Then, and only then, the *)
(* reset in Drop is not enough.                                            *)
SetMeansHome ==
  \A s \in Spawner \ forsaken :
    ctx[s] # None => home[s] # None /\ ctx[s] = addr[home[s]]

(* spawn() refuses a task for want of an executor only when there is none: *)
(* a spawner is unset while its home is alive only if two executors shared *)
(* it and the other one was dropped.                                       *)
UnsetMeansHomeless ==
  \A s \in Spawner : ctx[s] = None /\ home[s] # None /\ Alive(home[s]) =>
    s \in shared

(* spawn() follows an address nobody is at only through such a spawner. *)
WildMeansForsaken == wild # None => wild \in forsaken
=============================================================================
