--------------------------- MODULE SpawnersProofs ---------------------------
(***************************************************************************)
(* Proofs about module Spawners, for every number of executors, spawners   *)
(* and addresses and every capacity.                                       *)
(***************************************************************************)
EXTENDS Spawners, TLAPS

(* What is known of executors that were never created: nothing.  An        *)
(* executor is somewhere only once it was created, and only such an        *)
(* executor can have taken a spawner.                                      *)
NothingUnborn ==
  /\ \A e \in Exec : Alive(e) => e \in born
  /\ \A s \in Spawner : home[s] # None => home[s] \in born

(* The executor that took a spawner last remembers it as long as it lives, *)
(* unless it took another one: its Drop will reset this very spawner.      *)
HomeRemembers ==
  \A s \in Spawner \ forsaken :
    home[s] # None /\ Alive(home[s]) => spawner[home[s]] = s

(* An executor that remembers a spawner another one took last shares it. *)
OthersShare ==
  \A e \in Exec, s \in Spawner : spawner[e] = s /\ home[s] # e => s \in shared

(* The inductive invariant. *)
Inv ==
  /\ TypeOK
  /\ NothingUnborn
  /\ HomeRemembers
  /\ OthersShare
  /\ SetMeansHome
  /\ UnsetMeansHomeless
  /\ WildMeansForsaken

-----------------------------------------------------------------------------
(* The invariant holds before the first executor is created. *)
LEMMA InitInv == Init => Inv
  BY TasksMaxAssumption, NoneAssumption
  DEF Init, Inv, TypeOK, NothingUnborn, HomeRemembers, OthersShare, SetMeansHome,
      UnsetMeansHomeless, WildMeansForsaken, Alive

(* A new executor is nobody's home yet. *)
LEMMA NewInv ==
  ASSUME Inv, NEW e \in Exec, NEW a \in Address, New(e, a)
  PROVE  Inv'
<1> USE NoneAssumption DEF Inv, New, Alive
<1>1. addr[e] = None /\ \A s \in Spawner : home[s] # e
  BY DEF NothingUnborn
<1>2. TypeOK' /\ NothingUnborn'
  BY DEF TypeOK, NothingUnborn
<1>3. HomeRemembers' /\ OthersShare'
  BY <1>1 DEF TypeOK, HomeRemembers, OthersShare
<1>4. SetMeansHome' /\ UnsetMeansHomeless' /\ WildMeansForsaken'
  BY <1>1 DEF TypeOK, SetMeansHome, UnsetMeansHomeless, WildMeansForsaken
<1> QED
  BY <1>2, <1>3, <1>4

(* A move leaves the spawners of the executor with its old address. *)
LEMMA MoveInv ==
  ASSUME Inv, NEW e \in Exec, NEW a \in Address, Move(e, a)
  PROVE  Inv'
<1> USE NoneAssumption DEF Inv, Move, Alive
<1>1. TypeOK' /\ NothingUnborn'
  BY DEF TypeOK, NothingUnborn
<1>2. HomeRemembers' /\ OthersShare'
  BY DEF TypeOK, HomeRemembers, OthersShare
<1>3. SetMeansHome' /\ UnsetMeansHomeless' /\ WildMeansForsaken'
  BY DEF TypeOK, SetMeansHome, UnsetMeansHomeless, WildMeansForsaken
<1> QED
  BY <1>1, <1>2, <1>3

(* set_spawner: the spawner gets a new home, and the executor forsakes the *)
(* spawners it took before.                                                *)
LEMMA SetSpawnerInv ==
  ASSUME Inv, NEW e \in Exec, NEW s \in Spawner, SetSpawner(e, s)
  PROVE  Inv'
<1> USE NoneAssumption DEF Inv, SetSpawner, Taken, Alive
<1>1. TypeOK' /\ NothingUnborn'
  BY DEF TypeOK, NothingUnborn
<1>2. HomeRemembers'
  BY DEF TypeOK, HomeRemembers
<1>3. OthersShare'
  BY DEF TypeOK, OthersShare
<1>4. SetMeansHome'
  BY DEF TypeOK, SetMeansHome
<1>5. UnsetMeansHomeless'
  BY DEF TypeOK, UnsetMeansHomeless
<1>6. WildMeansForsaken'
  BY DEF WildMeansForsaken
<1> QED
  BY <1>1, <1>2, <1>3, <1>4, <1>5, <1>6

(* Drop: the spawner that is reset is the one whose home the executor is,  *)
(* or a shared one.                                                        *)
LEMMA DropInv ==
  ASSUME Inv, NEW e \in Exec, Drop(e)
  PROVE  Inv'
<1> USE NoneAssumption DEF Inv, Drop, Alive
<1>1. TypeOK' /\ NothingUnborn'
  BY TasksMaxAssumption DEF TypeOK, NothingUnborn
<1>2. HomeRemembers' /\ OthersShare'
  BY DEF TypeOK, HomeRemembers, OthersShare
<1>3. SetMeansHome'
  BY DEF TypeOK, HomeRemembers, SetMeansHome
<1>4. UnsetMeansHomeless'
  BY DEF TypeOK, OthersShare, UnsetMeansHomeless
<1>5. WildMeansForsaken'
  BY DEF WildMeansForsaken
<1> QED
  BY <1>1, <1>2, <1>3, <1>4, <1>5

(* spawn and the end of a task change the number of tasks only. *)
LEMMA TasksInv ==
  ASSUME Inv, NEW e \in Exec,
         TaskDone(e) \/ \E s \in Spawner : SpawnThrough(s, e)
  PROVE  Inv'
<1>1. tasks' \in [Exec -> 0 .. TasksMax]
  BY TasksMaxAssumption DEF Inv, TypeOK, TaskDone, SpawnThrough, Add
<1>2. UNCHANGED <<born, addr, spawner, ctx, wild, home, forsaken, shared>>
  BY DEF TaskDone, SpawnThrough
<1> QED
  BY <1>1, <1>2
  DEF Inv, TypeOK, NothingUnborn, HomeRemembers, OthersShare, SetMeansHome,
      UnsetMeansHomeless, WildMeansForsaken, Alive

(* A spawner that leads nowhere does not lead home. *)
LEMMA SpawnWildInv ==
  ASSUME Inv, NEW s \in Spawner, SpawnWild(s)
  PROVE  Inv'
<1>1. s \in forsaken
  BY DEF Inv, TypeOK, SetMeansHome, SpawnWild, Vacant
<1>2. wild' = s /\ UNCHANGED <<born, addr, spawner, tasks, ctx, home, forsaken, shared>>
  BY DEF SpawnWild
<1> QED
  BY <1>1, <1>2
  DEF Inv, TypeOK, NothingUnborn, HomeRemembers, OthersShare, SetMeansHome,
      UnsetMeansHomeless, WildMeansForsaken, Alive

(* Every step preserves the invariant. *)
LEMMA NextInv == Inv /\ [Next]_vars => Inv'
<1> SUFFICES ASSUME Inv, [Next]_vars PROVE Inv'
  OBVIOUS
<1>1. CASE UNCHANGED vars
  BY <1>1
  DEF vars, Inv, TypeOK, NothingUnborn, HomeRemembers, OthersShare, SetMeansHome,
      UnsetMeansHomeless, WildMeansForsaken, Alive
<1>2. CASE Next
  BY <1>1, <1>2, NewInv, MoveInv, SetSpawnerInv, DropInv, TasksInv, SpawnWildInv
  DEF Next, SpawnUnset, Stopped
<1> QED
  BY <1>1, <1>2

(* The inductive invariant holds in every reachable state. *)
THEOREM InvHolds == Spec => []Inv
  BY InitInv, NextInv, PTL DEF Spec

(* However clients set, share, move and drop: a spawner that is set leads  *)
(* to the executor that took it last, unless that one moved or took        *)
(* another spawner.                                                        *)
THEOREM LeadsHome == Spec => []SetMeansHome
<1>1. Inv => SetMeansHome
  BY DEF Inv
<1> QED
  BY <1>1, InvHolds, PTL

(* spawn refuses for want of an executor next to a living home only when   *)
(* the spawner was shared.                                                 *)
THEOREM RefusesOnlyShared == Spec => []UnsetMeansHomeless
<1>1. Inv => UnsetMeansHomeless
  BY DEF Inv
<1> QED
  BY <1>1, InvHolds, PTL

(* The unsafe dereference in spawn meets no executor only through a        *)
(* spawner whose home moved or took another one.                           *)
THEOREM StraysOnlyForsaken == Spec => []WildMeansForsaken
<1>1. Inv => WildMeansForsaken
  BY DEF Inv
<1> QED
  BY <1>1, InvHolds, PTL
=============================================================================
