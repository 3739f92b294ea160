---------------------------- MODULE WakersProofs ----------------------------
(***************************************************************************)
(* Proofs about module Wakers, for every set of threads and every bound on *)
(* the clones.  What other threads may do with a checked waker is the      *)
(* parameter CheckedOps; the count is exact under the hypothesis that they *)
(* do not consume it (run `wakers_checked' shows that it is needed).       *)
(***************************************************************************)
EXTENDS Wakers, FiniteSetTheorems, TLAPS

(* Only the owner has a load and a store, unless the waker is an Arc, and  *)
(* nobody changes the count between them.                                  *)
OnlyOwnerUpdates ==
  \A th \in Thread : update[th] # NoUpdate => th = Owner /\ kind # "arc"
LoadIsFresh == update[Owner] # NoUpdate => update[Owner].seen = count

(* The count is one plus the clones, but for the update in progress. *)
CountWillBeExact == count + update[Owner].add = 1 + Cardinality(Outstanding)

(* The inductive invariant. *)
Inv ==
  /\ TypeOK
  /\ OnlyOwnerUpdates
  /\ LoadIsFresh
  /\ CountWillBeExact

-----------------------------------------------------------------------------
(* Creating and dropping a clone change the number of clones by one. *)
LEMMA OutstandingCounted ==
  ASSUME TypeOK, NEW c \in Clone
  PROVE  /\ Cardinality(Outstanding) \in Nat
         /\ \A th \in Thread :
              c \notin Outstanding /\ holder' = [holder EXCEPT ![c] = th] =>
                Cardinality(Outstanding') = Cardinality(Outstanding) + 1
         /\ \A th \in Thread :
              c \in Outstanding /\ holder' = [holder EXCEPT ![c] = th] =>
                Outstanding' = Outstanding
         /\ c \in Outstanding /\ holder' = [holder EXCEPT ![c] = None] =>
              /\ Cardinality(Outstanding') = Cardinality(Outstanding) - 1
              /\ Cardinality(Outstanding) > 0
<1>1. IsFiniteSet(Outstanding) /\ Cardinality(Outstanding) \in Nat
  BY CloneAssumption, FS_Subset, FS_CardinalityType DEF Outstanding
<1>2. ASSUME NEW th \in Thread, holder' = [holder EXCEPT ![c] = th]
      PROVE  Outstanding' = Outstanding \cup {c}
  BY <1>2, ThreadAssumption DEF Outstanding, TypeOK
<1>3. ASSUME c \in Outstanding, holder' = [holder EXCEPT ![c] = None]
      PROVE  Outstanding' = Outstanding \ {c}
  BY <1>3 DEF Outstanding, TypeOK
<1>4. ASSUME NEW th \in Thread, c \notin Outstanding, holder' = [holder EXCEPT ![c] = th]
      PROVE  Cardinality(Outstanding') = Cardinality(Outstanding) + 1
  BY <1>1, <1>2, <1>4, FS_AddElement
<1>5. ASSUME c \in Outstanding, holder' = [holder EXCEPT ![c] = None]
      PROVE  /\ Cardinality(Outstanding') = Cardinality(Outstanding) - 1
             /\ Cardinality(Outstanding) > 0
  <2>1. Cardinality(Outstanding) # 0
    BY <1>1, <1>5, FS_EmptySet
  <2>2. Cardinality(Outstanding \ {c}) = Cardinality(Outstanding) - 1
    BY <1>1, <1>5, FS_RemoveElement
  <2> QED
    <3>1. Cardinality(Outstanding') = Cardinality(Outstanding) - 1
      BY <1>3, <1>5, <2>2
    <3>2. Cardinality(Outstanding) > 0
      BY <1>1, <2>1
    <3> QED
      BY <3>1, <3>2
<1> QED
  BY <1>1, <1>2, <1>4, <1>5

(* The executor's own waker is the only one at first. *)
LEMMA InitInv == Init => Inv
<1> SUFFICES ASSUME Init PROVE Inv
  OBVIOUS
<1>1. Outstanding = {}
  BY DEF Init, Outstanding
<1>2. Cardinality(Outstanding) = 0
  BY <1>1, FS_EmptySet
<1> QED
  BY <1>2, ThreadAssumption
  DEF Init, Inv, TypeOK, OnlyOwnerUpdates, LoadIsFresh, CountWillBeExact, NoUpdate

(* One more or one less by a thread that may: at once for an Arc, in two   *)
(* steps for the owner's Rc.                                               *)
LEMMA UpdateCountInv ==
  ASSUME Inv, NEW th \in Thread, NEW n \in {-1, 1}, UpdateCount(th, n),
         update[th] = NoUpdate, kind # "arc" => th = Owner,
         UNCHANGED kind, holder' \in [Clone -> Thread \cup {None}], dead' \subseteq Thread,
         Cardinality(Outstanding) \in Nat,
         Cardinality(Outstanding') = Cardinality(Outstanding) + n,
         n = -1 => Cardinality(Outstanding) > 0
  PROVE  Inv'
<1> USE ThreadAssumption DEF Inv
<1>1. CASE kind = "arc"
  <2>1. count' = count + n /\ UNCHANGED update
    BY <1>1 DEF UpdateCount
  <2>2. CASE update[Owner] = NoUpdate
    <3>1. count = 1 + Cardinality(Outstanding)
      BY <2>2 DEF CountWillBeExact, NoUpdate, TypeOK
    <3> QED
      BY <2>1, <2>2, <3>1
      DEF TypeOK, OnlyOwnerUpdates, LoadIsFresh, CountWillBeExact, NoUpdate
  <2>3. CASE update[Owner] # NoUpdate
    BY <1>1, <2>3 DEF OnlyOwnerUpdates
  <2> QED
    BY <2>2, <2>3
<1>2. CASE kind # "arc"
  <2>1. /\ update' = [update EXCEPT ![Owner] = [seen |-> count, add |-> n]]
        /\ UNCHANGED count /\ th = Owner
    BY <1>2 DEF UpdateCount
  <2>2. count = 1 + Cardinality(Outstanding)
    BY <2>1 DEF CountWillBeExact, NoUpdate, TypeOK
  <2>3. TypeOK'
    BY <2>1 DEF TypeOK
  <2>4. update'[Owner] = [seen |-> count, add |-> n]
    BY <2>1 DEF TypeOK
  <2>5. OnlyOwnerUpdates'
    BY <1>2, <2>1 DEF TypeOK, OnlyOwnerUpdates
  <2> QED
    BY <2>1, <2>2, <2>3, <2>4, <2>5 DEF LoadIsFresh, CountWillBeExact
<1> QED
  BY <1>1, <1>2

(* A clone, by a thread whose check does not fail. *)
LEMMA CloneWakerInv ==
  ASSUME Inv, CheckedOps \subseteq {"clone", "wake_by_ref"},
         NEW th \in Thread, NEW c \in Clone, CloneWaker(th, c)
  PROVE  Inv'
<1> USE ThreadAssumption
<1>1. CASE CheckFails(th)
  <2>1. UNCHANGED <<kind, count, update, holder>> /\ dead' = dead \cup {th}
    BY <1>1 DEF CloneWaker
  <2> QED
    BY <2>1 DEF Inv, TypeOK, OnlyOwnerUpdates, LoadIsFresh, CountWillBeExact, Outstanding
<1>2. CASE ~ CheckFails(th)
  <2>1. /\ UpdateCount(th, 1) /\ holder' = [holder EXCEPT ![c] = th]
        /\ UNCHANGED <<dead, kind>> /\ update[th] = NoUpdate /\ c \notin Outstanding
    BY <1>2 DEF CloneWaker, CanCall
  <2>2. kind # "arc" => th = Owner
    BY <1>2 DEF CloneWaker, CanCall, Permitted, CheckFails, Inv, TypeOK
  <2>3. /\ Cardinality(Outstanding) \in Nat
        /\ Cardinality(Outstanding') = Cardinality(Outstanding) + 1
    BY <2>1, OutstandingCounted DEF Inv
  <2>4. holder' \in [Clone -> Thread \cup {None}] /\ dead' \subseteq Thread
    BY <2>1 DEF Inv, TypeOK
  <2> QED
    BY <2>1, <2>2, <2>3, <2>4, UpdateCountInv
<1> QED
  BY <1>1, <1>2

(* wake and drop: no thread consumes a checked waker of the owner's. *)
LEMMA ConsumeInv ==
  ASSUME Inv, CheckedOps \subseteq {"clone", "wake_by_ref"},
         NEW th \in Thread, NEW c \in Clone, Wake(th, c) \/ DropWaker(th, c)
  PROVE  Inv'
<1> USE ThreadAssumption
<1>1. PICK op \in {"wake", "drop"} : Consume(th, op, c)
  BY DEF Wake, DropWaker
<1>2. /\ UpdateCount(th, -1) /\ holder' = [holder EXCEPT ![c] = None]
      /\ UNCHANGED kind /\ update[th] = NoUpdate /\ holder[c] = th
      /\ dead' \in {dead, dead \cup {th}}
  BY <1>1 DEF Consume, CanCall
<1>3. kind # "arc" => th = Owner
  BY <1>1 DEF Consume, CanCall, Permitted, Inv, TypeOK
<1>4. c \in Outstanding
  BY <1>2 DEF Outstanding
<1>5. /\ Cardinality(Outstanding) \in Nat /\ Cardinality(Outstanding) > 0
      /\ Cardinality(Outstanding') = Cardinality(Outstanding) + -1
  BY <1>2, <1>4, OutstandingCounted DEF Inv
<1>6. holder' \in [Clone -> Thread \cup {None}] /\ dead' \subseteq Thread
  BY <1>2 DEF Inv, TypeOK
<1> QED
  BY <1>2, <1>3, <1>5, <1>6, UpdateCountInv

(* The store completes what the load began. *)
LEMMA StoreCountInv ==
  ASSUME Inv, NEW th \in Thread, StoreCount(th)
  PROVE  Inv'
<1> USE ThreadAssumption DEF Inv, StoreCount
<1>1. th = Owner
  BY DEF OnlyOwnerUpdates
<1>2. count' = count + update[Owner].add
  BY <1>1 DEF LoadIsFresh
<1>3. Outstanding' = Outstanding /\ Cardinality(Outstanding) \in Nat
  BY CloneAssumption, FS_Subset, FS_CardinalityType DEF Outstanding
<1>4. count' = 1 + Cardinality(Outstanding)
  BY <1>2 DEF CountWillBeExact
<1>5. NoUpdate.add = 0 /\ NoUpdate \in [seen : Int, add : {-1, 0, 1}]
  BY DEF NoUpdate
<1>6. TypeOK'
  BY <1>3, <1>4, <1>5 DEF TypeOK
<1>7. update'[Owner] = NoUpdate
  BY <1>1 DEF TypeOK
<1>8. OnlyOwnerUpdates'
  BY DEF TypeOK, OnlyOwnerUpdates
<1>9. CountWillBeExact'
  BY <1>3, <1>4, <1>5, <1>7 DEF CountWillBeExact
<1> QED
  BY <1>6, <1>7, <1>8, <1>9 DEF LoadIsFresh

(* Sending a clone and failing a check through a ManuallyDrop count        *)
(* nothing.                                                                *)
LEMMA UncountedInv ==
  ASSUME Inv, NEW th \in Thread,
         \/ WakeByRef(th)
         \/ \E c \in Clone, to \in Thread : Send(c, th, to)
  PROVE  Inv'
<1> USE ThreadAssumption
<1>1. CASE WakeByRef(th)
  BY <1>1 DEF WakeByRef, Inv, TypeOK, OnlyOwnerUpdates, LoadIsFresh, CountWillBeExact,
     Outstanding
<1>2. ASSUME NEW c \in Clone, NEW to \in Thread, Send(c, th, to)
      PROVE  Inv'
  <2>1. UNCHANGED <<kind, count, update, dead>> /\ holder' = [holder EXCEPT ![c] = to]
    BY <1>2 DEF Send
  <2>2. c \in Outstanding
    BY <1>2 DEF Send, Outstanding
  <2>3. Outstanding' = Outstanding
    BY <2>1, <2>2, OutstandingCounted DEF Inv
  <2>4. TypeOK'
    BY <2>1 DEF Inv, TypeOK
  <2> QED
    BY <2>1, <2>3, <2>4 DEF Inv, OnlyOwnerUpdates, LoadIsFresh, CountWillBeExact
<1> QED
  BY <1>1, <1>2

(* Every step preserves the invariant. *)
LEMMA NextInv ==
  ASSUME CheckedOps \subseteq {"clone", "wake_by_ref"}
  PROVE  Inv /\ [Next]_vars => Inv'
<1> SUFFICES ASSUME Inv, [Next]_vars PROVE Inv'
  OBVIOUS
<1>1. CASE UNCHANGED vars
  BY <1>1 DEF vars, Inv, TypeOK, OnlyOwnerUpdates, LoadIsFresh, CountWillBeExact, Outstanding
<1>2. CASE Next
  BY <1>2, CloneWakerInv, ConsumeInv, StoreCountInv, UncountedInv DEF Next
<1> QED
  BY <1>1, <1>2

(* While other threads only clone checked wakers or wake them by reference *)
(* (and the promises about Rc and Arc wakers are kept), the strong count   *)
(* is exact whenever no update is in progress, for any threads and any     *)
(* number of clones: so it never reaches zero early, and the assertion     *)
(* behind a finished task judges by the clones that really exist.          *)
THEOREM CountsStayExact ==
  ASSUME CheckedOps \subseteq {"clone", "wake_by_ref"}
  PROVE  Spec => []CountIsExact
<1>1. Inv => CountIsExact
  BY ThreadAssumption DEF Inv, TypeOK, CountWillBeExact, CountIsExact, NoUpdate
<1>2. Inv /\ [Next]_vars => Inv'
  BY NextInv
<1> QED
  BY <1>1, <1>2, InitInv, PTL DEF Spec
=============================================================================
