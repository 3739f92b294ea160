--------------------------- MODULE ReactorProofs ----------------------------
(***************************************************************************)
(* Proofs about module Reactor, for every number of I/O objects, futures,  *)
(* wakers and registrations.                                               *)
(***************************************************************************)
EXTENDS Reactor, DataLemmas

(* read() and write() borrow their stream exclusively. *)
StreamsBorrowedOnce ==
  \A f, g \in Live :
    futures[f].obj = futures[g].obj /\ Object(f).kind = "stream" => f = g

(* The history `last' is what it says: a future that is still there; on a  *)
(* stream, the one that was polled.                                        *)
LastIsLive ==
  \A h \in Open : handles[h].last # None => handles[h].last \in Borrowers(h)

StreamsLastPolled ==
  \A f \in Live : Object(f).kind = "stream" /\ futures[f].op # "fresh" =>
    Object(f).last = f

(* Between bind_waker and the attempt the poll of a future is alone: its   *)
(* waker is the one that is bound, and FakeReactor::poll is not running.   *)
PolledIsBound ==
  \A f \in Live : futures[f].op = "polled" =>
    /\ ~ polling
    /\ Object(f).last = f
    /\ regs[Object(f).key].waker = futures[f].by
    /\ \A g \in Live : futures[g].op = "polled" => g = f

(* While FakeReactor::poll runs, every object has been made ready and its  *)
(* waker taken, or its event is still to come.                             *)
EventToCome(h) ==
  /\ handles[h].index \in DOMAIN events
  /\ events[handles[h].index][1] = handles[h].key

PollReachesAll ==
  polling => \A h \in Open : Reg(h) = [ready |-> TRUE, waker |-> None] \/ EventToCome(h)

(* The inductive invariant. *)
Inv ==
  /\ TypeOK
  /\ SlabsMatchHandles
  /\ StreamsBorrowedOnce
  /\ LastIsLive
  /\ StreamsLastPolled
  /\ PolledIsBound
  /\ PollReachesAll
  /\ PendingIsArmedOrWoken
  /\ NoWakerWithoutFuture

-----------------------------------------------------------------------------
(* The entries of the slabs, as records. *)
RegType == [ready : BOOLEAN, waker : Waker \cup {None}]
HandleType == [kind : Kinds, key : Key, index : Index, last : Future \cup {None}]
FutureType == [obj : Handle, op : Ops, by : Waker \cup {None}]

LEMMA Types ==
  ASSUME TypeOK
  PROVE  /\ \A k \in DOMAIN regs : k \in Key /\ regs[k] \in RegType
         /\ \A i \in DOMAIN items : i \in Index /\ items[i] \in Interests \X Key
         /\ \A h \in Open : h \in Handle /\ handles[h] \in HandleType
         /\ \A f \in Live : f \in Future /\ futures[f] \in FutureType
         /\ \A i \in DOMAIN events : i \in Index /\ events[i] \in Key \X Interests
  BY DEF TypeOK, IsSlab, Open, Live, RegType, HandleType, FutureType

(* The invariant holds in the state FakeReactor::new builds. *)
LEMMA InitInv == Init => Inv
<1> SUFFICES ASSUME Init PROVE Inv
  OBVIOUS
<1> USE DEF Init, Open, Live
<1>1. TypeOK
  BY EmptySlab DEF TypeOK
<1>2. SlabsMatchHandles
  BY DEF SlabsMatchHandles
<1>3. StreamsBorrowedOnce /\ LastIsLive /\ StreamsLastPolled
  BY DEF StreamsBorrowedOnce, LastIsLive, StreamsLastPolled
<1>4. PolledIsBound /\ PollReachesAll /\ PendingIsArmedOrWoken /\ NoWakerWithoutFuture
  BY DEF PolledIsBound, PollReachesAll, PendingIsArmedOrWoken, NoWakerWithoutFuture
<1> QED
  BY <1>1, <1>2, <1>3, <1>4 DEF Inv

(* AsyncFakeStream::new, AsyncFakeListener::new: the new keys are nobody   *)
(* else's.                                                                 *)
LEMMA NewInv ==
  ASSUME Inv, NEW h \in Handle, NEW kind \in Kinds, New(h, kind)
  PROVE  Inv'
<1> USE DEF Open, Live
<1> DEFINE r == [ready |-> TRUE, waker |-> None]
<1>1. PICK k \in Key \ DOMAIN regs, i \in Index \ DOMAIN items :
        /\ regs' = With(regs, k, r)
        /\ items' = With(items, i, <<Interest(kind), k>>)
        /\ handles' = With(handles, h, [kind |-> kind, key |-> k, index |-> i,
                                        last |-> None])
  BY DEF New, Register
<1>2. /\ h \notin DOMAIN handles /\ ~ polling
      /\ \A f \in DOMAIN futures : futures[f].op # "polled"
      /\ UNCHANGED <<futures, events, polling>>
  BY DEF New, ClientCode
<1>3. TypeOK
  BY DEF Inv
<1>4. /\ DOMAIN regs' = DOMAIN regs \cup {k} /\ regs'[k] = r
      /\ \A x \in DOMAIN regs : regs'[x] = regs[x]
  BY <1>1, WithEntries
<1>5. /\ DOMAIN items' = DOMAIN items \cup {i} /\ items'[i] = <<Interest(kind), k>>
      /\ \A x \in DOMAIN items : items'[x] = items[x]
  BY <1>1 DEF With
<1>6. /\ DOMAIN handles' = DOMAIN handles \cup {h}
      /\ handles'[h] = [kind |-> kind, key |-> k, index |-> i, last |-> None]
      /\ \A x \in DOMAIN handles : handles'[x] = handles[x]
  BY <1>1, <1>2 DEF With
<1>7. TypeOK'
  <2>1. IsSlab(regs', Key, RegType)
    <3>1. r \in RegType /\ IsSlab(regs, Key, RegType)
      BY <1>3 DEF RegType, TypeOK
    <3> HIDE DEF r
    <3> QED
      BY <1>1, <3>1, WithSlab
  <2>2. IsSlab(items', Index, Interests \X Key)
    <3>1. <<Interest(kind), k>> \in Interests \X Key
      BY <1>1 DEF Interests
    <3>2. IsSlab(items, Index, Interests \X Key)
      BY <1>3 DEF TypeOK
    <3> DEFINE v == <<Interest(kind), k>>
               T == Interests \X Key
    <3>3. v \in T /\ IsSlab(items, Index, T) /\ items' = With(items, i, v)
      BY <1>1, <3>1, <3>2
    <3> HIDE DEF v, T
    <3>4. IsSlab(items', Index, T)
      BY <1>1, <3>3, WithSlab
    <3> QED
      BY <3>4 DEF T
  <2>3. IsSlab(handles', Handle, HandleType)
    <3>1. /\ [kind |-> kind, key |-> k, index |-> i, last |-> None] \in HandleType
          /\ IsSlab(handles, Handle, HandleType)
      BY <1>1, <1>3 DEF HandleType, TypeOK
    <3> QED
      BY <1>1, <3>1, WithSlab
  <2> QED
    BY <1>2, <1>3, <2>1, <2>2, <2>3 DEF TypeOK, RegType, HandleType
<1>8. SlabsMatchHandles'
  <2>1. SlabsMatchHandles
    BY DEF Inv
  <2>2. DOMAIN regs' = {handles'[g].key : g \in DOMAIN handles'}
    BY <1>4, <1>6, <2>1 DEF SlabsMatchHandles
  <2>3. DOMAIN items' = {handles'[g].index : g \in DOMAIN handles'}
    BY <1>5, <1>6, <2>1 DEF SlabsMatchHandles
  <2>4. \A g \in DOMAIN handles :
          handles[g].key \in DOMAIN regs /\ handles[g].index \in DOMAIN items
    BY <2>1 DEF SlabsMatchHandles
  <2>5. ASSUME NEW g \in DOMAIN handles'
        PROVE  items'[handles'[g].index] = <<Interest(handles'[g].kind), handles'[g].key>>
    BY <1>5, <1>6, <2>1, <2>4 DEF SlabsMatchHandles
  <2>6. ASSUME NEW g \in DOMAIN handles', NEW j \in DOMAIN handles', g # j
        PROVE  handles'[g].key # handles'[j].key /\ handles'[g].index # handles'[j].index
    BY <1>1, <1>6, <2>1, <2>4, <2>6 DEF SlabsMatchHandles
  <2> QED
    BY <1>2, <1>6, <2>1, <2>2, <2>3, <2>5, <2>6 DEF SlabsMatchHandles
<1>9. /\ \A f \in DOMAIN futures : futures[f].obj \in DOMAIN handles
      /\ \A x \in DOMAIN handles : handles[x].key \in DOMAIN regs
      /\ \A f \in DOMAIN futures : futures[f].obj # h
  BY <1>2 DEF Inv, SlabsMatchHandles
<1>10. /\ \A f \in DOMAIN futures : Object(f)' = Object(f) /\ Object(f).key \in DOMAIN regs
       /\ \A x \in DOMAIN handles : Reg(x)' = Reg(x) /\ Borrowers(x)' = Borrowers(x)
  BY <1>2, <1>4, <1>6, <1>9 DEF Object, Reg, Borrowers
<1>11. StreamsBorrowedOnce' /\ StreamsLastPolled' /\ PolledIsBound' /\ PollReachesAll'
  BY <1>2, <1>4, <1>10 DEF Inv, StreamsBorrowedOnce, StreamsLastPolled, PolledIsBound,
     PollReachesAll
<1>12. LastIsLive'
  BY <1>6, <1>10 DEF Inv, LastIsLive
<1>13. PendingIsArmedOrWoken'
  BY <1>2, <1>4, <1>10 DEF Inv, PendingIsArmedOrWoken, Heard
<1>14. NoWakerWithoutFuture'
  <2>1. Reg(h)'.waker = None
    BY <1>4, <1>6 DEF Reg
  <2> QED
    BY <1>2, <1>6, <1>10, <2>1 DEF Inv, NoWakerWithoutFuture
<1> QED
  BY <1>7, <1>8, <1>11, <1>12, <1>13, <1>14 DEF Inv

(* Drop of an object: nobody else had its keys. *)
LEMMA DropInv ==
  ASSUME Inv, NEW h \in Handle, Drop(h)
  PROVE  Inv'
<1> USE DEF Open, Live
<1>1. /\ ~ polling /\ h \in DOMAIN handles
      /\ \A f \in DOMAIN futures : futures[f].op # "polled" /\ futures[f].obj # h
      /\ UNCHANGED <<futures, events, polling>>
  BY DEF Drop, ClientCode, Borrowers
<1>2. TypeOK
  BY DEF Inv
<1>3. /\ DOMAIN regs' = DOMAIN regs \ {handles[h].key}
      /\ \A x \in DOMAIN regs' : regs'[x] = regs[x]
  BY WithoutEntries DEF Drop
<1>4. /\ DOMAIN items' = DOMAIN items \ {handles[h].index}
      /\ \A x \in DOMAIN items' : items'[x] = items[x]
  BY WithoutEntries DEF Drop, Unregister
<1>5. /\ DOMAIN handles' = DOMAIN handles \ {h}
      /\ \A x \in DOMAIN handles' : handles'[x] = handles[x]
  BY WithoutEntries DEF Drop
<1>6. TypeOK'
  BY <1>1, <1>2, WithoutSlab DEF TypeOK, Drop, Unregister
<1>7. SlabsMatchHandles'
  BY <1>1, <1>3, <1>4, <1>5 DEF Inv, SlabsMatchHandles
<1>8. /\ \A f \in DOMAIN futures : futures[f].obj \in DOMAIN handles'
      /\ \A x \in DOMAIN handles' : handles[x].key \in DOMAIN regs'
  BY <1>1, <1>3, <1>5 DEF Inv, SlabsMatchHandles
<1>9. /\ \A f \in DOMAIN futures : Object(f)' = Object(f) /\ Object(f).key \in DOMAIN regs'
      /\ \A x \in DOMAIN handles' : Reg(x)' = Reg(x) /\ Borrowers(x)' = Borrowers(x)
  BY <1>1, <1>3, <1>5, <1>8 DEF Object, Reg, Borrowers
<1>10. StreamsBorrowedOnce' /\ StreamsLastPolled' /\ PolledIsBound' /\ PollReachesAll'
  BY <1>1, <1>3, <1>9 DEF Inv, StreamsBorrowedOnce, StreamsLastPolled, PolledIsBound,
     PollReachesAll
<1>11. LastIsLive'
  BY <1>5, <1>9 DEF Inv, LastIsLive
<1>12. PendingIsArmedOrWoken'
  BY <1>1, <1>3, <1>9 DEF Inv, PendingIsArmedOrWoken, Heard
<1>13. NoWakerWithoutFuture'
  BY <1>1, <1>5, <1>9 DEF Inv, NoWakerWithoutFuture
<1> QED
  BY <1>6, <1>7, <1>10, <1>11, <1>12, <1>13 DEF Inv

(* A new future: its stream has no other one. *)
LEMMA StartInv ==
  ASSUME Inv, NEW f \in Future, NEW h \in Handle, Start(f, h)
  PROVE  Inv'
<1> USE NoneAssumption DEF Open, Live
<1> DEFINE new == [obj |-> h, op |-> "fresh", by |-> None]
<1>1. /\ ~ polling /\ f \notin DOMAIN futures /\ h \in DOMAIN handles
      /\ handles[h].kind = "stream" => Borrowers(h) = {}
      /\ futures' = With(futures, f, new)
      /\ UNCHANGED <<regs, items, handles, events, polling>>
  BY DEF Start, ClientCode
<1>2. /\ DOMAIN futures' = DOMAIN futures \cup {f} /\ futures'[f] = new
      /\ \A x \in DOMAIN futures : futures'[x] = futures[x]
  BY <1>1 DEF With
<1>3. TypeOK'
  <2>1. new \in FutureType /\ IsSlab(futures, Future, FutureType)
    BY DEF FutureType, Ops, Inv, TypeOK
  <2> HIDE DEF new
  <2>2. IsSlab(futures', Future, FutureType)
    BY <1>1, <2>1, WithSlab
  <2> QED
    BY <1>1, <2>2 DEF Inv, TypeOK, FutureType
<1>4. SlabsMatchHandles'
  BY <1>1, <1>2 DEF Inv, SlabsMatchHandles
<1>5. /\ \A g \in DOMAIN futures : Object(g)' = Object(g)
      /\ \A x \in DOMAIN handles : Reg(x)' = Reg(x) /\ Borrowers(x) \subseteq Borrowers(x)'
      /\ Object(f)' = handles[h]
  BY <1>1, <1>2 DEF Object, Reg, Borrowers
<1>6. StreamsBorrowedOnce'
  <2>1. \A g \in DOMAIN futures : handles[h].kind = "stream" => futures[g].obj # h
    BY <1>1 DEF Borrowers
  <2> QED
    BY <1>2, <1>5, <2>1 DEF Inv, StreamsBorrowedOnce, Object
<1>7. LastIsLive' /\ NoWakerWithoutFuture'
  BY <1>1, <1>2, <1>5 DEF Inv, LastIsLive, NoWakerWithoutFuture, Borrowers
<1>8. StreamsLastPolled' /\ PolledIsBound' /\ PollReachesAll'
  BY <1>1, <1>2, <1>5 DEF Inv, StreamsLastPolled, PolledIsBound, PollReachesAll
<1>9. PendingIsArmedOrWoken'
  <2> SUFFICES ASSUME NEW g \in DOMAIN futures', futures'[g].op = "pending", Heard(g)'
               PROVE  regs'[Object(g)'.key] \in {[ready |-> FALSE, waker |-> futures'[g].by],
                                                 [ready |-> TRUE, waker |-> None]}
    BY DEF PendingIsArmedOrWoken
  <2>1. g \in DOMAIN futures /\ futures'[g] = futures[g]
    BY <1>2
  <2>2. Object(g)' = Object(g) /\ Heard(g)
    BY <1>5, <2>1 DEF Heard
  <2> QED
    BY <1>1, <2>1, <2>2 DEF Inv, PendingIsArmedOrWoken
<1> QED
  BY <1>3, <1>4, <1>6, <1>7, <1>8, <1>9 DEF Inv

(* bind_waker: the registration is this future's from now on. *)
LEMMA BindWakerInv ==
  ASSUME Inv, NEW f \in Future, NEW w \in Waker, BindWaker(f, w)
  PROVE  Inv'
<1> USE NoneAssumption DEF Open, Live
<1>0. TypeOK /\ SlabsMatchHandles
  BY DEF Inv
<1>h. PICK h \in Handle : h = futures[f].obj
  BY <1>0, Types DEF BindWaker, FutureType
<1>k. PICK k \in Key : k = handles[h].key
  BY <1>0, <1>h, Types DEF BindWaker, SlabsMatchHandles, HandleType
<1>1. /\ ~ polling /\ f \in DOMAIN futures
      /\ \A g \in DOMAIN futures : futures[g].op # "polled"
      /\ regs' = [regs EXCEPT ![k] = [regs[k] EXCEPT !.waker = w]]
      /\ futures' = [futures EXCEPT ![f] = [futures[f] EXCEPT !.op = "polled", !.by = w]]
      /\ handles' = [handles EXCEPT ![h] = [handles[h] EXCEPT !.last = f]]
      /\ UNCHANGED <<items, events, polling>>
  BY <1>h, <1>k DEF BindWaker, ClientCode, Object
<1>2. h \in DOMAIN handles /\ k \in DOMAIN regs
  BY <1>0, <1>1, <1>h, <1>k DEF SlabsMatchHandles
<1>3. regs[k] \in RegType /\ handles[h] \in HandleType /\ futures[f] \in FutureType
  BY <1>0, <1>1, <1>2, Types
<1>4. /\ DOMAIN regs' = DOMAIN regs
      /\ regs'[k] = [ready |-> regs[k].ready, waker |-> w]
      /\ \A x \in DOMAIN regs : x # k => regs'[x] = regs[x]
  BY <1>1, <1>2, <1>3 DEF RegType
<1>5. /\ DOMAIN futures' = DOMAIN futures
      /\ futures'[f] = [obj |-> h, op |-> "polled", by |-> w]
      /\ \A x \in DOMAIN futures : x # f => futures'[x] = futures[x]
  BY <1>1, <1>3, <1>h DEF FutureType
<1>6. /\ DOMAIN handles' = DOMAIN handles
      /\ handles'[h] = [kind |-> handles[h].kind, key |-> k,
                        index |-> handles[h].index, last |-> f]
      /\ \A x \in DOMAIN handles : x # h => handles'[x] = handles[x]
  BY <1>1, <1>2, <1>3, <1>k DEF HandleType
<1>7. TypeOK'
  <2>1. IsSlab(regs', Key, RegType)
    BY <1>0, <1>1, <1>2, <1>3 DEF TypeOK, RegType, IsSlab
  <2>2. IsSlab(futures', Future, FutureType)
    BY <1>0, <1>1, <1>3 DEF TypeOK, FutureType, IsSlab, Ops
  <2>3. IsSlab(handles', Handle, HandleType)
    BY <1>0, <1>1, <1>2, <1>3 DEF TypeOK, HandleType, IsSlab
  <2> QED
    BY <1>0, <1>1, <2>1, <2>2, <2>3 DEF TypeOK, RegType, HandleType, FutureType
<1>8. SlabsMatchHandles'
  <2>1. /\ \A x \in DOMAIN handles : handles'[x].key = handles[x].key
        /\ \A x \in DOMAIN handles : handles'[x].index = handles[x].index
        /\ \A x \in DOMAIN handles : handles'[x].kind = handles[x].kind
        /\ \A g \in DOMAIN futures : futures'[g].obj = futures[g].obj
    BY <1>5, <1>6, <1>h, <1>k
  <2> QED
    BY <1>0, <1>1, <1>4, <1>5, <1>6, <2>1 DEF SlabsMatchHandles
<1>9. /\ \A x \in DOMAIN handles : Borrowers(x)' = Borrowers(x)
      /\ \A x \in DOMAIN handles : x # h => Reg(x)' = Reg(x)
      /\ Reg(h)'.waker = w
      /\ f \in Borrowers(h)
  <2>1. \A x \in DOMAIN handles : x # h => handles[x].key \in DOMAIN regs /\ handles[x].key # k
    BY <1>0, <1>2, <1>k DEF SlabsMatchHandles
  <2>2. \A x \in DOMAIN handles : x # h => Reg(x)' = Reg(x)
    BY <1>4, <1>6, <2>1 DEF Reg
  <2>3. Reg(h)'.waker = w
    BY <1>4, <1>6 DEF Reg
  <2>4. \A g \in DOMAIN futures : futures'[g].obj = futures[g].obj
    BY <1>5, <1>h
  <2>5. \A x \in DOMAIN handles : Borrowers(x)' = Borrowers(x)
    BY <1>5, <2>4 DEF Borrowers
  <2>6. f \in Borrowers(h)
    BY <1>1, <1>h DEF Borrowers
  <2> QED
    BY <2>2, <2>3, <2>5, <2>6
<1>10. /\ \A g \in DOMAIN futures : futures[g].obj \in DOMAIN handles
       /\ \A g \in DOMAIN futures : futures'[g].obj = futures[g].obj
       /\ \A g \in DOMAIN futures : Object(g)'.kind = Object(g).kind
       /\ \A g \in DOMAIN futures : Object(g)'.key = Object(g).key
       /\ \A g \in DOMAIN futures : Object(g)'.last = IF futures[g].obj = h THEN f ELSE Object(g).last
  BY <1>0, <1>5, <1>6, <1>h, <1>k DEF SlabsMatchHandles, Object
<1>11. StreamsBorrowedOnce'
  BY <1>5, <1>10 DEF Inv, StreamsBorrowedOnce
<1>12. StreamsLastPolled'
  BY <1>1, <1>5, <1>10, <1>h DEF Inv, StreamsLastPolled, StreamsBorrowedOnce
<1>13. LastIsLive'
  BY <1>6, <1>9 DEF Inv, LastIsLive
<1>14. PolledIsBound'
  <2>1. \A g \in DOMAIN futures' : futures'[g].op = "polled" => g = f
    BY <1>1, <1>5
  <2>2. Object(f)' = handles'[h] /\ futures'[f].by = w
    BY <1>5 DEF Object
  <2>3. Object(f)'.last = f /\ regs'[Object(f)'.key].waker = futures'[f].by
    BY <1>4, <1>6, <2>2
  <2> QED
    BY <1>1, <2>1, <2>3 DEF PolledIsBound
<1>15. PollReachesAll'
  BY <1>1 DEF PollReachesAll
<1>16. PendingIsArmedOrWoken'
  <2> SUFFICES ASSUME NEW g \in DOMAIN futures, futures'[g].op = "pending", Heard(g)'
               PROVE  regs'[Object(g)'.key] \in {[ready |-> FALSE, waker |-> futures'[g].by],
                                                 [ready |-> TRUE, waker |-> None]}
    BY <1>5 DEF PendingIsArmedOrWoken
  <2>1. g # f /\ futures'[g] = futures[g]
    BY <1>5
  <2>2. futures[g].obj # h
    BY <1>1, <1>10, <2>1, <1>h DEF Inv, StreamsBorrowedOnce, Heard
  <2>3. Heard(g)
    BY <1>10, <2>2 DEF Heard
  <2>4. regs'[Object(g)'.key] = regs[Object(g).key]
    BY <1>9, <1>10, <2>2 DEF Reg, Object
  <2> QED
    BY <2>1, <2>3, <2>4 DEF Inv, PendingIsArmedOrWoken
<1>17. NoWakerWithoutFuture'
  <2> SUFFICES ASSUME NEW x \in DOMAIN handles, Reg(x)'.waker # None
               PROVE  /\ handles'[x].last \in Borrowers(x)'
                      /\ Reg(x)'.waker = futures'[handles'[x].last].by
    BY <1>6 DEF NoWakerWithoutFuture
  <2>1. CASE x = h
    <3>1. handles'[x].last = f /\ futures'[f].by = w
      BY <2>1, <1>5, <1>6
    <3>2. f \in Borrowers(x)' /\ Reg(x)'.waker = w
      BY <2>1, <1>2, <1>9
    <3> QED
      BY <3>1, <3>2
  <2>2. CASE x # h
    <3>1. /\ handles[x].last \in Borrowers(x)
          /\ Reg(x).waker = futures[handles[x].last].by
      BY <2>2, <1>9 DEF Inv, NoWakerWithoutFuture
    <3>2. handles[x].last # f /\ handles[x].last \in DOMAIN futures
      BY <2>2, <3>1, <1>h DEF Borrowers
    <3> QED
      BY <2>2, <3>1, <3>2, <1>5, <1>6, <1>9
  <2> QED
    BY <2>1, <2>2
<1> QED
  BY <1>7, <1>8, <1>11, <1>12, <1>13, <1>14, <1>15, <1>16, <1>17 DEF Inv

(* The attempt: it returns Pending only with the object not ready and the  *)
(* waker of this poll bound.                                               *)
LEMMA AttemptInv ==
  ASSUME Inv, NEW f \in Future, NotReady(f) \/ WouldBlock(f) \/ Complete(f)
  PROVE  Inv'
<1> USE NoneAssumption DEF Open, Live
<1>0. TypeOK /\ SlabsMatchHandles /\ f \in DOMAIN futures /\ futures[f].op = "polled"
  BY DEF Inv, NotReady, WouldBlock, Complete, Polled
<1>h. PICK h \in Handle : h = futures[f].obj
  BY <1>0, Types DEF FutureType
<1>k. PICK k \in Key : k = handles[h].key
  BY <1>0, <1>h, Types DEF SlabsMatchHandles, HandleType
<1>1. h \in DOMAIN handles /\ k \in DOMAIN regs
  BY <1>0, <1>h, <1>k DEF SlabsMatchHandles
<1>2. regs[k] \in RegType /\ handles[h] \in HandleType /\ futures[f] \in FutureType
  BY <1>0, <1>1, Types
<1>3. /\ ~ polling /\ handles[h].last = f /\ regs[k].waker = futures[f].by
      /\ \A g \in DOMAIN futures : futures[g].op = "polled" => g = f
  BY <1>0, <1>h, <1>k DEF Inv, PolledIsBound, Object
<1>4. UNCHANGED <<items, handles, events, polling>>
  BY DEF NotReady, WouldBlock, Complete
<1>5. PICK op \in {"pending", "done"} :
        futures' = [futures EXCEPT ![f] = [futures[f] EXCEPT !.op = op]]
  BY DEF NotReady, WouldBlock, Complete
<1>6. /\ DOMAIN futures' = DOMAIN futures
      /\ futures'[f] = [obj |-> h, op |-> op, by |-> futures[f].by]
      /\ \A x \in DOMAIN futures : x # f => futures'[x] = futures[x]
  BY <1>0, <1>2, <1>5, <1>h DEF FutureType
<1>7. /\ IsSlab(regs', Key, RegType)
      /\ DOMAIN regs' = DOMAIN regs
      /\ regs'[k].waker = regs[k].waker
      /\ \A x \in DOMAIN regs : x # k => regs'[x] = regs[x]
      /\ op = "pending" => regs'[k] = [ready |-> FALSE, waker |-> futures[f].by]
  <2>1. IsSlab(regs, Key, RegType)
    BY <1>0 DEF TypeOK, RegType
  <2>2. CASE WouldBlock(f)
    <3>0. Object(f).key = k
      BY <1>h, <1>k DEF Object
    <3>1. regs' = [regs EXCEPT ![k] = [regs[k] EXCEPT !.ready = FALSE]]
      BY <2>2, <3>0 DEF WouldBlock
    <3>2. /\ DOMAIN regs' = DOMAIN regs
          /\ regs'[k] = [ready |-> FALSE, waker |-> regs[k].waker]
          /\ \A x \in DOMAIN regs : x # k => regs'[x] = regs[x]
      BY <1>1, <1>2, <3>1 DEF RegType
    <3>3. [regs[k] EXCEPT !.ready = FALSE] \in RegType
      BY <1>2 DEF RegType
    <3>4. IsSlab(regs', Key, RegType)
      BY <1>1, <2>1, <3>1, <3>3, ExceptSlab
    <3> QED
      BY <1>3, <3>2, <3>4
  <2>3. CASE NotReady(f)
    <3>1. UNCHANGED regs /\ ~ regs[k].ready
      BY <2>3, <1>h, <1>k DEF NotReady, IsReady, Object
    <3>2. regs[k] = [ready |-> FALSE, waker |-> futures[f].by]
      BY <1>2, <1>3, <3>1 DEF RegType
    <3> QED
      BY <2>1, <3>1, <3>2
  <2>4. CASE Complete(f)
    <3>1. UNCHANGED regs /\ op = "done"
      BY <2>4, <1>2, <1>5, <1>6, <1>0 DEF Complete, FutureType
    <3> QED
      BY <2>1, <3>1
  <2> QED
    BY <2>2, <2>3, <2>4
<1>8. TypeOK'
  <2>1. IsSlab(futures', Future, FutureType)
    <3>1. [futures[f] EXCEPT !.op = op] \in FutureType
      BY <1>2, <1>5 DEF FutureType, Ops
    <3>2. IsSlab(futures, Future, FutureType)
      BY <1>0 DEF TypeOK, FutureType
    <3> QED
      BY <1>0, <1>5, <3>1, <3>2, ExceptSlab
  <2> QED
    BY <1>0, <1>4, <1>7, <2>1 DEF TypeOK, RegType, FutureType
<1>9. /\ \A g \in DOMAIN futures : futures'[g].obj = futures[g].obj /\ futures'[g].by = futures[g].by
      /\ \A g \in DOMAIN futures : Object(g)' = Object(g) /\ futures[g].obj \in DOMAIN handles
      /\ \A x \in DOMAIN handles : Borrowers(x)' = Borrowers(x) /\ handles[x].key \in DOMAIN regs
      /\ \A x \in DOMAIN handles : Reg(x)'.waker = Reg(x).waker
  <2>1. \A g \in DOMAIN futures : futures'[g].obj = futures[g].obj /\ futures'[g].by = futures[g].by
    BY <1>6, <1>h
  <2>2. \A x \in DOMAIN handles : handles[x].key \in DOMAIN regs
    BY <1>0 DEF SlabsMatchHandles
  <2>3. \A x \in DOMAIN handles : Reg(x)'.waker = Reg(x).waker
    BY <1>4, <1>7, <2>2 DEF Reg
  <2>4. \A g \in DOMAIN futures : Object(g)' = Object(g) /\ futures[g].obj \in DOMAIN handles
    BY <1>0, <1>4, <2>1 DEF Object, SlabsMatchHandles
  <2>5. \A x \in DOMAIN handles : Borrowers(x)' = Borrowers(x)
    BY <1>6, <2>1 DEF Borrowers
  <2> QED
    BY <2>1, <2>2, <2>3, <2>4, <2>5
<1>10. SlabsMatchHandles'
  BY <1>0, <1>4, <1>6, <1>7, <1>9 DEF SlabsMatchHandles
<1>11. StreamsBorrowedOnce'
  BY <1>6, <1>9 DEF Inv, StreamsBorrowedOnce
<1>12. LastIsLive'
  BY <1>4, <1>9 DEF Inv, LastIsLive
<1>13. StreamsLastPolled'
  <2> SUFFICES ASSUME NEW g \in DOMAIN futures, Object(g).kind = "stream",
                      futures'[g].op # "fresh"
               PROVE  Object(g).last = g
    BY <1>6, <1>9 DEF StreamsLastPolled
  <2>1. futures[g].op # "fresh"
    BY <1>0, <1>6
  <2> QED
    BY <2>1 DEF Inv, StreamsLastPolled
<1>14. PolledIsBound'
  BY <1>3, <1>5, <1>6 DEF PolledIsBound
<1>15. PollReachesAll'
  BY <1>3, <1>4 DEF PollReachesAll
<1>16. PendingIsArmedOrWoken'
  <2> SUFFICES ASSUME NEW g \in DOMAIN futures, futures'[g].op = "pending", Heard(g)'
               PROVE  regs'[Object(g).key] \in {[ready |-> FALSE, waker |-> futures'[g].by],
                                                [ready |-> TRUE, waker |-> None]}
    BY <1>6, <1>9 DEF PendingIsArmedOrWoken
  <2>1. CASE g = f
    <3>1. Object(g).key = k /\ op = "pending" /\ futures'[g].by = futures[f].by
      BY <2>1, <1>6, <1>h, <1>k DEF Object
    <3> QED
      BY <1>7, <3>1
  <2>2. CASE g # f
    <3>1. futures'[g] = futures[g] /\ Heard(g)
      BY <2>2, <1>6, <1>9 DEF Heard
    <3>2. futures[g].obj # h
      BY <2>2, <1>0, <1>3, <1>h, <3>1 DEF Inv, StreamsBorrowedOnce, Heard, Object
    <3>3. Object(g).key \in DOMAIN regs /\ Object(g).key # k
      BY <1>0, <1>1, <1>9, <1>k, <3>2 DEF SlabsMatchHandles, Object
    <3> QED
      BY <1>7, <3>1, <3>3 DEF Inv, PendingIsArmedOrWoken
  <2> QED
    BY <2>1, <2>2
<1>17. NoWakerWithoutFuture'
  <2> SUFFICES ASSUME NEW x \in DOMAIN handles, Reg(x)'.waker # None
               PROVE  /\ handles[x].last \in Borrowers(x)
                      /\ Reg(x).waker = futures'[handles[x].last].by
    BY <1>4, <1>9 DEF NoWakerWithoutFuture
  <2>1. /\ handles[x].last \in Borrowers(x)
        /\ Reg(x).waker = futures[handles[x].last].by
    BY <1>9 DEF Inv, NoWakerWithoutFuture
  <2> QED
    BY <1>9, <2>1 DEF Borrowers
<1> QED
  BY <1>8, <1>10, <1>11, <1>12, <1>13, <1>14, <1>15, <1>16, <1>17 DEF Inv

(* Drop of a future: the slot is empty, and no other future of the object  *)
(* is promised anything.                                                   *)
LEMMA DropFutureInv ==
  ASSUME Inv, NEW f \in Future, DropFuture(f)
  PROVE  Inv'
<1> USE NoneAssumption DEF Open, Live
<1>0. TypeOK /\ SlabsMatchHandles /\ f \in DOMAIN futures /\ ~ polling
  BY DEF Inv, DropFuture, ClientCode
<1>h. PICK h \in Handle : h = futures[f].obj
  BY <1>0, Types DEF FutureType
<1>k. PICK k \in Key : k = handles[h].key
  BY <1>0, <1>h, Types DEF SlabsMatchHandles, HandleType
<1>1. h \in DOMAIN handles /\ k \in DOMAIN regs
  BY <1>0, <1>h, <1>k DEF SlabsMatchHandles
<1>2. regs[k] \in RegType /\ handles[h] \in HandleType
  BY <1>0, <1>1, Types
<1>3. /\ \A g \in DOMAIN futures : futures[g].op # "polled"
      /\ regs' = [regs EXCEPT ![k] = [regs[k] EXCEPT !.waker = None]]
      /\ futures' = Without(futures, f)
      /\ handles' = [handles EXCEPT ![h] = [handles[h] EXCEPT !.last = None]]
      /\ UNCHANGED <<items, events, polling>>
  BY <1>h, <1>k DEF DropFuture, ClientCode, Object
<1>4. /\ DOMAIN regs' = DOMAIN regs
      /\ regs'[k] = [ready |-> regs[k].ready, waker |-> None]
      /\ \A x \in DOMAIN regs : x # k => regs'[x] = regs[x]
  BY <1>1, <1>2, <1>3 DEF RegType
<1>5. /\ DOMAIN futures' = DOMAIN futures \ {f}
      /\ \A x \in DOMAIN futures' : futures'[x] = futures[x]
  BY <1>3 DEF Without
<1>6. /\ DOMAIN handles' = DOMAIN handles
      /\ handles'[h] = [kind |-> handles[h].kind, key |-> k,
                        index |-> handles[h].index, last |-> None]
      /\ \A x \in DOMAIN handles : x # h => handles'[x] = handles[x]
  BY <1>1, <1>2, <1>3, <1>k DEF HandleType
<1>7. TypeOK'
  <2>1. IsSlab(regs', Key, RegType)
    BY <1>0, <1>1, <1>2, <1>3 DEF TypeOK, RegType, IsSlab
  <2>2. IsSlab(futures', Future, FutureType)
    BY <1>0, <1>3, WithoutSlab DEF TypeOK, FutureType
  <2>3. IsSlab(handles', Handle, HandleType)
    BY <1>0, <1>1, <1>2, <1>3 DEF TypeOK, HandleType, IsSlab
  <2> QED
    BY <1>0, <1>3, <2>1, <2>2, <2>3 DEF TypeOK, RegType, HandleType, FutureType
<1>8. /\ \A x \in DOMAIN handles : handles'[x].key = handles[x].key
      /\ \A x \in DOMAIN handles : handles'[x].index = handles[x].index
      /\ \A x \in DOMAIN handles : handles'[x].kind = handles[x].kind
  BY <1>6, <1>k
<1>9. SlabsMatchHandles'
  BY <1>0, <1>3, <1>4, <1>5, <1>6, <1>8 DEF SlabsMatchHandles
<1>10. /\ \A x \in DOMAIN handles : x # h => Reg(x)' = Reg(x)
       /\ Reg(h)'.waker = None
       /\ \A x \in DOMAIN handles : x # h => Borrowers(x)' = Borrowers(x)
  <2>1. \A x \in DOMAIN handles : x # h => handles[x].key \in DOMAIN regs /\ handles[x].key # k
    BY <1>0, <1>1, <1>k DEF SlabsMatchHandles
  <2>2. \A x \in DOMAIN handles : x # h => Reg(x)' = Reg(x)
    BY <1>4, <1>6, <2>1 DEF Reg
  <2>3. Reg(h)'.waker = None
    BY <1>4, <1>6 DEF Reg
  <2>4. \A x \in DOMAIN handles : x # h => Borrowers(x)' = Borrowers(x)
    BY <1>5, <1>h DEF Borrowers
  <2> QED
    BY <2>2, <2>3, <2>4
<1>11. /\ \A g \in DOMAIN futures' : futures[g].obj \in DOMAIN handles
       /\ \A g \in DOMAIN futures' : Object(g)'.kind = Object(g).kind
       /\ \A g \in DOMAIN futures' : Object(g)'.key = Object(g).key
       /\ \A g \in DOMAIN futures' :
             Object(g)'.last = IF futures[g].obj = h THEN None ELSE Object(g).last
  BY <1>0, <1>5, <1>6, <1>k DEF SlabsMatchHandles, Object
<1>12. StreamsBorrowedOnce'
  BY <1>5, <1>11 DEF Inv, StreamsBorrowedOnce
<1>13. \A g \in DOMAIN futures' : Object(g).kind = "stream" => futures[g].obj # h
  BY <1>0, <1>5, <1>h DEF Inv, StreamsBorrowedOnce
<1>14. StreamsLastPolled'
  BY <1>5, <1>11, <1>13 DEF Inv, StreamsLastPolled
<1>15. LastIsLive'
  BY <1>6, <1>10 DEF Inv, LastIsLive
<1>16. PolledIsBound' /\ PollReachesAll'
  BY <1>0, <1>3, <1>5 DEF PolledIsBound, PollReachesAll
<1>17. PendingIsArmedOrWoken'
  <2> SUFFICES ASSUME NEW g \in DOMAIN futures', futures'[g].op = "pending", Heard(g)'
               PROVE  regs'[Object(g)'.key] \in {[ready |-> FALSE, waker |-> futures'[g].by],
                                                 [ready |-> TRUE, waker |-> None]}
    BY DEF PendingIsArmedOrWoken
  <2>1. g \in DOMAIN futures /\ g \in Future /\ futures'[g] = futures[g]
    BY <1>0, <1>5, Types
  <2>2. futures[g].obj # h /\ Heard(g)
    BY <1>11, <1>13, <2>1 DEF Heard
  <2>3. regs'[Object(g)'.key] = regs[Object(g).key]
    BY <1>5, <1>10, <1>11, <2>1, <2>2 DEF Reg, Object
  <2> QED
    BY <2>1, <2>2, <2>3 DEF Inv, PendingIsArmedOrWoken
<1>18. NoWakerWithoutFuture'
  <2> SUFFICES ASSUME NEW x \in DOMAIN handles, Reg(x)'.waker # None
               PROVE  /\ handles'[x].last \in Borrowers(x)'
                      /\ Reg(x)'.waker = futures'[handles'[x].last].by
    BY <1>6 DEF NoWakerWithoutFuture
  <2>1. x # h /\ Reg(x)' = Reg(x) /\ handles'[x] = handles[x] /\ Borrowers(x)' = Borrowers(x)
    BY <1>6, <1>10
  <2>2. /\ handles[x].last \in Borrowers(x)
        /\ Reg(x).waker = futures[handles[x].last].by
    BY <2>1 DEF Inv, NoWakerWithoutFuture
  <2>3. handles[x].last \in DOMAIN futures'
    BY <2>1, <2>2, <1>1, <1>5, <1>h DEF Borrowers
  <2> QED
    BY <1>5, <2>1, <2>2, <2>3
<1> QED
  BY <1>7, <1>9, <1>12, <1>14, <1>15, <1>16, <1>17, <1>18 DEF Inv

(* FakeReactor::poll starts with an event for every object ... *)
LEMMA PollBeginInv ==
  ASSUME Inv, PollBegin
  PROVE  Inv'
<1> USE DEF Open, Live
<1>0. TypeOK /\ SlabsMatchHandles /\ \A f \in DOMAIN futures : futures[f].op # "polled"
  BY DEF Inv, PollBegin, ClientCode
<1>1. /\ polling' = TRUE
      /\ events' = [i \in DOMAIN items |-> <<items[i][2], items[i][1]>>]
      /\ UNCHANGED <<regs, items, handles, futures>>
  BY DEF PollBegin, PollEvents
<1>2. TypeOK'
  <2>1. \A i \in DOMAIN items : i \in Index /\ <<items[i][2], items[i][1]>> \in Key \X Interests
    BY <1>0, Types
  <2>2. IsSlab(events', Index, Key \X Interests)
    BY <1>1, <2>1 DEF IsSlab
  <2> QED
    BY <1>0, <1>1, <2>2 DEF TypeOK
<1>3. PollReachesAll'
  <2> SUFFICES ASSUME NEW h \in DOMAIN handles PROVE EventToCome(h)'
    BY <1>1 DEF PollReachesAll
  <2>1. /\ handles[h].index \in DOMAIN items
        /\ items[handles[h].index] = <<Interest(handles[h].kind), handles[h].key>>
    BY <1>0 DEF SlabsMatchHandles
  <2> QED
    BY <1>1, <2>1 DEF EventToCome
<1>4. PolledIsBound'
  BY <1>0, <1>1 DEF PolledIsBound
<1>5. /\ SlabsMatchHandles' /\ StreamsBorrowedOnce' /\ LastIsLive' /\ StreamsLastPolled'
      /\ PendingIsArmedOrWoken' /\ NoWakerWithoutFuture'
  BY <1>1 DEF Inv, SlabsMatchHandles, StreamsBorrowedOnce, LastIsLive, StreamsLastPolled,
     PendingIsArmedOrWoken, NoWakerWithoutFuture, Object, Borrowers, Reg, Heard
<1> QED
  BY <1>2, <1>3, <1>4, <1>5 DEF Inv

(* ... serves one event at a time, which makes its object ready and takes  *)
(* the waker ...                                                           *)
LEMMA PollEventInv ==
  ASSUME Inv, PollEvent
  PROVE  Inv'
<1> USE DEF Open, Live
<1> DEFINE r == [ready |-> TRUE, waker |-> None]
<1>0. TypeOK /\ SlabsMatchHandles /\ polling
      /\ \A f \in DOMAIN futures : futures[f].op # "polled"
  BY DEF Inv, PollEvent, PolledIsBound
<1>m. PICK m : m = Min(DOMAIN events)
  OBVIOUS
<1>k. PICK k : k = events[m][1]
  OBVIOUS
<1>1. /\ regs' = [x \in DOMAIN regs |-> IF x = k THEN r ELSE regs[x]]
      /\ events' = Without(events, m)
      /\ UNCHANGED <<items, handles, futures, polling>>
  BY <1>m, <1>k DEF PollEvent, EventKey, FirstEvent, LaterEvents
<1>2. DOMAIN regs' = DOMAIN regs /\ \A x \in DOMAIN regs : regs'[x] \in {r, regs[x]}
  BY <1>1
<1>3. TypeOK'
  <2>1. IsSlab(regs', Key, RegType)
    <3>1. r \in RegType
      BY DEF RegType
    <3>2. IsSlab(regs, Key, RegType)
      BY <1>0 DEF TypeOK, RegType
    <3> HIDE DEF r
    <3> QED
      BY <1>1, <3>1, <3>2 DEF IsSlab
  <2>2. IsSlab(events', Index, Key \X Interests)
    BY <1>0, <1>1, WithoutSlab DEF TypeOK
  <2> QED
    BY <1>0, <1>1, <2>1, <2>2 DEF TypeOK, RegType
<1>4. SlabsMatchHandles' /\ StreamsBorrowedOnce' /\ LastIsLive' /\ StreamsLastPolled'
  BY <1>1, <1>2 DEF Inv, SlabsMatchHandles, StreamsBorrowedOnce, LastIsLive,
     StreamsLastPolled, Object, Borrowers
<1>5. PolledIsBound'
  BY <1>0, <1>1 DEF PolledIsBound
<1>6. /\ \A h \in DOMAIN handles : handles[h].key \in DOMAIN regs
      /\ \A f \in DOMAIN futures : Object(f).key \in DOMAIN regs
  BY <1>0 DEF SlabsMatchHandles, Object
<1>7. PollReachesAll'
  <2> SUFFICES ASSUME NEW h \in DOMAIN handles
               PROVE  Reg(h)' = r \/ EventToCome(h)'
    BY <1>1 DEF PollReachesAll
  <2>1. CASE Reg(h) = r
    BY <2>1, <1>1, <1>2, <1>6 DEF Reg
  <2>2. CASE EventToCome(h) /\ handles[h].index = m
    <3>1. handles[h].key = k
      BY <2>2, <1>k DEF EventToCome
    <3> QED
      BY <3>1, <1>1, <1>6 DEF Reg
  <2>3. CASE EventToCome(h) /\ handles[h].index # m
    BY <2>3, <1>1 DEF EventToCome, Without
  <2> QED
    BY <2>1, <2>2, <2>3, <1>0 DEF Inv, PollReachesAll
<1>8. PendingIsArmedOrWoken'
  <2> SUFFICES ASSUME NEW f \in DOMAIN futures, futures[f].op = "pending", Heard(f)
               PROVE  regs'[Object(f).key] \in {[ready |-> FALSE, waker |-> futures[f].by], r}
    BY <1>1 DEF PendingIsArmedOrWoken, Heard, Object
  <2>1. regs[Object(f).key] \in {[ready |-> FALSE, waker |-> futures[f].by], r}
    BY DEF Inv, PendingIsArmedOrWoken
  <2> HIDE DEF r
  <2> QED
    BY <2>1, <1>2, <1>6
<1>9. NoWakerWithoutFuture'
  <2> SUFFICES ASSUME NEW h \in DOMAIN handles, Reg(h)'.waker # None
               PROVE  /\ handles[h].last \in Borrowers(h)
                      /\ Reg(h)'.waker = futures[handles[h].last].by
    BY <1>1 DEF NoWakerWithoutFuture, Borrowers
  <2>1. Reg(h)' = Reg(h)
    BY <1>1, <1>2, <1>6 DEF Reg
  <2> QED
    BY <2>1 DEF Inv, NoWakerWithoutFuture
<1> QED
  BY <1>3, <1>4, <1>5, <1>7, <1>8, <1>9 DEF Inv

(* ... and ends behind the last one. *)
LEMMA PollEndInv ==
  ASSUME Inv, PollEnd
  PROVE  Inv'
<1> USE DEF Open, Live
<1>1. polling' = FALSE /\ UNCHANGED <<regs, items, handles, futures, events>>
  BY DEF PollEnd
<1>2. TypeOK' /\ PollReachesAll'
  BY <1>1 DEF Inv, TypeOK, PollReachesAll
<1>3. PolledIsBound'
  BY <1>1 DEF Inv, PolledIsBound, PollEnd, Object
<1>4. /\ SlabsMatchHandles' /\ StreamsBorrowedOnce' /\ LastIsLive' /\ StreamsLastPolled'
      /\ PendingIsArmedOrWoken' /\ NoWakerWithoutFuture'
  BY <1>1 DEF Inv, SlabsMatchHandles, StreamsBorrowedOnce, LastIsLive, StreamsLastPolled,
     PendingIsArmedOrWoken, NoWakerWithoutFuture, Object, Borrowers, Reg, Heard
<1> QED
  BY <1>2, <1>3, <1>4 DEF Inv

(* Every step preserves the invariant. *)
LEMMA NextInv == Inv /\ [Next]_vars => Inv'
<1> SUFFICES ASSUME Inv, [Next]_vars PROVE Inv'
  OBVIOUS
<1>1. CASE UNCHANGED vars
  <2>1. UNCHANGED <<regs, items, handles, futures, events, polling>>
    BY <1>1 DEF vars
  <2>2. TypeOK' /\ SlabsMatchHandles'
    BY <2>1 DEF Inv, TypeOK, SlabsMatchHandles, Open, Live
  <2>3. StreamsBorrowedOnce' /\ LastIsLive' /\ StreamsLastPolled' /\ PolledIsBound'
    BY <2>1 DEF Inv, StreamsBorrowedOnce, LastIsLive, StreamsLastPolled, PolledIsBound,
       Object, Borrowers, Open, Live
  <2>4. PollReachesAll' /\ PendingIsArmedOrWoken' /\ NoWakerWithoutFuture'
    BY <2>1 DEF Inv, PollReachesAll, EventToCome, PendingIsArmedOrWoken,
       NoWakerWithoutFuture, Heard, Object, Borrowers, Reg, Open, Live
  <2> QED
    BY <2>2, <2>3, <2>4 DEF Inv
<1>2. CASE Next
  BY <1>2, NewInv, DropInv, StartInv, BindWakerInv, AttemptInv, DropFutureInv,
     PollBeginInv, PollEventInv, PollEndInv DEF Next
<1> QED
  BY <1>1, <1>2

(* The inductive invariant holds in every reachable state. *)
THEOREM InvHolds == Spec => []Inv
  BY InitInv, NextInv, PTL DEF Spec

(* The reactor's state keeps its types. *)
THEOREM TypeCorrect == Spec => []TypeOK
<1>1. Inv => TypeOK
  BY DEF Inv
<1> QED
  BY <1>1, InvHolds, PTL

(* Registrations, poll items and the keys the I/O objects remember stay in *)
(* step, however keys are reused: no access by a remembered key panics.    *)
THEOREM SlabsInStep == Spec => []SlabsMatchHandles
<1>1. Inv => SlabsMatchHandles
  BY DEF Inv
<1> QED
  BY <1>1, InvHolds, PTL

(* A future whose poll returned Pending is armed with the waker of that    *)
(* poll, or was woken: no wake-up is lost, through any reuse of keys and   *)
(* change of wakers.                                                       *)
THEOREM NoLostWakeUp == Spec => []PendingIsArmedOrWoken
<1>1. Inv => PendingIsArmedOrWoken
  BY DEF Inv
<1> QED
  BY <1>1, InvHolds, PTL

(* The reactor holds a waker only for a future that exists. *)
THEOREM NoStrayWaker == Spec => []NoWakerWithoutFuture
<1>1. Inv => NoWakerWithoutFuture
  BY DEF Inv
<1> QED
  BY <1>1, InvHolds, PTL

(* When FakeReactor::poll returns it has reached every object. *)
THEOREM PollReachesEverybody == Spec => PollWakesAll
<1>1. Inv /\ [Next]_vars =>
        [polling /\ ~ polling' => \A h \in Open : Reg(h).ready /\ Reg(h).waker = None]_vars
  <2> SUFFICES ASSUME Inv, Next, polling, ~ polling', NEW h \in Open
               PROVE  Reg(h).ready /\ Reg(h).waker = None
    OBVIOUS
  <2>1. PollEnd
    BY DEF Next, New, Drop, Start, BindWaker, NotReady, WouldBlock, Complete,
       DropFuture, PollBegin, PollEvent, ClientCode
  <2>2. ~ EventToCome(h)
    <3>1. events = <<>>
      BY <2>1 DEF PollEnd
    <3>2. DOMAIN events = {}
      BY <3>1
    <3> QED
      BY <3>2 DEF EventToCome
  <2>3. Reg(h) = [ready |-> TRUE, waker |-> None]
    BY <2>2 DEF Inv, PollReachesAll
  <2> QED
    BY <2>3
<1> QED
  BY <1>1, InvHolds, PTL DEF Spec, PollWakesAll
=============================================================================
