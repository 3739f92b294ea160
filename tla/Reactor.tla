------------------------------ MODULE Reactor -------------------------------
(***************************************************************************)
(* The reactor and the I/O futures of src/src/future.rs over the Poll of   *)
(* src/src/fakeio.rs, driven by arbitrary clients.                         *)
(*                                                                         *)
(* A client opens an I/O object (AsyncFakeStream or AsyncFakeListener),    *)
(* creates I/O futures on it (ReadFuture, WriteFuture, AcceptFuture),      *)
(* polls each as often as it likes with any waker, and drops it at any     *)
(* time; then it drops the object.  read() and write() borrow their stream *)
(* exclusively, so that it has one future at a time; accept() takes &self, *)
(* so that a listener may have several, which share its one waker slot.    *)
(*                                                                         *)
(* A poll of a future takes two steps, bind_waker and the attempt, because *)
(* bind_waker calls into the executor.  FakeReactor::poll takes one step   *)
(* per event for that reason.  The three futures have the same poll        *)
(* function and differ only in the call they attempt; whether it would     *)
(* block is left open here and is decided in module AsyncServer, which     *)
(* also counts the calls (Stats).                                          *)
(***************************************************************************)
EXTENDS Naturals, FiniteSets, FakeIO

CONSTANTS
  Handle,   \* I/O objects
  Future,   \* I/O futures
  Waker,    \* wakers, one per task
  Key,      \* the slots of `registrations': 0 .. registrations_max - 1
  None

ASSUME FiniteAssumption == IsFiniteSet(Handle) /\ IsFiniteSet(Key)
ASSUME NoneAssumption == None \notin Waker /\ None \notin Future

(* The keys of Poll::items; that slab grows as needed. *)
Index == 0 .. Cardinality(Handle) - 1

Kinds == {"stream", "listener"}
Interest(kind) == IF kind = "stream" THEN READABLE + WRITABLE ELSE READABLE
Interests == {Interest(kind) : kind \in Kinds}

(* An I/O future: created; its poll has bound the waker; its last poll     *)
(* returned Pending; it returned Ready.                                    *)
Ops == {"fresh", "polled", "pending", "done"}

VARIABLES
  regs,      \* registrations: the EventRegistration of each occupied key
  items,     \* Poll::items: index |-> <<interest, registration key>>
  handles,   \* open object |-> its kind, its registration key and its
             \* poll_index.  History: `last', the future that was polled
             \* last, until a future of the object is dropped
  futures,   \* I/O future |-> its object, its state, the waker it last got
  events,    \* the events FakeReactor::poll has yet to look at
  polling    \* FakeReactor::poll is running

vars == <<regs, items, handles, futures, events, polling>>

TypeOK ==
  /\ IsSlab(regs, Key, [ready : BOOLEAN, waker : Waker \cup {None}])
  /\ IsSlab(items, Index, Interests \X Key)
  /\ IsSlab(handles, Handle, [kind : Kinds, key : Key, index : Index,
                              last : Future \cup {None}])
  /\ IsSlab(futures, Future, [obj : Handle, op : Ops, by : Waker \cup {None}])
  /\ IsSlab(events, Index, Key \X Interests)
  /\ polling \in BOOLEAN

Init ==
  /\ regs = <<>> /\ items = <<>> /\ handles = <<>> /\ futures = <<>>
  /\ events = <<>> /\ polling = FALSE

Open == DOMAIN handles
Live == DOMAIN futures
Object(f) == handles[futures[f].obj]
Reg(h) == regs[handles[h].key]

(* The futures that borrow h. *)
Borrowers(h) == {f \in Live : futures[f].obj = h}

-----------------------------------------------------------------------------
(* The client's code: it runs outside FakeReactor::poll, and one poll of a *)
(* future ends before anything else happens.                               *)
ClientCode == ~ polling /\ \A f \in Live : futures[f].op # "polled"

(* FakeReactorRef::register has room; it returns Err otherwise, which both *)
(* constructors unwrap.                                                    *)
CanRegister == Cardinality(DOMAIN regs) # Cardinality(Key)

(* AsyncFakeStream::new and AsyncFakeListener::new: register, which fills  *)
(* a vacant key of both slabs, then set_ready(true).                       *)
New(h, kind) ==
  /\ ClientCode
  /\ h \notin Open
  /\ CanRegister
  /\ \E k \in Key \ DOMAIN regs, i \in Index \ DOMAIN items :
       /\ regs' = With(regs, k, [ready |-> TRUE, waker |-> None])
       /\ items' = Register(items, i, k, Interest(kind))
       /\ handles' = With(handles, h, [kind |-> kind, key |-> k, index |-> i,
                                       last |-> None])
  /\ UNCHANGED <<futures, events, polling>>

(* Mutant: the object is dropped without unregistering it. *)
MutDropStaysRegistered(h) ==
  /\ ClientCode
  /\ h \in Open /\ Borrowers(h) = {}
  /\ regs' = Without(regs, handles[h].key)
  /\ handles' = Without(handles, h)
  /\ UNCHANGED <<items, futures, events, polling>>

(* Drop of the object: unregister takes it out of Poll::items, then the    *)
(* drop of its RegistrationHandle frees the registration.                  *)
Drop(h) ==
  /\ ClientCode
  /\ h \in Open /\ Borrowers(h) = {}
  /\ items' = Unregister(items, handles[h].index)
  /\ regs' = Without(regs, handles[h].key)
  /\ handles' = Without(handles, h)
  /\ UNCHANGED <<futures, events, polling>>

(* read() and write() borrow the stream mutably, accept() shares the       *)
(* listener.                                                               *)
Start(f, h) ==
  /\ ClientCode
  /\ f \notin Live
  /\ h \in Open
  /\ handles[h].kind = "stream" => Borrowers(h) = {}
  /\ futures' = With(futures, f, [obj |-> h, op |-> "fresh", by |-> None])
  /\ UNCHANGED <<regs, items, handles, events, polling>>

(* Mutant: a waker that is bound already is kept, whomever it wakes. *)
MutBindKeepsFirst(f, w) ==
  /\ ClientCode
  /\ f \in Live /\ futures[f].op \in {"fresh", "pending"}
  /\ regs' = [regs EXCEPT ![Object(f).key].waker = IF @ = None THEN w ELSE @]
  /\ futures' = [futures EXCEPT ![f].op = "polled", ![f].by = w]
  /\ handles' = [handles EXCEPT ![futures[f].obj].last = f]
  /\ UNCHANGED <<items, events, polling>>

(* The poll of a future, first part.  bind_waker keeps the bound waker     *)
(* when will_wake says that it wakes the same task and replaces it         *)
(* otherwise: either way the registration ends up with a waker for w.      *)
BindWaker(f, w) ==
  /\ ClientCode
  /\ f \in Live /\ futures[f].op \in {"fresh", "pending"}
  /\ regs' = [regs EXCEPT ![Object(f).key].waker = w]
  /\ futures' = [futures EXCEPT ![f].op = "polled", ![f].by = w]
  /\ handles' = [handles EXCEPT ![futures[f].obj].last = f]
  /\ UNCHANGED <<items, events, polling>>

Polled(f) == f \in Live /\ futures[f].op = "polled"
IsReady(f) == regs[Object(f).key].ready

(* Second part: Pending, because the object is not ready ... *)
NotReady(f) ==
  /\ Polled(f) /\ ~ IsReady(f)
  /\ futures' = [futures EXCEPT ![f].op = "pending"]
  /\ UNCHANGED <<regs, items, handles, events, polling>>

(* Mutant: the object stays ready when the call would block. *)
MutWouldBlockStaysReady(f) ==
  /\ Polled(f) /\ IsReady(f)
  /\ futures' = [futures EXCEPT ![f].op = "pending"]
  /\ UNCHANGED <<regs, items, handles, events, polling>>

(* ... or because the call would block ... *)
WouldBlock(f) ==
  /\ Polled(f) /\ IsReady(f)
  /\ regs' = [regs EXCEPT ![Object(f).key].ready = FALSE]
  /\ futures' = [futures EXCEPT ![f].op = "pending"]
  /\ UNCHANGED <<items, handles, events, polling>>

(* ... or Ready, with the result of the call. *)
Complete(f) ==
  /\ Polled(f) /\ IsReady(f)
  /\ futures' = [futures EXCEPT ![f].op = "done"]
  /\ UNCHANGED <<regs, items, handles, events, polling>>

(* Mutant: the drop of a future does not unbind its waker. *)
MutDropFutureBound(f) ==
  /\ ClientCode
  /\ f \in Live
  /\ handles' = [handles EXCEPT ![futures[f].obj].last = None]
  /\ futures' = Without(futures, f)
  /\ UNCHANGED <<regs, items, events, polling>>

(* Drop of the future, finished or not: unbind_waker empties the slot,     *)
(* whichever future of the object filled it.                               *)
DropFuture(f) ==
  /\ ClientCode
  /\ f \in Live
  /\ regs' = [regs EXCEPT ![Object(f).key].waker = None]
  /\ handles' = [handles EXCEPT ![futures[f].obj].last = None]
  /\ futures' = Without(futures, f)
  /\ UNCHANGED <<items, events, polling>>

-----------------------------------------------------------------------------
(* FakeReactor::poll: Poll::poll fills the events ... *)
PollBegin ==
  /\ ClientCode
  /\ polling' = TRUE
  /\ events' = PollEvents(items)
  /\ UNCHANGED <<regs, items, handles, futures>>

(* ... of which the next one names this key, and wakes this waker. *)
EventKey == FirstEvent(events)[1]
Woken == IF EventKey \in DOMAIN regs THEN regs[EventKey].waker ELSE None

(* Mutant: an event of a registration that is ready already is skipped. *)
MutPollEventSkipsReady ==
  /\ polling
  /\ events # <<>>
  /\ regs' = [k \in DOMAIN regs |->
                IF k = EventKey /\ ~ regs[k].ready
                THEN [ready |-> TRUE, waker |-> None] ELSE regs[k]]
  /\ events' = LaterEvents(events)
  /\ UNCHANGED <<items, handles, futures, polling>>

(* One event: the registration becomes ready and its waker, if any, is     *)
(* taken and woken.  An event of a freed registration is skipped.          *)
PollEvent ==
  /\ polling
  /\ events # <<>>
  /\ regs' = [k \in DOMAIN regs |->
                IF k = EventKey THEN [ready |-> TRUE, waker |-> None]
                                ELSE regs[k]]
  /\ events' = LaterEvents(events)
  /\ UNCHANGED <<items, handles, futures, polling>>

PollEnd ==
  /\ polling
  /\ events = <<>>
  /\ polling' = FALSE
  /\ UNCHANGED <<regs, items, handles, futures, events>>

Next ==
  \/ \E h \in Handle :
       \/ \E kind \in Kinds : New(h, kind)
       \/ Drop(h)
       \/ \E f \in Future : Start(f, h)
  \/ \E f \in Future :
       \/ \E w \in Waker : BindWaker(f, w)
       \/ NotReady(f) \/ WouldBlock(f) \/ Complete(f)
       \/ DropFuture(f)
  \/ PollBegin \/ PollEvent \/ PollEnd

Spec == Init /\ [][Next]_vars

-----------------------------------------------------------------------------
(***************************************************************************)
(* Properties.                                                             *)
(***************************************************************************)

(* The two slabs and the keys the objects remember stay in step through    *)
(* every reuse of keys: each open object has a registration and a poll     *)
(* item of its own, the item names that registration and asks for what the *)
(* object is for, nothing else is in either slab, and futures borrow open  *)
(* objects.  In particular no access registrations[self.key] of a handle,  *)
(* and no items.remove(poll_index), can panic.                             *)
SlabsMatchHandles ==
  /\ DOMAIN regs = {handles[h].key : h \in Open}
  /\ DOMAIN items = {handles[h].index : h \in Open}
  /\ \A h \in Open :
       items[handles[h].index] = <<Interest(handles[h].kind), handles[h].key>>
  /\ \A g, h \in Open : g # h => /\ handles[g].key # handles[h].key
                                 /\ handles[g].index # handles[h].index
  /\ \A f \in Live : futures[f].obj \in Open

(* The futures whose wake-up the reactor answers for: those of streams,    *)
(* and of the futures waiting on a listener the one that was polled last,  *)
(* until another of them is dropped.                                       *)
Heard(f) == Object(f).kind = "stream" \/ Object(f).last = f

(* No wake-up is lost.  Such a future whose last poll returned Pending is  *)
(* armed (the object is not ready and the waker of that poll, not of an    *)
(* earlier one, is bound), or that waker was woken and the next poll will  *)
(* try the call.                                                           *)
PendingIsArmedOrWoken ==
  \A f \in Live : futures[f].op = "pending" /\ Heard(f) =>
    regs[Object(f).key] \in {[ready |-> FALSE, waker |-> futures[f].by],
                            [ready |-> TRUE, waker |-> None]}

(* A registration holds a waker only on behalf of the future that bound    *)
(* it, which still exists: a waker left behind would make the executor's   *)
(* ref_count() assertion fail.                                             *)
NoWakerWithoutFuture ==
  \A h \in Open : Reg(h).waker # None =>
    /\ handles[h].last \in Borrowers(h)
    /\ Reg(h).waker = futures[handles[h].last].by

(* Once FakeReactor::poll returns, every armed future has been woken. *)
PollWakesAll ==
  [][polling /\ ~ polling' =>
       \A h \in Open : Reg(h).ready /\ Reg(h).waker = None]_vars
=============================================================================
