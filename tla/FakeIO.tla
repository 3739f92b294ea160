------------------------------- MODULE FakeIO -------------------------------
(***************************************************************************)
(* The fake I/O of src/src/fakeio.rs, as operators on its state: how the   *)
(* calls on a FakeStream or FakeListener alternate, and Poll, which the    *)
(* reactor and RunManual share.                                            *)
(*                                                                         *)
(* A Slab is a function from its occupied keys.  Which vacant key it hands *)
(* out is up to the module that inserts.                                   *)
(***************************************************************************)
EXTENDS Naturals, FiniteSetsExt

READABLE == 1
WRITABLE == 2

(* FakeStream::calls and FakeListener::calls matter modulo 2 only. *)
Parity == 0 .. 1
NextCall(calls) == (calls + 1) % 2

(* Whether a call made now would block: every odd one does. *)
Blocks(calls) == NextCall(calls) = 1

(* A Slab whose keys are in D and whose entries are in R. *)
IsSlab(f, D, R) == DOMAIN f \subseteq D /\ f \in [DOMAIN f -> R]

(* Slab::insert at the vacant key k, and Slab::remove. *)
With(f, k, v) == [x \in DOMAIN f \cup {k} |-> IF x = k THEN v ELSE f[x]]
Without(f, k) == [x \in DOMAIN f \ {k} |-> f[x]]

(* Mutant: key and interest change places. *)
MutRegisterSwaps(items, index, key, interest) ==
  With(items, index, <<key, interest>>)

(* Poll::register puts the pair (interest, key) at a vacant index, which   *)
(* the object remembers; Poll::unregister takes it out again.              *)
Register(items, index, key, interest) == With(items, index, <<interest, key>>)
Unregister(items, index) == Without(items, index)

(* Poll::poll replaces the events by one (key, interest) for each item, in *)
(* the order of their indices.  An event keeps the index of its item here, *)
(* which is not its index in the slab `events' but gives the same order.   *)
PollEvents(items) == [i \in DOMAIN items |-> <<items[i][2], items[i][1]>>]

(* The event that is looked at next, and those behind it. *)
FirstEvent(events) == events[Min(DOMAIN events)]
LaterEvents(events) == Without(events, Min(DOMAIN events))
=============================================================================
