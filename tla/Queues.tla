------------------------------- MODULE Queues -------------------------------
(***************************************************************************)
(* What src/src/list.rs promises: each list is a sequence of keys, no key  *)
(* is in two places, and the operations are the sequence operations of     *)
(* their names.  Callers keep to the contract of an intrusive list: a key  *)
(* is inserted only while it is in no list, and removed only from the list *)
(* it is in (removing a key that is in no list does nothing).              *)
(***************************************************************************)
EXTENDS Naturals, SequencesExt

CONSTANTS
  Key,      \* node keys
  ListId,   \* the lists that share the node collection
  None      \* the answer of pop_front on an empty list

VARIABLES
  queue,    \* queue[l]: the keys in list l, front first
  ret       \* what the last pop_front or is_empty returned

vars == <<queue, ret>>

Linked(k) == \E l \in ListId : Contains(queue[l], k)

Init ==
  /\ queue = [l \in ListId |-> <<>>]
  /\ ret = None

(* Insert k behind the i-th key of l; i = 0 inserts in front. *)
Insert(l, i, k) ==
  /\ ~ Linked(k)
  /\ i \in 0..Len(queue[l])
  /\ queue' = [queue EXCEPT ![l] = InsertAt(@, i + 1, k)]
  /\ UNCHANGED ret

PushBack(l, k) ==
  /\ ~ Linked(k)
  /\ queue' = [queue EXCEPT ![l] = Append(@, k)]
  /\ UNCHANGED ret

RemoveKey(l, i) ==
  /\ i \in 1..Len(queue[l])
  /\ queue' = [queue EXCEPT ![l] = RemoveAt(@, i)]
  /\ UNCHANGED ret

PopFront(l) ==
  IF queue[l] = <<>>
  THEN ret' = None /\ UNCHANGED queue
  ELSE ret' = Head(queue[l]) /\ queue' = [queue EXCEPT ![l] = Tail(@)]

Concat(a, b) ==
  /\ a # b
  /\ queue' = [queue EXCEPT ![a] = queue[a] \o queue[b], ![b] = <<>>]
  /\ UNCHANGED ret

IsEmpty(l) == ret' = (queue[l] = <<>>) /\ UNCHANGED queue

Next ==
  \E l \in ListId :
    \/ \E k \in Key : PushBack(l, k)
    \/ \E k \in Key, i \in 0..Len(queue[l]) : Insert(l, i, k)
    \/ \E i \in 1..Len(queue[l]) : RemoveKey(l, i)
    \/ PopFront(l)
    \/ \E m \in ListId : Concat(l, m)
    \/ IsEmpty(l)

Spec == Init /\ [][Next]_vars
=============================================================================
